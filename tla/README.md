# A TLA+ development for DeskID

DeskID is an identity server (FastAPI and SQLAlchemy, `src/deskid`) with a
portal (`frontend`) and client SDKs (`packages`). This directory holds TLA+
modules that model its stateful parts, TLC configurations that check them on
small instances, and TLAPS proofs of what holds for every instance. Paths below
are those of the repository.

## The system

### How it executes

Every handler is synchronous and runs in a worker thread with a database session
of its own (`db.py`, `get_db`). Sessions do not flush by themselves and expire
what they loaded at each commit; the database works at READ COMMITTED. A handler
therefore is: read rows, decide, later commit. No row is locked, no row has a
version column, and an UPDATE carries the columns whose value differs from the
one loaded, computed from what was loaded. Many handlers commit several times
(the action, then the tokens, then the audit event), and a worker may die between
two commits. All server modules are built on exactly this: **a read and the next
commit are two steps, and any other request may come in between**.

The browser side is the opposite: JavaScript runs a handler to its end, and other
handlers run only at an `await`.

### Inventory

| Component | State | Operations | What is hard | What makes it correct |
|---|---|---|---|---|
| **Sessions** (`services.py`, `routes/auth.py`, `admin.py`, `oauth.py`, `jwks.py`) | `users.is_active`, `deleted_at`, `token_version`; `refresh_tokens` | login, magic link, OAuth callback, refresh, switch-org, logout, revoke one/all, reset or change of the password, suspend, activate, introspect | stale `is_active`; rows loaded before, marked after; lost update of `token_version`; crash between commits | a revocation or a suspension is a fence; a refresh token is spent once; introspection agrees with revocations |
| **Lockout** (`authenticate_password`) | `failed_login_attempts`, `locked_until` | a password attempt | lost updates; an attempt that passed the check before the lock was set | enough failures lock, fewer never do, a lock in force holds |
| **One-time tokens** (`services.py` 307-488) | `email_verification_tokens`, `password_reset_tokens`, `magic_link_tokens`, `users.email`, `email_verified_at` | create, verify, reset, sign in by link or passcode, change the address | use in two requests; count and cut-off in two commits; change of address beside a verification | used once; cut off after the limit; a verified address was proved |
| **Audit log** (`emit_audit`, `scripts/verify_audit_chain.py`, `/reconciliation/events`) | `audit_log_events`; a consumer's cursor | emit, verify, page through the feed | the newest row is read before the own one is inserted; commits out of the order of `occurred_at` | a chain that shows tampering; a feed that misses nothing |
| **Portal client** (`frontend/src/api/client.ts`) | token pair in localStorage, `isRefreshing`, `refreshSubscribers` | request, refresh, login, switchOrg, logout | several 401s at once; answers that come late; lost answers | one refresh at a time; sign-out holds; every call is answered |
| **Organisations** (`routes/orgs.py`, `routes/me.py`, `delete_user_data`) | `orgs`, `memberships`, the rows that refer to organisation or account | create, add/remove member, delete, delete an account, succession | owners counted, then one removed; memberships read, then written; foreign keys that refuse a deletion | an owner stays; nobody's organisation goes with another's account; a removal sticks; a deletion succeeds |
| Portal stores, router, views | `user`, `accessToken` copies | fetchProfile, guards | any error signs out | not modelled |
| **Registration and OAuth** (`routes/auth.py`, `oauth.py`, `create_user_with_password`, `find_or_create_oauth_user`, `update_user_profile`, `delete_user_data`) | `users`, `identities`, `oauth_states`, verification tokens and sign-in links out | register, verify, sign in by mail, expiry, change the address, OAuth start and callback, purge, delete the account | two first registrations; the only administrator gone after a registration counted it; crash or failed mail between the account and its token; link by address beside a change of address | an administrator from the start, and one only; an OAuth account comes into a proved account; an address that is free can be registered |
| **Grants and service registry** (`routes/admin.py`) | `product_grants`, `service_definitions`, the newest event | set_grant, register/update/delete service | read then insert without a lock, a unique key that ignores NULL; grant and event in two commits; updates checked against what was loaded | services are told what tokens carry; a default role is allowed |
| **Rate limiter** (`rate_limit.py`) | the hits in the window: in each process, in the database, in Redis | is_allowed | count, then insert; a store that fails midway; memory per process; times taken early | no more than the limit get in, nobody is refused for hits that were refused |
| SDK core (`packages/core`) | session, storage, timer | refresh, logout | tabs that share a storage, sign-out beside a refresh | planned |
| Keys, mail, metrics, configuration, migrations, SDK bindings, UI | settings, I/O | | | not modelled: I/O, presentation, or pure functions of the settings |

Interactions: the handlers share the database and nothing else. A sign-in runs
lockout or a one-time token, then session issue, then an audit emission; a reset
consumes a one-time token and then revokes the sessions. The portal and the SDK
see the session endpoints. The downstream services see access tokens,
introspection and the feed.

## The modules

| Module | Models | Checked by | Proved in |
|---|---|---|---|
| `Sessions` | one account's sessions | `MCSessions`: `sessions`, `doc_reset` | `SessionsProofs` |
| `Lockout` | one account's password attempts | `MCLockout`: `lockout` | `GuessingProofs` |
| `OneTimeTokens` | one account's mailed tokens and its address | `MCOneTimeTokens`: `one_time`, `doc_email_change` | `OneTimeTokensProofs` |
| `Registration` | how accounts come to be, and whose address they have | `MCRegistration`: `registration` | `RegistrationProofs` |
| `AuditLog` | emissions, verifier, tampering, feed | `MCAuditLog`: `audit_log` | `AuditLogProofs` |
| `HashTree` | what `emit_audit` promises (abstract); `AuditLog` implements it | `audit_log`, property `ImplementsHashTree` | `AuditLogProofs` (`Refinement`) |
| `Organisations` | one organisation, the accounts in it | `MCOrganisations`: `organisations` | `OrganisationsProofs` |
| `Grants` | one user's grants for one service, and its registry entry | `MCGrants`: `grants` | `GrantsProofs` |
| `RateLimiter` | one client's hits on one endpoint | `MCRateLimiter`: `rate_limit` | `GuessingProofs` |
| `PortalClient` | one tab of the portal against the server | `MCPortalClient`: `portal`, `doc_portal_waits` | `PortalClientProofs` |

`Lockout` and `RateLimiter`, the two defences against guessing, share a module of
proofs, so the parts of `RateLimiter`'s specification carry the prefix `RL`
(`RLInit`, `RLNext`, `RLSpec`, `RLTypeOK`).

The module comments of the proof modules say how an argument goes; the comments in
the other modules name the code each definition stands for, and `PROJECT.json`
(`map`) its lines. A definition whose comment begins with "Mutant of" is a
plausible bug of the definition after it; the property it breaks is listed in
`PROJECT.json` (`mutants`). No specification uses it.

### Sessions

State: the three columns of the user, the table of refresh tokens (each row also
stands for the access token issued with it, `ver` being its `token_version`
claim), and the requests in flight, each with its kind, its program counter and
what it has loaded. A handler is one action per stretch between two points at
which another request can matter:

* `rotate_refresh`: `BeginRotate` (row read, not revoked), `RotateCheck` (user
  read, active), `RotateConsume` (row committed as revoked), `IssueRead` (the user
  is read again, its `token_version` taken), `IssueCommit` (new row).
* password sign-in: `BeginLogin`, `LoginCommit` (lockout columns committed, user
  refreshed and checked), `IssueRead`, `IssueCommit`. The tokens that
  `register` returns come about the same way.
* magic link and passcode: `BeginMagic`, `MagicCommit`, `IssueCommit`; OAuth
  callback: `BeginOAuth`, `IssueCommit`; `switch_org`: `BeginSwitch`, `IssueCommit`.
* account-wide: `BeginSuspend`, `BeginReset`, `BeginRevokeAll` (which stands for
  "log out everywhere" and the change of the password) then `LoadRows` then
  `AccountWideCommit`; `BeginActivate` then `AccountWideCommit`.
* `revoke_refresh` and `revoke_session`: `BeginLogout`/`BeginRevokeSession`, `MarkRevoked`.
* `Crash` ends any request between two of its steps.

History variables and fields record what a property needs and no guard reads:
`revocations` counts committed revocations, `epoch` is its value when the person
behind a session last proved who they are, `calm` says that the request that
inserted a row overlapped no conflicting revocation, `sound` that this holds for
its whole chain (sign-in and rotations, no switch of organisation).

The provisos in the properties are the code's, not the model's. Without `calm`,
`SuspensionFence` fails: a rotation that has looked at `is_active` inserts its row
after the suspension loaded the rows to revoke. Without the exception for OAuth it
fails too, since a callback does not look at `is_active` (docs/user_onboarding.md
lines 188 and 195 promise otherwise, as does docs/code_map.md:149). Without `calm`
a refresh token is exchanged twice. What `doc_reset` shows needs no race at all.

### Lockout

`Read` is the query and the clock; `Begin`, `Refuse` the check of the lock;
`Fail`, `Succeed` the commit after bcrypt, computed from what `Read` saw, with only
the columns that differ. `streak`, `failures`, `lastFailure` and `alone` are
history. docs/user_onboarding.md:215 ("After 5 consecutive failed password
attempts") holds for failures that overlap no other attempt
(`SerialFailuresLock`); attempts that overlap are counted once.

### OneTimeTokens

A row is any of the three tables' (`kind`). `Take` is the query of a request that
will consume a row, `Consume` the commit of `used_at` (with
`email_verified_at`, in the same transaction), `Use` what follows in another
transaction: a session or a new password. A wrong passcode goes through `Count`,
`Recount` (the row is read again after the commit) and `Exhaust`.
`BeginChange`/`Change` are `update_user_profile`. `disturbed` collects the rows
that two requests held at once; `uses` counts what came of the others and `guesses`
the wrong passcodes that were compared with theirs. A worker that dies exempts
nothing: a row whose last attempt was counted but that the dead worker never marked
as used is in `unmarked`, and `CodeIsCutOff` says that even this row is compared
with nothing more, since the next attempt looks at `attempts_count` first. When the newest passcode is used up, the next
older one that is neither used nor expired becomes the one that is compared:
`BeginOtp` has it as the code does.

### Registration

`register` is `BeginRegister` (users counted; with registration closed only the
first gets in), `LookAddress`, `CreateUser` (user, identity, organisation and grants
in one commit), `MailToken` (the verification token, another commit).
`update_profile` is `BeginChange`, `Change`, `MailToken`. A callback is
`BeginCallback` and `ConsumeState` (the row is read, then deleted: two callbacks
with one state both go on), `Exchange` (any account and address the provider may
name), `FindAddress`, then `Link` or `Join`. `Verify` and `SignInByMail` set
`email_verified_at`; that they are two steps of their own is the subject of
`OneTimeTokens`, here they are atomic. `mailed` counts the verification tokens
that are out by the address the mail went to, and `links` has the addresses that a
sign-in link and its passcode went to; neither token itself knows. A mail may fail
(`MailToken`, its second disjunct), a token and a link expire (`ExpireToken`,
`ExpireLink`). `Delete` is `delete_user_data`, with its reads and its commit as one
step: identities and verification tokens go with the account, a `magic_link_tokens`
row (`asked`) prevents it. What else it meets is in `Organisations`. A request that
was about to change the account, to mail it or to link to it finds it gone. Users
that are gone may come back as new ones: `Users` bounds the accounts at a time,
not those ever made. The unique keys are checked at the commit (`Conflicts`).

History: `standing` says how the address of now was verified. It is `proved` if mail
to it came back, or a provider named it when the account was made; it is `carried` if
`verified_at` stands for it though it was set by mail to another address, or while
the address was being changed. That is the bug `doc_email_change` shows, and
`JoinsProvedAccount` names it as the one exception: a link mailed to a former
address, taken after the change, opens the new address to whoever has it at a
provider. `lapsed` are the unverified accounts whose last token expired, could not be
mailed, or was lost with a worker; `bereft` says how a deployment may come to
be without an administrator; `alone` that a registration overlapped no other
request.

`FirstIsAdmin` holds with the provisos of the code. The count of users is stale by
the time of the commit. An OAuth callback makes accounts that are never
administrators, even on an empty table, after which nobody ever becomes one by
registering. And any account may be deleted, that of the only administrator
too: the accounts that are left, or a registration that had already counted it, make
no other. Only when everybody is gone, and no registration is in flight, does the
next to register become administrator again. `UnverifiedIsCovered` says that a
verification is on its way or that it is in `lapsed` why not: no other interleaving,
of changes of address with mails among them, leaves an account that waits for a
mail nobody sends. `RefusedForCause` names the one way in which an address that is
free cannot be registered: `update_user_profile` leaves the password identity under
the former address, and the unique key refuses whoever comes next, with an error 500,
until the account that gave the address up is deleted.

### AuditLog and HashTree

An emission is `ReadLast`, `Write` (clock and hash, at the flush), `Commit`.
SHA-256 is taken as collision free, a hash being the sequence of payloads it
covers. `Edit` and `Remove` are writes by somebody who bypasses the application
(models.py:177-184 forbid them to it). `Poll` is a page of the feed and the
consumer that comes back with its cursor. `HashTree` says what remains true under
every interleaving: one row at a time is added, with the hash of its contents,
chained to some row that was committed. That it is a *chain* needs emissions that
do not overlap. The history variable `beside` has, for each emission, those that
were in flight together with it, and the properties blame the damage on single
pairs: `BreaksOnlyAtOverlaps` says that the link between a row and the row before
it is missing only if these two were in flight together, `SkipsOnlyOverlapped` that
the feed passes over a row only if it has served a later one that was in flight
together with it. (README.md:246 says of all security events that they are
chained; of two that overlap one is passed over, the proviso of that property.)
`TamperingIsNoticed` is about rows inside a log no two of whose rows overlapped;
emissions that died do not count. The verifier does not look at the first row's
`previous_hash` and does not know how long the log was, so rows removed at either
end go unnoticed.

### Organisations

State: whether the organisation's row exists, each account's role in it, the
accounts, who has a `product_grants` row for the organisation (`granted`) or a
`magic_link_tokens` row (`linked`), and the requests in flight. `add_member` is
`BeginAdd` (the actor may), `LookAdd` (target and its membership read),
`CommitAdd`; `remove_member` is `BeginRemove`, `LookRemove` (the owners counted),
`CommitRemove`; `delete_org` is `BeginDelete`, `CommitDelete`;
`delete_my_account` is `Announce` (the event `user.delete`, a commit of its own),
`Load`, `Walk` (who remains), `Erase`. `SetGrant` and `SendMagicLink` are the
other handlers that insert rows which refer to these. The creator of the
organisation is its owner: `Init` is `create_org`, or what `register` inserts.

Two things outside the code matter and are modelled from how it uses them. The
SQLAlchemy session keeps a row it has loaded: a later query finds the row but does
not refresh it (`Reading`), an UPDATE of a row that was deleted meanwhile raises,
a DELETE of one only warns; `gone` records whose row a session holds in vain. And PostgreSQL
checks the foreign keys of `models.py` (`Consistent`). SQLite as `db.py` opens it
does not check them; there the deletions below leave dangling rows instead of
failing. The row locks that a flush takes before its commit are left out: they
make others wait, and a wait removes behaviours.

`alone` says that no other request overlapped. The provisos of `LastOwnerStays`
are the code's: two removals that overlap leave no owner though each counted two,
and `add_member` changes the role of any member, so that an admin may demote the
last owner. docs/user_onboarding.md:150 says an admin "cannot delete org or demote
owners". `RefusedForCause` lists why a deletion of an account fails when nothing
overlaps it. One cause is any sign-in link ever sent: no code deletes a
`magic_link_tokens` row, nor does `delete_user_data`, so that an account that once
asked for a link can never be deleted, while `user.delete` has been emitted each
time (docs/product_onboarding.md:334 tells the products to purge on it). The other
is the grant of a former member. `delete_org` fails in the same way as long as any
grant refers to the organisation.

### Grants

`set_grant` is `BeginGrant` (service read, role settled and checked), `FindGrant`
(`one_or_none`: two rows are an error), `SetGrant` (insert or update, committed),
`Emit` (the audit event, another commit). `told` is the role in the newest such
event, which is what a service that follows the feed has. `update_service` checks
what it is about to write against the row it loaded and writes the columns that
differ (`BeginUpdate`, `UpdateService`).

`settled` collects the scopes whose last `set_grant` overlapped no other and ran to
its end; for the others `FeedTellsRole` fails: a crash before `Emit` leaves the
services with the former role, events may come in the other order than the
commits, and two platform-wide grants can be inserted, for their `org_id` is NULL
and the unique key does not see them, after which every later `set_grant` of that
scope is an error. `mixed` says that the service is the work of two updates, each
of which checked the other's column as it was before.

### RateLimiter

A hit takes its time (`Arrive`), then counts and is recorded: under the lock of its
process (`CountInMemory`), by two statements (`CountInDb`, `InsertInDb`), or by
one pipeline and a `zrem` (`Pipeline`, `Undo`). `StoreFails` is an error of the store
at any of these, the statement carried out or not; the process's memory then decides,
or `rate_limit_fail_closed`. `Restart` forgets a memory and kills the hits under
way. `TimePasses` is the clock. `LimitHolds` has the provisos of the code: the
database does not limit hits that are under way together (`beside`), memory limits
only within a process, and all of them only if hits are counted in the order of
their times and the store has not failed. `RefusedForCause` is the other direction;
`litter` are the records in the store of hits it did not let in.

### PortalClient

A token pair is a number. `call[c].pc` follows one `request()` from `sent` through
401 (`unauthorized`), its own refresh (`refreshing`, `refreshed`, `refused`) or the
wait for another's (`waiting`), to the retry and to `settled`. `Switches` are the
calls whose answer is a new pair. The server is the part of `Sessions` that the
client sees: pairs issued, the refresh tokens accepted (`live`), the access tokens
accepted (`fresh`), single-use refresh, expiry and revocation at any time. Other tabs and the store's own handling of errors
(`stores/auth.ts`) are left out.

## The runs

| Run | Instance | Distinct states | Shows |
|---|---|---|---|
| `sessions` | 2 tokens, 2 requests (both may revoke), versions up to 2 | 671,000 | `SuspensionFence`, `RevocationFence`, `ExchangedTokenIsSpent`, `IntrospectionFence` |
| `lockout` | 3 workers, limit 3, lock of 2 ticks, 6 ticks | 336,000 | `SerialFailuresLock`, `LockNeedsFailures`, `LockHolds` |
| `one_time` | 2 rows, 2 requests, 2 addresses, 3 attempts | 2,239,000 | `UsedOnce`, `CodeIsCutOff`, `ReverifiedIfSettled` |
| `audit_log` | 3 emissions, 2 payloads (two emissions say the same), pages of 1 | 17,000 | `BreaksOnlyAtOverlaps`, `TamperingIsNoticed`, `SkipsOnlyOverlapped`, `FeedCatchesUp`, `ImplementsHashTree` |
| `organisations` | 2 accounts, 2 requests | 481,000 | `LastOwnerStays`, `NobodyIsDispossessed`, `RemovalSticks`, `RefusedForCause` |
| `registration` | 2 accounts at a time, 2 addresses, 1 provider account, 1 state, 2 requests, 1 account that asks for a link | 1,050,000 | `FirstIsAdmin`, `UnverifiedIsCovered`, `JoinsProvedAccount`, `RefusedForCause` |
| `grants` | 2 roles, 1 organisation and platform-wide, 2 rows, 2 requests | 1,799,000 | `FeedTellsRole`, `DefaultIsAllowed` |
| `rate_limit` | 3 hits, 2 processes, limits 1 and 2, window of 2 ticks, 4 ticks | 848,000 | `LimitHolds`, `RefusedForCause` |
| `portal` | 2 plain calls, 1 switch, 2 token pairs | 74,000 | `FlagIsTrue`, `LiveSessionIsKept`, `LogoutSticks`, `CallsSettleOrStrand` |
| `doc_reset` | as `sessions` | violated | `ResetEndsEverySession` (docs/user_onboarding.md:209) |
| `doc_email_change` | as `one_time` | violated | `VerifiedAddressIsProved` (README.md:304) |
| `doc_portal_waits` | as `portal` | violated | `EveryCallSettles` (client.ts:111) |

Each run that passes also checks `TypeOK` (`RLTypeOK` of `RateLimiter`).

**Bounds.** `MaxVersion`: no revocation starts once `token_version` has reached it,
but an activation may; two are enough for two revocations, at once or in a row,
beside every other request. Rows are never reused, so `Tokens` bounds how many sessions
are ever issued: two give a token and its successor, or two sessions, and every
property relates at most two rows. Two requests give every pairwise race; the theorems of
`SessionsProofs` carry the main properties to any number. `MaxClock` bounds the clock of the lockout;
six ticks hold a lock, its expiry and a second one. `MaxTime` bounds that of the
limiter: the four times 0 to 3 are two windows, so a hit can leave one. `MaxPairs`
bounds the token pairs the server issues: a sign-in and a refresh, or a refresh and a
switch. `uses` counts up to 2, `guesses` up to one more than the limit and `failures` up to the limit, beyond which no property distinguishes.
Three emissions are the fewest with a row inside the log. `MaxMails`: no change of address begins while
so many mails to one address of the user are out; one is enough for a token that was
sent before the address changed, and for a change that lets the only one expire.
`MaxLinks`: so many of the accounts ask for a sign-in link, once each; one account is
enough for a link that outlives a change of address, beside another that can be deleted.
`open_registration` is TRUE in the run; FALSE, the default of `config.py`, allows no
registration that TRUE does not. The theorems hold for both. Two limits in `rate_limit` let three hits pass
the limit as well as show that a refused hit counts. Two accounts are an owner and
another member, who may be an owner too, an heir or a stranger; nothing else in
`Organisations` is bounded, and its theorems hold for any number of both.

**Symmetry** is used only in runs without liveness properties, over sets of model
values that nothing tells apart. **Deadlock** is checked except in `audit_log`, `organisations`,
`registration`, `rate_limit` and the runs of the portal: there each emission, hit or
call happens once, or every account is deleted, or the bounded mails are used up,
and the system may rest when all are done.

**Fairness.** `AuditLog` has `WF(Poll)`: the consumer keeps polling, which is what
`/reconciliation/events` is for; emissions are not fair, a worker may die.
`PortalClient` has `WF` of the handling of each call: the browser answers or fails
each request it sent, and runs handlers that are ready. It does not assume that
the user signs in again, nor that any token expires, nor that another call comes;
these are the events for which a stranded call waits. The other modules have safety properties only.

## The proofs

`SessionsProofs` (for any `Tokens`, `Requests`, `Revokers`, and no bound but
`MaxVersion`, which only disables actions):

* `TypeCorrect`: `TypeOK`. Needs the assumptions `SlotsAssumption`,
  `NoTokenAssumption`, `MaxVersionAssumption` of the module.
* `SuspensionHolds`, `RevocationHolds`: the inductive invariant is `FenceInv`. The two fences are not
  inductive by themselves; what keeps them is that a calm issuing request runs
  beside no account-wide one (`CalmIsAlone`), so what it has checked still holds
  (`CheckedIsActive`, `SoundIsCurrent`), and that a revocation about to commit has
  loaded every live calm row (`LoadedCoversCalm`).
* `ExchangedTokenSpent`, `RotationSingleUse`: from `ExchangeInv`. A token whose
  rotation has committed stays revoked (`ConsumedIsRevoked`), and a calm rotation is the only
  one of its token and its token has no successor yet (`CalmRotationIsAlone`).
* `IntrospectionHolds`: introspection calls no access token active that was issued
  before a revocation began which has committed. Revocations that overlap lose
  increments of `token_version`; the invariant says that none is lost to those
  before it.

`GuessingProofs`, of `Lockout` (for any `Workers`, `MaxAttempts`, `Duration`):

* `FailuresLock`, `LockIsEarned`: from `LockInv`. An attempt that is alone holds
  the row as it is (`AloneIsCurrent`), nobody in flight has read a lock in force
  (`NoLockRead`), and the counter in the row and in every attempt in flight is
  covered by failures that happened (`CountsAreFailures`).
* `LockInForceHolds`: the action property `LockHolds`, from the same invariant;
  `TypeCorrect`.

`GuessingProofs`, of `RateLimiter` (for any finite `Hits`, any `Processes`, any set of
`Limits`, any `Window` > 0; `MaxTime` only disables the clock):

* `LimiterTypeCorrect`: `RLTypeOK`.
* `LimitIsKept`: `LimitHolds`, from `RLInv`. A limiter that counts what a store holds
  keeps a limit on what it let in only if the store forgets nothing too early: what
  it let in is still held or has left a window already (`LetInIsHeld`). Between the
  count in the database and the insertion others may insert; whoever does was under
  way together with this hit and both know it (`BesideIsKnown`), so the count is still
  right for everybody else when the row goes in (`CountedBefore`).
* `RefusalsHaveCause`: `RefusedForCause`, because a store holds nothing but what was
  let in and the `litter` that refused or failed hits leave there (`HeldWasLetIn`).
* `MemoryIsBounded`: a process never has more records of a key in memory than the
  limit, since a refused hit leaves none there. No run checks it.

  Assumptions: `HitsAssumption` (the hits are finitely many, for they are counted),
  `NoProcessAssumption`, `LimitsAssumption`, `WindowAssumption`, `MaxTimeAssumption`.

`OrganisationsProofs` (for any `Users`, `Requests`):

* `TypeCorrect`, and the four action properties: `LastOwnerHolds`,
  `OnlyOwnOrganisationGoes`, `RemovalIsFinal`, `RefusalHasCause`. The inductive
  invariant `Inv` says what a request still knows when it commits: a row its
  session holds is there unless it is in `gone` (`HeldOrGone`), and to a request
  that was never overlapped everything it has read is still so (`LoneIsCurrent`,
  which needs `LoneIsOnly`: it is the only one). The only assumption is
  `NoUserAssumption`.

`RegistrationProofs` (for any `Users`, `Addresses`, `Subjects`, `States`,
`Requests`, with registration open or closed; `MaxMails` and `MaxLinks` only disable
actions):

* `TypeCorrect`, `BootstrapHolds`, `CoverHolds`, `JoinHolds`, from the invariant
  `TypeOK` with `BootstrapInv`. A registration that is alone is the only request,
  and if it counted nobody there is nobody (`AloneIsAlone`, which deletion does
  not disturb: accounts only become fewer); once the first has committed alone nobody in
  flight has counted nobody (`AloneIsFirst`). As long as there is no administrator
  and nobody is bereft of one there is nobody at all, and every registration in flight
  has counted nobody (`NobodyBeforeTheFirst`): so whichever commits first makes the
  administrator. Without it `FirstIsAdmin` is not inductive, for a registration that
  has counted somebody may outlive whom it counted. A verified account has a standing
  (`VerifiedIsProved`), so has whatever a link has found (`LoadedIsSound`).
* `RefusalHasCause`: from these and `RefusalInv`. An identity has a user, and to a
  registration that is alone the address it has found free still is
  (`FreeIfAlone`); so a refusal comes from an identity that kept an address its
  user gave up.

  Assumptions: `NoUserAssumption`, `NoAddressAssumption`,
  `KeysAssumption` (an address is not a provider's account). The three about the
  setting and the bounds are for TLC.

`GrantsProofs` (for any `Roles`, `Orgs`, `Rows`, `Requests`):

* `TypeCorrect`, `FeedHolds`, `DefaultHolds`, from `TypeOK` with `GrantsInv`. A
  request that is alone is the only one of its scope (`AloneIsAlone`), so the grant
  is as it has read or left it (`AloneIsCurrent`); a settled scope has one grant, of
  the role told, and nobody is about to tell another (`SettledIsTold`). An update
  either has the service as it is or is `stale`.

`OneTimeTokensProofs` (for any finite `Tokens`, any `Requests`, `Addresses`,
`MaxAttempts` > 0):

* `TypeCorrect`, `SingleUse`, `CutOff`. Of a row that is not `disturbed` the
  invariant `Counted` says that one request at most holds it, that it has not been
  used for anything while it is held, that the wrong guesses compared with it are the
  ones its counter has, that a request about to write the counter has it as it is, and
  that a row with no attempts left is used, or about to be, or `unmarked`. Without
  it neither property is inductive: what a request in flight has in hand is as
  good as what is in the table.
* `ReverificationHolds`: from `AddressInv`. While a change of address is alone
  nothing can verify the account (`AloneIsQuiet`), and after it every token that is
  outstanding went to the address of now (`OutstandingIsCurrent`).

  Assumptions: `TokensAssumption` (the rows are finitely many, for they are
  numbered as they are issued), `NoTokenAssumption`, `MaxAttemptsAssumption`.

`AuditLogProofs` (for any finite `Emissions`, any `Payloads`, any `PageSize` > 0):

* `TypeCorrect`, `ChainHolds`, from `ChainInv`. Rows are dated in the order of
  writing (`ClockOrders`). Which emissions were in flight together is a symmetric
  relation (`BesideIsMutual`); what an emission has read is the newest of all the
  committed rows that it was not in flight with (`ReadIsNewest`), and it can be passed
  only by one that it was in flight with (`PassedOnlyBeside`), so nothing else slips
  in before a row that is linked.
* `VerifierHolds`: from `TraceInv`. While nobody touches a log whose rows were never
  in flight together (`Apart`) every row has its neighbours (`LogIsComplete`). A row that is removed from inside
  leaves one behind it that is chained to a longer sequence than the row before has, and
  an edited row no longer matches its hash (`Append` is injective, which is what
  taking SHA-256 as collision free amounts to); neither is ever mended
  (`TraceRemains`).
* `FeedHolds`: from `FeedInv`. The row of the cursor was delivered, and a row
  between the cursor and the last of a page is on the page (`PageIsDense`).
* `FeedIsNeverEmpty`, `FeedGetsOn`: what `FeedCatchesUp` needs besides fairness. While
  something is due the page is not empty (`FeedNeverStalls`; the oldest of the rows
  after the cursor is on it, `LeastTime`). A row that is due stays due until it is
  delivered or removed, every poll that does not deliver it shortens what is ahead
  of it, and only a commit of a row that was in flight together with it, or the
  removal of the row of the cursor, lengthens that (`FeedProgress`). Either happens
  finitely often.
* `Refinement`: every step of `AuditLog` is a step of `HashTree` or a stutter: the
  commit is `Extend`, an edit or a removal `Tamper`, everything else leaves the
  committed rows alone (`UnseenStep`).

  Assumptions: `EmissionsAssumption` (finite), `PayloadAssumption`,
  `NoCursorAssumption`, `PageSizeAssumption`.

`PortalClientProofs` (for any `Calls`, any of them `Switches`, any `MaxPairs`):

* `TypeCorrect`, `RefreshIsShared`: from `OneRefresh`.
* `SessionHolds`: from `SessionIsLive`. While the session is undisturbed what is
  stored, presented to be refreshed, or on its way is live. That needs `PairsAreOwn`
  (a pair on its way is nobody else's and not stored yet, so no refresh spends
  it) and `OneRefresh` (no second call presents the token that is being spent).
* `LogoutHolds`: after a logout() that raced nothing, nothing that could store
  tokens can start (`NobodyIsIn`).
* `WaitersHold`, `CallsGetOn`: what `CallsSettleOrStrand` needs besides fairness. A call
  that waits and is not stranded is among the subscribers of a refresh that is under
  way (`WaitersAreServed`), and every handler takes its call further through at most
  one 401, one refresh and one retry, while no step takes any call back
  (`CallProgress`, by `Stage`).

Only model-checked: the two liveness properties, `FeedCatchesUp` and
`CallsSettleOrStrand`. Fairness is stated with ENABLED, about which this prover
cannot reason. Their safety parts are the theorems just named, from which they follow
by an argument on paper: each fair step shortens a finite distance that only
finitely many other steps can lengthen. Every other property that a run expects to
hold is a theorem.

## What is left out

Expiry of sessions (it only removes behaviours), the two- or three-hundred lines of
schema validation and formatting, key management, mail delivery, the connection pool,
migrations, metrics, and everything that renders. Several organisations: only
`delete_user_data` touches more than one, and it treats them one after the other
in one transaction. Several accounts, but in `Organisations` and `Registration`: no other operation
modelled here touches two. Isolation other than READ COMMITTED with reads and
commits as separate steps: SQLite serialises the commits, which removes behaviours.
An account that is deleted while its sign-ins, grants and refreshes run: `Registration`
has deletion beside registration, changes of address, mail and linking, `Organisations`
beside the rows that refer to the account. The list of hazards in
`PROJECT.json` names those that no property covers yet.

## Plan

In this order, each step with its runs and mutants:

1. `SdkClient`: `packages/core/src/client.ts` in two tabs over one storage, with
   its timer, against the same server part as `PortalClient`.
2. `AuditedAction`: one handler composed with `AuditLog`, for the crash between
   the commit of an action and that of its event (`Grants` has it for `set_grant`).
3. The portal's store (`stores/auth.ts`) over `PortalClient`.
