----------------------------- MODULE Registration -----------------------------
(***************************************************************************)
(* How accounts come to be and go: registration with a password, sign-in   *)
(* through an OAuth provider, the addresses both go by, and the deletion   *)
(* of an account by its user (routes/auth.py, routes/oauth.py,             *)
(* routes/me.py, services.py).                                             *)
(*                                                                         *)
(* A handler reads, decides, and commits later.  What holds at the commit  *)
(* are the unique keys of models.py: users.email, and provider with        *)
(* provider_subject in identities, where the subject of a password is the  *)
(* address it was registered with; and the foreign keys, on PostgreSQL: a  *)
(* row of a user who is gone is refused, and whoever deletes a user that   *)
(* rows refer to.  A violated key is a rollback and an error 500.          *)
(***************************************************************************)
EXTENDS Naturals, FiniteSets

CONSTANTS
    Users,       \* identities of users rows, free again when unheld
    Addresses,
    Subjects,    \* accounts at the OAuth providers
    States,      \* identities of oauth_states rows, free again when unheld
    Requests,    \* worker slots
    NoUser, NoAddress, NoSubject, NoState,
    open_registration,  \* the setting
    MaxMails,    \* bound: no change begins with so many mails of the user out
    MaxLinks     \* bound: so many of the users ask for a magic link, once

ASSUME NoUserAssumption == NoUser \notin Users
ASSUME NoAddressAssumption == NoAddress \notin Addresses
ASSUME KeysAssumption == Addresses \intersect Subjects = {}
ASSUME SettingAssumption == open_registration \in BOOLEAN
ASSUME MaxMailsAssumption == MaxMails \in Nat
ASSUME MaxLinksAssumption == MaxLinks \in Nat

VARIABLES
    user,        \* the users table
    identity,    \* the identities table, by its unique key
    mailed,      \* email_verification_tokens out, neither used nor expired:
                 \* how many, by user and the address that the mail went to
    links,       \* magic_link_tokens out: the addresses, by user
    states,      \* the oauth_states table
    req,         \* the requests in flight, with what each has read
    standing,    \* history: whether a user was shown to receive mail at the
                 \* address of now
    lapsed,      \* history: unverified users whose last verification mail
                 \* died with a worker or could not be sent, or has expired
    bereft       \* history: there is no administrator, if there is none,
                 \* because the last one left behind an account or a
                 \* registration, or because an account came by OAuth first

tables == <<user, identity, mailed, links, states>>
history == <<standing, lapsed, bereft>>
vars == <<tables, req, history>>

-----------------------------------------------------------------------------

Emails == Addresses \union {NoAddress}
Keys == Addresses \union Subjects

(* email is NoAddress as long as there is no such row; asked: rows of       *)
(* magic_link_tokens refer to it, used or not.  alone is history: of an     *)
(* administrator, whether the registration overlapped no other request.     *)
User == [email: Emails, verified: BOOLEAN, admin: BOOLEAN, asked: BOOLEAN,
         alone: BOOLEAN]

NoRow == [email |-> NoAddress, verified |-> FALSE, admin |-> FALSE,
          asked |-> FALSE, alone |-> FALSE]

Pcs == {"idle", "look", "create", "mail", "consume", "exchange", "find",
        "link", "join", "change"}

(* carried: not shown, but verified_at stands for it, having been set by    *)
(* mail to another address, or while the address was being changed.         *)
Standings == {"none", "proved", "carried"}

(* address, subject, state: what the request is about; user: the row it has *)
(* found or inserted; first: it counted no users; held, was: the user's     *)
(* address and verified_at as loaded.  The rest is history: how the account *)
(* found by OAuth stood, and a registration beside which no other request   *)
(* was in flight.                                                           *)
Request == [pc: Pcs, address: Emails, subject: Subjects \union {NoSubject},
            state: States \union {NoState}, user: Users \union {NoUser},
            first: BOOLEAN, held: Emails, was: BOOLEAN, stood: Standings,
            alone: BOOLEAN]

Idle == [pc |-> "idle", address |-> NoAddress, subject |-> NoSubject,
         state |-> NoState, user |-> NoUser, first |-> FALSE,
         held |-> NoAddress, was |-> FALSE, stood |-> "none",
         alone |-> TRUE]

TypeOK ==
    /\ user \in [Users -> User]
    /\ identity \in [Keys -> Users \union {NoUser}]
    /\ mailed \in [Users -> [Addresses -> Nat]]
    /\ links \in [Users -> SUBSET Addresses]
    /\ states \in SUBSET States
    /\ req \in [Requests -> Request]
    /\ standing \in [Users -> Standings]
    /\ lapsed \in SUBSET Users
    /\ bereft \in BOOLEAN

(* A fresh deployment. *)
Init ==
    /\ user = [u \in Users |-> NoRow]
    /\ identity = [k \in Keys |-> NoUser]
    /\ mailed = [u \in Users |-> [a \in Addresses |-> 0]]
    /\ links = [u \in Users |-> {}]
    /\ states = {}
    /\ req = [r \in Requests |-> Idle]
    /\ standing = [u \in Users |-> "none"]
    /\ lapsed = {}
    /\ bereft = FALSE

Made == {u \in Users : user[u].email # NoAddress}
Holders(a) == {u \in Users : user[u].email = a}
NoAdmin == \A u \in Made : ~user[u].admin

(* Nothing is out any more that could verify the address of u. *)
Lapse(u) ==
    lapsed' = IF \/ u \notin Made \/ user[u].verified
                 \/ \E a \in Addresses : mailed'[u][a] > 0
              THEN lapsed ELSE lapsed \union {u}

Busy == {r \in Requests : req[r].pc # "idle"}
Registering(r) == req[r].pc \in {"look", "create"}

(* A request enters; none that is in flight is alone any longer. *)
Enter(r, q) ==
    /\ req[r].pc = "idle"
    /\ req' = [s \in Requests |->
                 CASE s = r ->
                        [q EXCEPT !.alone = q.pc = "look" /\ Busy = {}]
                   [] s \in Busy -> [req[s] EXCEPT !.alone = FALSE]
                   [] OTHER -> Idle]

Go(r, q) == req' = [req EXCEPT ![r] = q]
Finish(r) == req' = [req EXCEPT ![r] = Idle]

(* It remains to create a verification token. *)
GoMail(r, u) == Go(r, [Idle EXCEPT !.pc = "mail", !.user = u, !.alone = FALSE])

-----------------------------------------------------------------------------
(* register *)

(* Mutant of BeginRegister: a registration counts as the first until there  *)
(* is an administrator.                                                     *)
BeginRegisterUnruled(r, a) ==
    LET first == \A u \in Made : ~user[u].admin \/ ~user[u].verified IN
    /\ open_registration \/ first
    /\ Enter(r, [Idle EXCEPT !.pc = "look", !.address = a, !.first = first])
    /\ UNCHANGED <<tables, history>>

(* The users are counted.  Unless registration is open only the first gets  *)
(* in, with the bootstrap token, which it is taken to present.              *)
BeginRegister(r, a) ==
    LET first == Made = {} IN
    /\ open_registration \/ first
    /\ Enter(r, [Idle EXCEPT !.pc = "look", !.address = a, !.first = first])
    /\ UNCHANGED <<tables, history>>

(* Mutant of LookAddress: whether the address is taken is not asked. *)
LookNowhere(r) ==
    LET q == req[r] IN
    /\ q.pc = "look"
    /\ Go(r, [q EXCEPT !.pc = "create"])
    /\ UNCHANGED <<tables, history>>

(* 409 if the address is taken. *)
LookAddress(r) ==
    LET q == req[r] IN
    /\ q.pc = "look"
    /\ IF Holders(q.address) = {} THEN Go(r, [q EXCEPT !.pc = "create"])
                                  ELSE Finish(r)
    /\ UNCHANGED <<tables, history>>

(* The rows of a new account, under the key k of identities. *)
Insert(u, k, row) ==
    /\ u \notin Made
    /\ \A r \in Requests : req[r].user # u
    /\ user' = [user EXCEPT ![u] = row]
    /\ identity' = [identity EXCEPT ![k] = u]

Conflicts(q, k) == Holders(q.address) # {} \/ identity[k] # NoUser

(* Mutant of CreateUser: nobody is made administrator. *)
CreateSubject(r) ==
    LET q == req[r] IN
    /\ q.pc = "create"
    /\ IF Conflicts(q, q.address)
       THEN Finish(r) /\ UNCHANGED <<user, identity>>
       ELSE \E u \in Users :
               /\ Insert(u, q.address,
                         [NoRow EXCEPT !.email = q.address])
               /\ GoMail(r, u)
    /\ UNCHANGED <<mailed, links, states, history>>

(* create_user_with_password, with organisation and grants: one commit. *)
CreateUser(r) ==
    LET q == req[r] IN
    /\ q.pc = "create"
    /\ IF Conflicts(q, q.address)
       THEN Finish(r) /\ UNCHANGED <<user, identity, bereft>>
       ELSE \E u \in Users :
               /\ Insert(u, q.address,
                         [NoRow EXCEPT !.email = q.address, !.admin = q.first,
                                       !.alone = q.first /\ q.alone])
               /\ bereft' = (bereft /\ ~q.first)
               /\ GoMail(r, u)
    /\ UNCHANGED <<mailed, links, states, standing, lapsed>>

(* create_verification_token, another commit, after which the address is    *)
(* read again for the mail; send_mail may fail, and then nobody knows the   *)
(* token.  If the account was deleted the commit fails.                     *)
(* The tokens that register may return are those of Sessions.               *)
MailToken(r) ==
    LET u == req[r].user IN
    /\ req[r].pc = "mail"
    /\ \/ /\ u \in Made
          /\ mailed' = [mailed EXCEPT ![u][user[u].email] = @ + 1]
          /\ lapsed' = lapsed \ {u}
       \/ UNCHANGED mailed /\ Lapse(u)
    /\ Finish(r)
    /\ UNCHANGED <<user, identity, links, states, standing, bereft>>

-----------------------------------------------------------------------------
(* Addresses: proved, and changed. *)

(* Mail to a has come back from u: email_verified_at is set, whatever the   *)
(* address is by now.                                                       *)
Proves(u, a) ==
    /\ user' = [user EXCEPT ![u].verified = TRUE]
    /\ standing' = [standing EXCEPT
                      ![u] = IF a = user[u].email THEN "proved"
                             ELSE IF user[u].verified THEN @ ELSE "carried"]
    /\ lapsed' = lapsed \ {u}

(* Mutant of Verify: a token that was used is as good as one that was not.  *)
VerifyTwice(u, a) ==
    /\ u \in Made
    /\ mailed' = [mailed EXCEPT ![u][a] = @ - 1]
    /\ Proves(u, a)
    /\ UNCHANGED <<identity, links, states, req, bereft>>

(* verify_email_token: the token does not say which address it went to. *)
Verify(u, a) ==
    /\ u \in Made
    /\ mailed[u][a] > 0
    /\ mailed' = [mailed EXCEPT ![u][a] = @ - 1]
    /\ Proves(u, a)
    /\ UNCHANGED <<identity, links, states, req, bereft>>

(* After 24 hours it is not taken any more. *)
ExpireToken(u, a) ==
    /\ mailed[u][a] > 0
    /\ mailed' = [mailed EXCEPT ![u][a] = @ - 1]
    /\ Lapse(u)
    /\ UNCHANGED <<user, identity, links, states, req, standing, bereft>>

(* create_magic_link_token, which mails a link and a passcode. *)
AskLink(u) ==
    /\ u \in Made /\ ~user[u].asked
    /\ Cardinality({v \in Users : user[v].asked}) < MaxLinks
    /\ links' = [links EXCEPT ![u] = @ \union {user[u].email}]
    /\ user' = [user EXCEPT ![u].asked = TRUE]
    /\ UNCHANGED <<identity, mailed, states, req, history>>

(* consume_magic_link_token, consume_otp_code: neither do these say where   *)
(* they went.                                                               *)
SignInByMail(u, a) ==
    /\ u \in Made
    /\ a \in links[u]
    /\ links' = [links EXCEPT ![u] = @ \ {a}]
    /\ Proves(u, a)
    /\ UNCHANGED <<identity, mailed, states, req, bereft>>

(* It expires, or the code was guessed at too often. *)
ExpireLink(u, a) ==
    /\ a \in links[u]
    /\ links' = [links EXCEPT ![u] = @ \ {a}]
    /\ UNCHANGED <<user, identity, mailed, states, req, history>>

(* update_profile: the user is loaded, the address is not somebody else's.  *)
BeginChange(r, u, a) ==
    /\ u \in Made
    /\ \A b \in Addresses : mailed[u][b] < MaxMails
    /\ Holders(a) \subseteq {u}
    /\ Enter(r, [Idle EXCEPT !.pc = "change", !.user = u, !.address = a,
                             !.held = user[u].email, !.was = user[u].verified])
    /\ UNCHANGED <<tables, history>>

(* Mutants of Change: the flag stays; nobody is mailed. *)
ChangeTrusting(r) ==
    LET q == req[r]  u == q.user IN
    /\ q.pc = "change"
    /\ IF u \notin Made \/ Holders(q.address) \ {u} # {}
       THEN UNCHANGED <<user, standing>>
       ELSE /\ user' = [user EXCEPT ![u].email = q.address]
            /\ standing' = IF q.address # user[u].email
                           THEN [standing EXCEPT ![u] = "none"] ELSE standing
    /\ Finish(r)
    /\ UNCHANGED <<identity, mailed, links, states, lapsed, bereft>>

ChangeSilent(r) ==
    LET q == req[r]  u == q.user IN
    /\ q.pc = "change"
    /\ IF u \notin Made \/ Holders(q.address) \ {u} # {}
       THEN UNCHANGED <<user, standing>>
       ELSE /\ user' = [user EXCEPT ![u].email = q.address,
                                    ![u].verified = FALSE]
            /\ standing' = [standing EXCEPT ![u] = "none"]
    /\ Finish(r)
    /\ UNCHANGED <<identity, mailed, links, states, lapsed, bereft>>

(* ... the columns that differ from those loaded are committed, the row is  *)
(* read again, and a mail goes to its address if that is another one now.   *)
(* An account that is gone is an error.                                     *)
Change(r) ==
    LET q == req[r]
        u == q.user
        moves == q.address # q.held
        stays == user[u].verified /\ ~q.was
    IN
    /\ q.pc = "change"
    /\ IF u \notin Made \/ (moves /\ Holders(q.address) \ {u} # {})
       THEN Finish(r) /\ UNCHANGED <<user, standing>>
       ELSE /\ user' = IF moves
                       THEN [user EXCEPT ![u] =
                               [@ EXCEPT !.email = q.address,
                                         !.verified = stays]]
                       ELSE user
            /\ standing' = IF moves /\ q.address # user[u].email
                           THEN [standing EXCEPT
                                   ![u] = IF stays THEN "carried" ELSE "none"]
                           ELSE standing
            /\ IF user'[u].email # q.held THEN GoMail(r, u) ELSE Finish(r)
    /\ UNCHANGED <<identity, mailed, links, states, lapsed, bereft>>

-----------------------------------------------------------------------------
(* delete_my_account *)

(* delete_user_data: the account goes, with its identities and its tokens   *)
(* but not with its magic links, whose rows refer to it.  One that gets a   *)
(* row in between stays.                                                    *)
Delete(u) ==
    LET others == Made \ {u} IN
    /\ u \in Made /\ ~user[u].asked
    /\ user' = [user EXCEPT ![u] = NoRow]
    /\ bereft' = /\ others # {} \/ \E r \in Requests : Registering(r)
                 /\ \/ bereft
                    \/ user[u].admin /\ \A v \in others : ~user[v].admin
    /\ identity' = [k \in Keys |->
                      IF identity[k] = u THEN NoUser ELSE identity[k]]
    /\ mailed' = [mailed EXCEPT ![u] = [a \in Addresses |-> 0]]
    /\ standing' = [standing EXCEPT ![u] = "none"]
    /\ lapsed' = lapsed \ {u}
    /\ UNCHANGED <<links, states, req>>

-----------------------------------------------------------------------------
(* OAuth: google_start, google_callback and their like for GitHub. *)

(* _store_state; then those older than oauth_state_ttl_seconds are purged,  *)
(* or that fails: any that were there may go.                               *)
StartOAuth(st) ==
    /\ st \notin states
    /\ \A r \in Requests : req[r].state # st
    /\ \E stale \in SUBSET states : states' = (states \ stale) \union {st}
    /\ UNCHANGED <<user, identity, mailed, links, req, history>>

(* The same of a sign-in whose row is not followed: none comes back with it. *)
StartAndForget ==
    /\ \E stale \in SUBSET states : states' = states \ stale
    /\ UNCHANGED <<user, identity, mailed, links, req, history>>

(* _consume_state: the row is read, whatever its age. *)
BeginCallback(r, st) ==
    /\ st \in states
    /\ Enter(r, [Idle EXCEPT !.pc = "consume", !.state = st])
    /\ UNCHANGED <<tables, history>>

(* ... and deleted; to delete it once more is no error. *)
ConsumeState(r) ==
    LET q == req[r] IN
    /\ q.pc = "consume"
    /\ states' = states \ {q.state}
    /\ Go(r, [q EXCEPT !.pc = "exchange", !.state = NoState])
    /\ UNCHANGED <<user, identity, mailed, links, history>>

(* The provider names account and address.  Whoever has an identity here    *)
(* is signed in as its user.                                                *)
Exchange(r, s, a) ==
    LET q == req[r] IN
    /\ q.pc = "exchange"
    /\ IF identity[s] # NoUser
       THEN Finish(r)
       ELSE Go(r, [q EXCEPT !.pc = "find", !.subject = s, !.address = a])
    /\ UNCHANGED <<tables, history>>

(* Mutant of FindAddress: the address need not be verified. *)
FindAnybody(r) ==
    LET q == req[r] IN
    /\ q.pc = "find"
    /\ \/ Holders(q.address) = {} /\ Go(r, [q EXCEPT !.pc = "join"])
       \/ \E u \in Holders(q.address) :
             Go(r, [q EXCEPT !.pc = "link", !.user = u, !.stood = standing[u]])
    /\ UNCHANGED <<tables, history>>

(* find_or_create_oauth_user: an account at the address is joined if the    *)
(* address is verified, else that is an error.                              *)
FindAddress(r) ==
    LET q == req[r] IN
    /\ q.pc = "find"
    /\ \/ Holders(q.address) = {} /\ Go(r, [q EXCEPT !.pc = "join"])
       \/ \E u \in Holders(q.address) :
             IF user[u].verified
             THEN Go(r, [q EXCEPT !.pc = "link", !.user = u,
                                  !.stood = standing[u]])
             ELSE Finish(r)
    /\ UNCHANGED <<tables, history>>

(* ... if it is still there. *)
Link(r) ==
    LET q == req[r] IN
    /\ q.pc = "link"
    /\ IF q.user \in Made /\ identity[q.subject] = NoUser
       THEN identity' = [identity EXCEPT ![q.subject] = q.user]
       ELSE UNCHANGED identity
    /\ Finish(r)
    /\ UNCHANGED <<user, mailed, links, states, history>>

(* A new account, verified, never an administrator. *)
Join(r) ==
    LET q == req[r] IN
    /\ q.pc = "join"
    /\ IF Conflicts(q, q.subject)
       THEN UNCHANGED <<user, identity, standing, bereft>>
       ELSE \E u \in Users :
               /\ Insert(u, q.subject,
                         [NoRow EXCEPT !.email = q.address,
                                       !.verified = TRUE])
               /\ standing' = [standing EXCEPT ![u] = "proved"]
               /\ bereft' = (bereft \/ NoAdmin)
    /\ Finish(r)
    /\ UNCHANGED <<mailed, links, states, lapsed>>

-----------------------------------------------------------------------------

(* A worker dies, or the exchange with the provider fails. *)
Crash(r) ==
    /\ r \in Busy
    /\ Finish(r)
    /\ UNCHANGED <<tables, standing, bereft>>
    /\ IF req[r].pc = "mail" THEN Lapse(req[r].user) ELSE UNCHANGED lapsed

Next ==
    \/ \E r \in Requests :
          \/ \E a \in Addresses : BeginRegister(r, a)
                                  \/ \E u \in Users : BeginChange(r, u, a)
                                  \/ \E s \in Subjects : Exchange(r, s, a)
          \/ LookAddress(r) \/ CreateUser(r) \/ MailToken(r) \/ Change(r)
          \/ \E st \in States : BeginCallback(r, st)
          \/ ConsumeState(r) \/ FindAddress(r) \/ Link(r) \/ Join(r)
          \/ Crash(r)
    \/ \E u \in Users :
          \/ \E a \in Addresses : \/ Verify(u, a) \/ ExpireToken(u, a)
                                  \/ SignInByMail(u, a) \/ ExpireLink(u, a)
          \/ AskLink(u) \/ Delete(u)
    \/ StartAndForget \/ \E st \in States : StartOAuth(st)

Spec == Init /\ [][Next]_vars

-----------------------------------------------------------------------------
(* Properties. *)

(* user_onboarding.md: the first to register becomes the administrator of   *)
(* the platform.  As soon as there are accounts there is one, unless one    *)
(* came by OAuth before there was, or the last left by deleting the account *)
(* while there were others, or while a registration had counted it.  There  *)
(* is a second one only if two registrations overlapped.                    *)
FirstIsAdmin ==
    LET admins == {u \in Made : user[u].admin} IN
    /\ Made # {} /\ ~bereft => admins # {}
    /\ \A u, v \in admins : u # v => ~user[u].alone /\ ~user[v].alone

(* user_onboarding.md, "Social Account Linking Rules": an OAuth account     *)
(* comes only into a new account of its address, or into one that had this  *)
(* address when it was found and had proved it since it has it.  Or else    *)
(* verified_at was carried over to the address: by a token, a link or a     *)
(* passcode mailed to another one, or by a verification in the middle of    *)
(* the change.                                                              *)
JoinsProvedAccount ==
    [][\A s \in Subjects :
          LET u == identity'[s] IN
          u \notin {identity[s], NoUser} =>
             \E r \in Requests :
                /\ req[r].subject = s /\ req'[r].pc = "idle"
                /\ \/ u \notin Made /\ user'[u].email = req[r].address
                   \/ u = req[r].user /\ req[r].stood # "none"]_vars

(* A registration that overlaps no other request and finds its address free *)
(* succeeds, unless somebody once registered with the address and has       *)
(* another one since: the password identity keeps the old one.              *)
RefusedForCause ==
    [][\A r \in Requests :
          req[r].pc = "create" /\ req[r].alone /\ CreateUser(r)
             /\ req'[r].pc = "idle" =>
             \E u \in Made : /\ identity[req[r].address] = u
                             /\ user[u].email # req[r].address]_vars

(* An account whose address waits for its verification has a token out that *)
(* can still be used, or is about to, unless the last one that was mailed   *)
(* has expired or was lost: with a worker that died between the commits, or *)
(* because the mail could not be sent.                                      *)
UnverifiedIsCovered ==
    \A u \in Made :
        user[u].verified \/ u \in lapsed
          \/ (\E a \in Addresses : mailed[u][a] > 0)
          \/ (\E r \in Requests : req[r].pc = "mail" /\ req[r].user = u)

-----------------------------------------------------------------------------
(* The strengthening that makes them inductive. *)

(* What a request has loaded is still so, if the account is still there. *)
Sound(r) ==
    LET q == req[r] IN
    /\ q.pc \in {"look", "create", "find", "link", "join", "change"}
         => q.address \in Addresses
    /\ q.pc \in {"find", "link", "join"} => q.subject \in Subjects
    /\ q.pc \in {"mail", "link", "change"} => q.user \in Users
    /\ q.pc = "link" => q.stood # "none"
    /\ q.first => Registering(r)

LoadedIsSound == \A r \in Requests : Sound(r)

(* A registration that is alone is, and if it is the first nobody has come  *)
(* before it since.                                                         *)
AloneIsAlone ==
    \A r \in Requests :
        Registering(r) /\ req[r].alone =>
          /\ \A s \in Busy : s = r
          /\ req[r].first => Made = {}

(* Nobody is the first beside an administrator who was. *)
AloneIsFirst ==
    \A u \in Made :
        user[u].alone => user[u].admin /\ \A r \in Requests : ~req[r].first

(* Without an administrator, and not bereft of one, there is nobody and     *)
(* nobody was counted.                                                      *)
NobodyBeforeTheFirst ==
    NoAdmin /\ ~bereft =>
        Made = {} /\ \A r \in Requests : Registering(r) => req[r].first

VerifiedIsProved ==
    \A u \in Made : user[u].verified => standing[u] # "none"

BootstrapInv ==
    /\ LoadedIsSound /\ AloneIsAlone /\ AloneIsFirst /\ NobodyBeforeTheFirst
    /\ VerifiedIsProved /\ FirstIsAdmin /\ UnverifiedIsCovered

(* An identity has a user, and to a registration that is alone the address  *)
(* it has found free is free.                                               *)
KeysAreMade == \A k \in Keys : identity[k] # NoUser => identity[k] \in Made

FreeIfAlone ==
    \A r \in Requests :
        req[r].pc = "create" /\ req[r].alone => Holders(req[r].address) = {}

RefusalInv == KeysAreMade /\ FreeIfAlone
=============================================================================
