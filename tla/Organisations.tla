---------------------------- MODULE Organisations ----------------------------
(***************************************************************************)
(* One organisation: its members and their roles (routes/orgs.py), the     *)
(* grants that refer to it, and what the deletion of a member's account    *)
(* does to it (routes/me.py, delete_user_data).                            *)
(*                                                                         *)
(* A handler reads the rows it decides by and writes in a later commit;    *)
(* nothing is locked in between.  An ORM session knows a row it has loaded *)
(* by its identity: a later query does not refresh it, an UPDATE of a row  *)
(* that is gone is an error, a DELETE of one is not.  The database is the  *)
(* PostgreSQL of docker-compose.yml with the tables of init_db: it refuses *)
(* a row that refers to nothing, and whoever deletes what is referred to.  *)
(***************************************************************************)
EXTENDS Naturals, FiniteSets

CONSTANTS
    Users,        \* accounts, registered at the beginning
    Requests,     \* worker slots
    NoUser

ASSUME NoUserAssumption == NoUser \notin Users

VARIABLES
    exists,     \* the row of orgs is there
    role,       \* memberships.role; "none": no row
    users,      \* accounts whose row is there
    granted,    \* users with a row of product_grants for this organisation
    linked,     \* users with a row of magic_link_tokens
    req         \* the requests in flight, with what each has read

rows == <<exists, role, users, granted, linked>>
vars == <<rows, req>>

-----------------------------------------------------------------------------

(* Any other string that AddMemberRequest lets pass acts as "member".       *)
Ranks == {"member", "admin", "owner"}
Roles == Ranks \union {"none"}
Manages(rank) == rank \in {"owner", "admin"}

Pcs == {"idle", "add", "adding", "remove", "removing", "delete",
        "load", "walk", "erase"}

(* user is the target, or whose account is deleted; rank the role asked     *)
(* for; seen the user's role if it was read; gone: those of user and heir   *)
(* whose membership was deleted after it was read.  Of a deletion of an     *)
(* account: holdsGrant tells whether a grant was found, heir and orphan     *)
(* what follows for the organisation.  alone is history: no other request   *)
(* was in flight at the same time.                                          *)
Request == [pc: Pcs, user: Users \union {NoUser},
            rank: Roles, seen: Roles, gone: SUBSET Users, holdsGrant: BOOLEAN,
            heir: Users \union {NoUser}, orphan: BOOLEAN, alone: BOOLEAN]

Idle == [pc |-> "idle", user |-> NoUser,
         rank |-> "none", seen |-> "none", gone |-> {}, holdsGrant |-> FALSE,
         heir |-> NoUser, orphan |-> FALSE, alone |-> TRUE]

TypeOK ==
    /\ exists \in BOOLEAN
    /\ role \in [Users -> Roles]
    /\ users \in SUBSET Users
    /\ granted \in SUBSET Users
    /\ linked \in SUBSET Users
    /\ req \in [Requests -> Request]

(* create_org, or the organisation that a registration creates: the creator *)
(* is its owner.                                                            *)
Init ==
    /\ exists = TRUE
    /\ \E creator \in Users :
          role = [u \in Users |-> IF u = creator THEN "owner" ELSE "none"]
    /\ users = Users
    /\ granted = {}
    /\ linked = {}
    /\ req = [r \in Requests |-> Idle]

Members == {u \in Users : role[u] # "none"}
Owners == {u \in Users : role[u] = "owner"}

Busy == {r \in Requests : req[r].pc # "idle"}

(* A request enters; none that is in flight is alone any longer. *)
Enter(r, q) ==
    /\ req[r].pc = "idle"
    /\ req' = [s \in Requests |->
                 CASE s = r      -> [q EXCEPT !.alone = Busy = {}]
                   [] s \in Busy -> [req[s] EXCEPT !.alone = FALSE]
                   [] OTHER      -> Idle]

Go(r, q) == req' = [req EXCEPT ![r] = q]
Finish(r) == req' = [req EXCEPT ![r] = Idle]

(* The members whose row the session of q holds. *)
Held(q) == ({q.heir} \ {NoUser}) \union (IF q.seen = "none" THEN {} ELSE {q.user})

(* A request ends by deleting the memberships of the users in lost. *)
FinishRemoving(r, lost) ==
    req' = [s \in Requests |->
              IF s = r \/ s \notin Busy THEN Idle
              ELSE [req[s] EXCEPT !.gone = @ \union (lost \intersect Held(req[s]))]]

(* A manager is at work, and its row is held; that matters later only if it *)
(* is the target's, too.                                                    *)
EnterManager(r, actor, q) ==
    /\ actor \in users
    /\ Manages(role[actor])
    /\ Enter(r, IF actor = q.user THEN [q EXCEPT !.seen = role[actor]] ELSE q)
    /\ UNCHANGED rows

(* The target's role as the session of q sees it after a query. *)
Reading(q) == IF q.seen # "none" /\ q.user \notin q.gone
              THEN q.seen ELSE role[q.user]

-----------------------------------------------------------------------------
(* add_member *)

BeginAdd(r, actor, target, rank) ==
    EnterManager(r, actor, [Idle EXCEPT !.pc = "add", !.user = target,
                                        !.rank = rank])

LookAdd(r) ==
    LET q == req[r] IN
    /\ q.pc = "add"
    /\ IF q.user \in users
       THEN Go(r, [q EXCEPT !.pc = "adding", !.seen = Reading(q), !.gone = {}])
       ELSE Finish(r)
    /\ UNCHANGED rows

(* Mutant of CommitAdd: INSERT or UPDATE, whichever fits. *)
CommitAddUpsert(r) ==
    LET q == req[r] IN
    /\ q.pc = "adding"
    /\ role' = IF exists /\ q.user \in users
               THEN [role EXCEPT ![q.user] = q.rank] ELSE role
    /\ Finish(r)
    /\ UNCHANGED <<exists, users, granted, linked>>

(* An INSERT if there was no membership, else an UPDATE if the role differs *)
(* from the one read.                                                       *)
CommitAdd(r) ==
    LET q == req[r]  t == q.user
        inserts == q.seen = "none" /\ exists /\ t \in users /\ role[t] = "none"
        updates == q.seen \notin {"none", q.rank} /\ t \notin q.gone
    IN
    /\ q.pc = "adding"
    /\ role' = IF inserts \/ updates THEN [role EXCEPT ![t] = q.rank] ELSE role
    /\ Finish(r)
    /\ UNCHANGED <<exists, users, granted, linked>>

-----------------------------------------------------------------------------
(* remove_member *)

BeginRemove(r, actor, target) ==
    EnterManager(r, actor, [Idle EXCEPT !.pc = "remove", !.user = target])

(* Mutant of LookRemove: the owners are not counted. *)
LookRemoveUncounted(r) ==
    LET q == req[r] IN
    /\ q.pc = "remove"
    /\ IF role[q.user] # "none"
       THEN Go(r, [q EXCEPT !.pc = "removing", !.seen = Reading(q), !.gone = {}])
       ELSE Finish(r)
    /\ UNCHANGED rows

(* 404 if it is no member; the last owner is not removed. *)
LookRemove(r) ==
    LET q == req[r] IN
    /\ q.pc = "remove"
    /\ IF role[q.user] # "none"
          /\ (Reading(q) = "owner" => Cardinality(Owners) > 1)
       THEN Go(r, [q EXCEPT !.pc = "removing", !.seen = Reading(q), !.gone = {}])
       ELSE Finish(r)
    /\ UNCHANGED rows

(* Mutant of CommitRemove: the row stays, marked. *)
CommitRemoveSoft(r) ==
    LET q == req[r] IN
    /\ q.pc = "removing"
    /\ role' = [role EXCEPT ![q.user] = "removed"]
    /\ Finish(r)
    /\ UNCHANGED <<exists, users, granted, linked>>

CommitRemove(r) ==
    LET q == req[r]
        lost == {q.user} \ q.gone
    IN
    /\ q.pc = "removing"
    /\ role' = [u \in Users |-> IF u \in lost THEN "none" ELSE role[u]]
    /\ FinishRemoving(r, lost)
    /\ UNCHANGED <<exists, users, granted, linked>>

-----------------------------------------------------------------------------
(* delete_org *)

BeginDelete(r, actor) ==
    /\ actor \in users
    /\ role[actor] = "owner"
    /\ Enter(r, [Idle EXCEPT !.pc = "delete"])
    /\ UNCHANGED rows

(* All memberships go, and the organisation; a grant that refers to it is a *)
(* violated constraint.                                                     *)
CommitDelete(r) ==
    /\ req[r].pc = "delete"
    /\ IF granted = {}
       THEN /\ exists' = FALSE
            /\ role' = [u \in Users |-> "none"]
            /\ FinishRemoving(r, Members)
       ELSE Finish(r) /\ UNCHANGED <<exists, role>>
    /\ UNCHANGED <<users, granted, linked>>

-----------------------------------------------------------------------------
(* delete_my_account *)

(* The event user.delete is committed first (AuditLog). *)
Announce(r, actor) ==
    /\ actor \in users
    /\ Enter(r, [Idle EXCEPT !.pc = "load", !.user = actor])
    /\ UNCHANGED rows

(* Mutant of Load: the grants are forgotten. *)
LoadGrantless(r) ==
    LET q == req[r] IN
    /\ q.pc = "load"
    /\ IF q.user \in users
       THEN Go(r, [q EXCEPT !.pc = IF q.user \in Members THEN "walk" ELSE "erase",
                            !.seen = role[q.user]])
       ELSE Finish(r)
    /\ UNCHANGED rows

(* The user is read again, the grants, the memberships. *)
Load(r) ==
    LET q == req[r] IN
    /\ q.pc = "load"
    /\ IF q.user \in users
       THEN Go(r, [q EXCEPT !.pc = IF q.user \in Members THEN "walk" ELSE "erase",
                            !.seen = role[q.user],
                            !.holdsGrant = q.user \in granted])
       ELSE Finish(r)
    /\ UNCHANGED rows

(* Mutant of Walk: nobody succeeds. *)
WalkHeirless(r) ==
    LET q == req[r]  remaining == Members \ {q.user} IN
    /\ q.pc = "walk"
    /\ Go(r, [q EXCEPT !.pc = "erase", !.orphan = remaining = {}])
    /\ UNCHANGED rows

(* Who remains: nobody, and the organisation goes; or no owner, and the     *)
(* first becomes one.                                                       *)
Walk(r) ==
    LET q == req[r]  remaining == Members \ {q.user} IN
    /\ q.pc = "walk"
    /\ \/ /\ remaining = {}
          /\ Go(r, [q EXCEPT !.pc = "erase", !.orphan = TRUE])
       \/ /\ remaining # {} /\ Owners \ {q.user} = {}
          /\ \E heir \in remaining :
                Go(r, [q EXCEPT !.pc = "erase", !.heir = heir])
       \/ /\ Owners \ {q.user} # {}
          /\ Go(r, [q EXCEPT !.pc = "erase"])
    /\ UNCHANGED rows

(* No row that delete_user_data leaves refers to one that it deletes, and   *)
(* the heir's is still there.                                               *)
Consistent(q) ==
    /\ q.user \notin linked
    /\ q.user \in Members => q.seen # "none" /\ q.user \notin q.gone
    /\ q.user \in granted => q.holdsGrant
    /\ q.heir # NoUser => q.heir \notin q.gone
    /\ q.orphan => Members \union granted \subseteq {q.user}

Erased(q) == [u \in Users |-> CASE u = q.user -> "none"
                                [] u = q.heir  -> "owner"
                                [] OTHER       -> role[u]]

(* Mutant of Erase: an organisation that goes takes its memberships along.  *)
EraseBulk(r) ==
    LET q == req[r] IN
    /\ q.pc = "erase"
    /\ role' = IF q.orphan THEN [u \in Users |-> "none"] ELSE Erased(q)
    /\ exists' = (exists /\ ~q.orphan)
    /\ users' = users \ {q.user}
    /\ granted' = granted \ {q.user}
    /\ FinishRemoving(r, IF q.orphan THEN Members ELSE {q.user})
    /\ UNCHANGED linked

(* The transaction is committed, or rolled back. *)
Erase(r) ==
    LET q == req[r] IN
    /\ q.pc = "erase"
    /\ IF Consistent(q)
       THEN /\ role' = Erased(q)
            /\ exists' = (exists /\ ~q.orphan)
            /\ users' = users \ {q.user}
            /\ granted' = granted \ {q.user}
            /\ FinishRemoving(r, {q.user})
       ELSE Finish(r) /\ UNCHANGED <<role, exists, users, granted>>
    /\ UNCHANGED linked

-----------------------------------------------------------------------------
(* Other writes of the rows that refer to users and organisation. *)

(* set_grant *)
SetGrant(u) ==
    /\ exists
    /\ u \in users
    /\ granted' = granted \union {u}
    /\ req' = [r \in Requests |->
                 IF r \in Busy THEN [req[r] EXCEPT !.alone = FALSE] ELSE req[r]]
    /\ UNCHANGED <<exists, role, users, linked>>

(* create_magic_link_token; no code deletes the row. *)
SendMagicLink(u) ==
    /\ u \in users
    /\ linked' = linked \union {u}
    /\ UNCHANGED <<exists, role, users, granted, req>>

(* A worker dies, or a request fails, before its commit. *)
Crash(r) ==
    /\ r \in Busy
    /\ Finish(r)
    /\ UNCHANGED rows

Next ==
    \/ \E u \in Users : SetGrant(u) \/ SendMagicLink(u)
    \/ \E r \in Requests :
          \/ \E a, t \in Users : BeginRemove(r, a, t)
                                 \/ \E rank \in Ranks : BeginAdd(r, a, t, rank)
          \/ \E a \in Users : BeginDelete(r, a) \/ Announce(r, a)
          \/ LookAdd(r) \/ CommitAdd(r)
          \/ LookRemove(r) \/ CommitRemove(r)
          \/ CommitDelete(r)
          \/ Load(r) \/ Walk(r) \/ Erase(r)
          \/ Crash(r)

Spec == Init /\ [][Next]_vars

-----------------------------------------------------------------------------
(* Properties. *)

Ends(r) == r \in Busy /\ req'[r].pc = "idle"

(* orgs.py: "Cannot remove the last owner".  An organisation that has an    *)
(* owner loses the last only when a manager gives that owner another role,  *)
(* or to a request that overlapped another one.  With that it is not left   *)
(* without members either.                                                  *)
LastOwnerStays ==
    [][exists' /\ Owners # {} /\ Owners' = {} =>
          \E r \in Requests :
             Ends(r) /\ (req[r].pc = "adding" \/ ~req[r].alone)]_vars

(* Nobody's organisation goes with the account of somebody else: it goes    *)
(* when an owner asked for it, or with the account of its only member.      *)
NobodyIsDispossessed ==
    [][exists /\ ~exists' =>
          \/ \E r \in Requests : Ends(r) /\ req[r].pc = "delete"
          \/ \E u \in Users \ users' : Members \subseteq {u}]_vars

(* A membership that was removed does not come back by an update that was   *)
(* under way: whoever joins is put in by a request that found no membership.*)
RemovalSticks ==
    [][\A u \in Users : role[u] = "none" /\ role'[u] # "none" =>
          \E r \in Requests :
             /\ Ends(r)
             /\ req[r].pc = "adding" /\ req[r].user = u /\ req[r].seen = "none"]_vars

(* A deletion that overlaps no other request fails for two reasons only: a  *)
(* sign-in link was once sent to the account, or it is alone in an          *)
(* organisation to which the grant of another account refers.               *)
RefusedForCause ==
    [][\A r \in Requests :
          Erase(r) /\ req[r].alone /\ users' = users =>
             \/ req[r].user \in linked
             \/ Members = {req[r].user} /\ granted \ {req[r].user} # {}]_vars
=============================================================================
