-------------------------------- MODULE Grants --------------------------------
(***************************************************************************)
(* The product grants of one user for one service, and the entry of that   *)
(* service in the registry (routes/admin.py, services.py).                 *)
(*                                                                         *)
(* A grant is platform-wide, its org_id NULL, or for one organisation; the *)
(* unique key of product_grants tells NULLs apart, so that it does not     *)
(* bind the former.  set_grant commits the grant and then the audit event, *)
(* from which the services that follow the reconciliation feed take the    *)
(* user's role.  The deletion of grants is part of Organisations.          *)
(***************************************************************************)
EXTENDS Naturals, FiniteSets

CONSTANTS
    Roles,
    Standard,    \* the roles of a service that is not registered
    Orgs,        \* organisations the user is a member of
    Wide,        \* the scope of a grant with no org_id
    Rows,        \* identities of product_grants rows
    Requests,    \* worker slots
    NoRole, NoScope, NoRow, NoService

ASSUME StandardAssumption == Standard \subseteq Roles
ASSUME WideAssumption == Wide \notin Orgs
ASSUME NoRoleAssumption == NoRole \notin Roles
ASSUME NoScopeAssumption == NoScope \notin Orgs \union {Wide}
ASSUME NoRowAssumption == NoRow \notin Rows
ASSUME NoServiceAssumption ==
    NoService \notin [allowed: SUBSET Roles, default: Roles \union {NoRole}]

VARIABLES
    service,     \* the row of service_definitions
    grant,       \* the product_grants table
    told,        \* the role in the newest set_grant event of each scope
    req,         \* the requests in flight, with what each has read
    mixed,       \* history: the service is the work of two updates at once
    settled      \* history: the scopes whose last set_grant was alone in it
                 \* and ran to the end

tables == <<service, grant, told>>
history == <<mixed, settled>>
vars == <<tables, req, history>>

-----------------------------------------------------------------------------

Scopes == Orgs \union {Wide}
Defaults == Roles \union {NoRole}
Service == [allowed: SUBSET Roles, default: Defaults]

NoGrant == [scope |-> NoScope, role |-> NoRole]

(* A row that is there has a role. *)
Grant == [scope: Scopes, role: Roles] \union {NoGrant}

Pcs == {"idle", "find", "set", "emit", "insert", "update", "delete"}

(* scope, role: what the grant is to be; row, old: the row found and its    *)
(* role.  loaded, new: the service as loaded and as it is to be.  alone,    *)
(* stale are history: no other request sets a grant of the scope; another   *)
(* has written the service since it was loaded.                             *)
Request == [pc: Pcs, scope: Scopes \union {NoScope}, role: Defaults,
            row: Rows \union {NoRow}, old: Defaults,
            loaded: Service \union {NoService}, new: Service \union {NoService},
            alone: BOOLEAN, stale: BOOLEAN]

Idle == [pc |-> "idle", scope |-> NoScope, role |-> NoRole, row |-> NoRow,
         old |-> NoRole, loaded |-> NoService, new |-> NoService,
         alone |-> FALSE, stale |-> FALSE]

TypeOK ==
    /\ service \in Service \union {NoService}
    /\ grant \in [Rows -> Grant]
    /\ told \in [Scopes -> Defaults]
    /\ req \in [Requests -> Request]
    /\ mixed \in BOOLEAN
    /\ settled \in SUBSET Scopes

Held(s) == {g \in Rows : grant[g].scope = s}

(* The user may have been given a role when the account was made.           *)
Init ==
    /\ service = NoService
    /\ grant \in [Rows -> Grant]
    /\ Held(Wide) = {}
    /\ Cardinality(UNION {Held(o) : o \in Orgs}) <= 1
    /\ told = [s \in Scopes |-> NoRole]
    /\ req = [r \in Requests |-> Idle]
    /\ mixed = FALSE
    /\ settled = {}

Go(r, q) == req' = [req EXCEPT ![r] = q]
Finish(r) == Go(r, Idle)

-----------------------------------------------------------------------------
(* set_grant *)

Setting(s) == {r \in Requests : req[r].scope = s}

(* A request to grant role for s enters; none for s that is in flight is    *)
(* alone any longer.                                                        *)
Enter(r, s, role) ==
    req' = [t \in Requests |->
              CASE t = r ->
                     [Idle EXCEPT !.pc = "find", !.scope = s, !.role = role,
                                  !.alone = Setting(s) = {}]
                [] t \in Setting(s) -> [req[t] EXCEPT !.alone = FALSE]
                [] OTHER -> req[t]]

(* The role given, or the default one of the service. *)
RoleFor(given) ==
    IF given = NoRole /\ service # NoService THEN service.default ELSE given

Accepted == IF service = NoService THEN Standard ELSE service.allowed

(* Mutant of BeginGrant: only a role that is given is checked. *)
BeginGrantLax(r, s, given) ==
    /\ req[r].pc = "idle"
    /\ given # NoRole => given \in Accepted
    /\ Enter(r, s, RoleFor(given))
    /\ UNCHANGED <<tables, history>>

(* The service is read, the role settled by it and checked. *)
BeginGrant(r, s, given) ==
    /\ req[r].pc = "idle"
    /\ RoleFor(given) # NoRole
    /\ RoleFor(given) \in Accepted
    /\ Enter(r, s, RoleFor(given))
    /\ UNCHANGED <<tables, history>>

(* Mutant of FindGrant: the grant of any scope will do. *)
FindAnyGrant(r) ==
    LET q == req[r]
        found == {g \in Rows : grant[g].scope # NoScope}
    IN
    /\ q.pc = "find"
    /\ \/ found = {} /\ Go(r, [q EXCEPT !.pc = "set"])
       \/ \E g \in found :
             Go(r, [q EXCEPT !.pc = "set", !.row = g, !.old = grant[g].role])
    /\ UNCHANGED <<tables, history>>

(* The grant of the scope is looked up; that there are two is an error. *)
FindGrant(r) ==
    LET q == req[r] IN
    /\ q.pc = "find"
    /\ \/ Held(q.scope) = {} /\ Go(r, [q EXCEPT !.pc = "set"])
       \/ \E g \in Rows :
             /\ Held(q.scope) = {g}
             /\ Go(r, [q EXCEPT !.pc = "set", !.row = g, !.old = grant[g].role])
       \/ Cardinality(Held(q.scope)) > 1 /\ Finish(r)
    /\ UNCHANGED <<tables, history>>

(* It is inserted, unless the unique key is violated, or its role updated   *)
(* if that differs from the one loaded.                                     *)
SetGrant(r) ==
    LET q == req[r]
        clash == q.row = NoRow /\ q.scope # Wide /\ Held(q.scope) # {}
    IN
    /\ q.pc = "set"
    /\ \/ clash /\ Finish(r) /\ UNCHANGED <<grant, settled>>
       \/ /\ ~clash
          /\ \/ /\ q.row = NoRow
                /\ \E g \in Held(NoScope) :
                      grant' = [grant EXCEPT ![g] = [scope |-> q.scope,
                                                     role |-> q.role]]
             \/ /\ q.row # NoRow
                /\ grant' = IF q.role = q.old THEN grant
                            ELSE [grant EXCEPT ![q.row].role = q.role]
          /\ settled' = settled \ {q.scope}
          /\ Go(r, [q EXCEPT !.pc = "emit"])
    /\ UNCHANGED <<service, told, mixed>>

(* emit_audit, another commit. *)
Emit(r) ==
    LET q == req[r] IN
    /\ q.pc = "emit"
    /\ told' = [told EXCEPT ![q.scope] = q.role]
    /\ settled' = IF q.alone THEN settled \union {q.scope} ELSE settled
    /\ Finish(r)
    /\ UNCHANGED <<service, grant, mixed>>

(* Mutant of RolesInToken: the platform-wide grant goes before the          *)
(* organisation's.                                                          *)
RolesInTokenWideFirst(o) ==
    {grant[g].role : g \in IF Held(Wide) = {} THEN Held(o) ELSE Held(Wide)}

(* issue_tokens: the role for the service in a token for the organisation   *)
(* o; of several platform-wide grants, any.                                 *)
RolesInToken(o) ==
    {grant[g].role : g \in IF Held(o) = {} THEN Held(Wide) ELSE Held(o)}

-----------------------------------------------------------------------------
(* The registry. *)

Allows(svc) == svc.default = NoRole \/ svc.default \in svc.allowed

BeginRegister(r, svc) ==
    /\ req[r].pc = "idle"
    /\ service = NoService
    /\ svc.allowed # {} /\ Allows(svc)
    /\ Go(r, [Idle EXCEPT !.pc = "insert", !.new = svc])
    /\ UNCHANGED <<tables, history>>

(* A write of the service: those that have loaded it have the former one. *)
Write(r, svc) ==
    /\ service' = svc
    /\ req' = [t \in Requests |->
                 IF t = r THEN Idle
                 ELSE [req[t] EXCEPT !.stale = @ \/ req[t].pc = "update"]]
    /\ UNCHANGED <<grant, told, settled>>

(* register_service: the id is the primary key. *)
RegisterService(r) ==
    /\ req[r].pc = "insert"
    /\ \/ service = NoService /\ Write(r, req[r].new) /\ mixed' = FALSE
       \/ service # NoService /\ Finish(r) /\ UNCHANGED <<tables, history>>

(* Mutant of BeginUpdate: the default is checked only if it changes. *)
BeginUpdateLax(r, new) ==
    /\ req[r].pc = "idle"
    /\ service # NoService
    /\ new.default # service.default => Allows(new)
    /\ Go(r, [Idle EXCEPT !.pc = "update", !.loaded = service, !.new = new])
    /\ UNCHANGED <<tables, history>>

(* update_service: the row is loaded, the columns given are replaced in it, *)
(* and the result checked.                                                  *)
BeginUpdate(r, new) ==
    /\ req[r].pc = "idle"
    /\ service # NoService
    /\ Allows(new)
    /\ Go(r, [Idle EXCEPT !.pc = "update", !.loaded = service, !.new = new])
    /\ UNCHANGED <<tables, history>>

(* Those that differ from the loaded ones are written; a row that is gone   *)
(* is an error.                                                             *)
UpdateService(r) ==
    LET q == req[r]
        column(c) == IF q.new[c] = q.loaded[c] THEN service[c] ELSE q.new[c]
    IN
    /\ q.pc = "update"
    /\ \/ /\ service # NoService /\ q.new # q.loaded
          /\ Write(r, [allowed |-> column("allowed"),
                       default |-> column("default")])
          /\ mixed' = q.stale
       \/ /\ service = NoService \/ q.new = q.loaded
          /\ Finish(r)
          /\ UNCHANGED <<tables, history>>

BeginDelete(r) ==
    /\ req[r].pc = "idle"
    /\ service # NoService
    /\ Go(r, [Idle EXCEPT !.pc = "delete"])
    /\ UNCHANGED <<tables, history>>

(* delete_service: a row that is gone is no error. *)
DeleteService(r) ==
    /\ req[r].pc = "delete"
    /\ Write(r, NoService)
    /\ mixed' = FALSE

-----------------------------------------------------------------------------

(* A worker dies. *)
Crash(r) ==
    /\ req[r].pc # "idle"
    /\ Finish(r)
    /\ UNCHANGED <<tables, history>>

Next ==
    \E r \in Requests :
       \/ \E s \in Scopes, role \in Defaults : BeginGrant(r, s, role)
       \/ FindGrant(r) \/ SetGrant(r) \/ Emit(r)
       \/ \E svc \in Service : BeginRegister(r, svc) \/ BeginUpdate(r, svc)
       \/ RegisterService(r) \/ UpdateService(r)
       \/ BeginDelete(r) \/ DeleteService(r)
       \/ Crash(r)

Spec == Init /\ [][Next]_vars

-----------------------------------------------------------------------------
(* Properties. *)

(* product_onboarding.md: the services keep the role of the newest          *)
(* set_grant event.  It is the one that a token carries, as long as the     *)
(* last set_grant of the scope that decides it (README.md: that of the      *)
(* organisation, if the user has a grant there) overlapped no other and     *)
(* was not cut off before its event.                                        *)
FeedTellsRole ==
    \A o \in Orgs :
        LET decides == IF Held(o) = {} THEN Wide ELSE o IN
        decides \in settled => RolesInToken(o) = {told[decides]}

(* admin.py: "default_role (if defined) must be present in allowed_roles".  *)
(* It is, unless the service was updated by two requests at the same time,  *)
(* each of which checks the columns of the other as they were before.       *)
DefaultIsAllowed == service = NoService \/ mixed \/ Allows(service)

-----------------------------------------------------------------------------
(* The strengthening that makes them inductive. *)

(* What a request has loaded; a row that was found stays one of the scope,  *)
(* and the service is the one loaded unless another update came between.    *)
Sound(r) ==
    LET q == req[r] IN
    /\ q.pc = "idle" => q.scope = NoScope
    /\ q.pc \in {"find", "set", "emit"} =>
          q.scope \in Scopes /\ q.role \in Roles
    /\ q.alone => q.pc \in {"find", "set", "emit"}
    /\ q.row # NoRow => q.scope \in Scopes /\ q.row \in Held(q.scope)
    /\ q.pc \in {"insert", "update"} => q.new \in Service /\ Allows(q.new)
    /\ q.pc = "update" =>
          q.loaded \in Service /\ (q.stale \/ service = q.loaded)

(* A request that is alone is the only one of its scope, *)
AloneIsAlone ==
    \A r \in Requests :
        req[r].alone => \A t \in Requests : req[t].scope = req[r].scope => t = r

(* s has one grant, and that is for role. *)
Carries(s, role) == \E g \in Rows : Held(s) = {g} /\ grant[g].role = role

(* ... so that the grant is as it has read or left it, *)
Current(r) ==
    LET q == req[r] IN
    /\ q.pc = "set" /\ q.row = NoRow => Held(q.scope) = {}
    /\ q.pc = "set" /\ q.row # NoRow =>
          Held(q.scope) = {q.row} /\ grant[q.row].role = q.old
    /\ q.pc = "emit" => Carries(q.scope, q.role)

AloneIsCurrent == \A r \in Requests : req[r].alone => Current(r)

(* and once it has told so nobody is about to tell something else. *)
SettledIsTold ==
    \A s \in settled :
        /\ Carries(s, told[s])
        /\ \A r \in Requests : req[r].pc = "emit" => req[r].scope # s

GrantsInv ==
    /\ \A r \in Requests : Sound(r)
    /\ AloneIsAlone /\ AloneIsCurrent /\ SettledIsTold /\ DefaultIsAllowed
=============================================================================
