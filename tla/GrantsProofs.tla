----------------------------- MODULE GrantsProofs -----------------------------
(* Theorems about Grants, for every set of roles, organisations, rows and   *)
(* worker slots.                                                            *)
EXTENDS Grants, TLAPS

USE WideAssumption, NoRoleAssumption, NoScopeAssumption, NoRowAssumption,
    NoServiceAssumption

Inv == TypeOK /\ GrantsInv

-----------------------------------------------------------------------------
(* Requests. *)

LEMMA IdleType ==
    /\ Idle \in Request /\ Idle.pc = "idle" /\ Idle.scope = NoScope
    /\ Idle.row = NoRow /\ ~Idle.alone
BY DEF Idle, Request, Pcs, Defaults

LEMMA GoFacts ==
    ASSUME TypeOK, NEW r \in Requests, NEW q \in Request, Go(r, q)
    PROVE  /\ req' \in [Requests -> Request] /\ req'[r] = q
           /\ \A t \in Requests : t # r => req'[t] = req[t]
BY DEF Go, TypeOK

LEMMA Loaded ==
    ASSUME Inv, NEW r \in Requests
    PROVE  req[r] \in Request /\ Sound(r)
BY DEF Inv, GrantsInv, TypeOK

(* A request that changes nothing but itself: it goes on with the same      *)
(* scope, or ends, and is alone only if it was.                             *)
Continues(r, q) ==
    /\ q \in Request
    /\ q.pc = "idle" => q.scope = NoScope
    /\ q.pc \in {"find", "set"} => q.scope \in Scopes /\ q.role \in Roles
    /\ q.pc # "emit"
    /\ q.scope \in {NoScope, req[r].scope}
    /\ q.alone => /\ req[r].alone /\ q.scope = req[r].scope
                  /\ q.pc = "set"
                  /\ q.row = NoRow => Held(q.scope) = {}
                  /\ q.row # NoRow =>
                        Held(q.scope) = {q.row} /\ grant[q.row].role = q.old
    /\ q.row # NoRow => q.scope \in Scopes /\ q.row \in Held(q.scope)
    /\ q.pc \in {"insert", "update"} => q.new \in Service /\ Allows(q.new)
    /\ q.pc = "update" =>
          q.loaded \in Service /\ (q.stale \/ service = q.loaded)

LEMMA GoStep ==
    ASSUME Inv, NEW r \in Requests, NEW q, Continues(r, q), Go(r, q),
           UNCHANGED <<tables, history>>
    PROVE  Inv'
<1> USE DEF Continues
<1>1. TypeOK /\ q \in Request
  BY DEF Inv
<1>2. /\ req' \in [Requests -> Request] /\ req'[r] = q
      /\ \A t \in Requests : t # r => req'[t] = req[t]
  BY <1>1, GoFacts
<1>3. UNCHANGED <<service, grant, told, mixed, settled>>
  BY DEF tables, history
<1>4. \A s : Held(s)' = Held(s)
  BY <1>3 DEF Held
<1>5. TypeOK'
  BY <1>1, <1>2, <1>3 DEF TypeOK
<1>6. ASSUME NEW t \in Requests PROVE Sound(t)'
  <2>1. CASE t = r
    BY <1>2, <1>3, <1>4, <2>1 DEF Sound
  <2>2. CASE t # r
    BY <1>2, <1>3, <1>4, <2>2, Loaded DEF Sound
  <2>3. QED
    BY <2>1, <2>2
<1>7. AloneIsAlone'
  <2> SUFFICES ASSUME NEW p \in Requests, req'[p].alone, NEW t \in Requests,
                      req'[t].scope = req'[p].scope
               PROVE  t = p
    BY DEF AloneIsAlone
  <2>1. req[p].alone /\ req'[p].scope = req[p].scope
    BY <1>2
  <2>2. req[p].scope \in Scopes
    BY <2>1, Loaded DEF Sound
  <2>3. req'[t].scope = req[t].scope
    BY <1>2, <2>1, <2>2 DEF Scopes
  <2>4. QED
    BY <2>1, <2>3 DEF Inv, GrantsInv, AloneIsAlone
<1>8. AloneIsCurrent'
  <2>1. ASSUME NEW p \in Requests, req'[p].alone, p # r PROVE Current(p)'
    <3>1. req'[p] = req[p] /\ Current(p)
      BY <1>2, <2>1 DEF Inv, GrantsInv, AloneIsCurrent
    <3>2. QED
      BY <1>3, <3>1 DEF Current, Carries, Held
  <2>2. req'[r].alone => Current(r)'
    BY <1>2, <1>3 DEF Current, Held
  <2>3. QED
    BY <2>1, <2>2 DEF AloneIsCurrent
<1>9. SettledIsTold'
  BY <1>2, <1>3, <1>4 DEF Inv, GrantsInv, SettledIsTold, Carries
<1>10. DefaultIsAllowed'
  BY <1>3 DEF Inv, GrantsInv, DefaultIsAllowed
<1>11. QED
  BY <1>5, <1>6, <1>7, <1>8, <1>9, <1>10 DEF Inv, GrantsInv

LEMMA FinishStep ==
    ASSUME Inv, NEW r \in Requests, Finish(r), UNCHANGED <<tables, history>>
    PROVE  Inv'
<1>1. Continues(r, Idle)
  BY IdleType DEF Continues
<1>2. QED
  BY <1>1, GoStep DEF Finish

-----------------------------------------------------------------------------
(* The steps of set_grant. *)

LEMMA EnterStep ==
    ASSUME Inv, NEW r \in Requests, NEW s \in Scopes, NEW role \in Roles,
           req[r].pc = "idle", Enter(r, s, role), UNCHANGED <<tables, history>>
    PROVE  Inv'
<1> DEFINE only == Setting(s) = {}
           q == [Idle EXCEPT !.pc = "find", !.scope = s, !.role = role,
                             !.alone = only]
<1>1. /\ req' = [t \in Requests |->
                   CASE t = r -> q
                     [] t \in Setting(s) -> [req[t] EXCEPT !.alone = FALSE]
                     [] OTHER -> req[t]]
      /\ UNCHANGED <<tables, history>>
  BY Zenon DEF Enter
<1>2. r \notin Setting(s)
  BY Loaded DEF Sound, Setting, Scopes
<1>3. UNCHANGED <<service, grant, told, mixed, settled>>
  BY <1>1 DEF tables, history
<1>4. role \in Roles
  OBVIOUS
<1>5. only \in BOOLEAN
  OBVIOUS
<1> HIDE DEF only
<1>6. /\ q \in Request /\ q.pc = "find" /\ q.scope = s /\ q.role = role
      /\ q.row = NoRow /\ q.alone = only
  BY <1>4, <1>5 DEF Idle, Request, Pcs, Defaults
<1> HIDE DEF q
<1>7. req'[r] = q
  <2>1. req'[r] = CASE r = r -> q
                    [] r \in Setting(s) -> [req[r] EXCEPT !.alone = FALSE]
                    [] OTHER -> req[r]
    BY <1>1, Zenon
  <2>2. QED
    BY <1>2, <2>1, Zenon
<1>8. \A t \in Requests : req[t] \in Request
  BY DEF Inv, TypeOK
<1>9. ASSUME NEW t \in Requests, t # r
      PROVE  /\ req'[t] \in Request
             /\ req'[t].pc = req[t].pc /\ req'[t].scope = req[t].scope
             /\ req'[t].role = req[t].role /\ req'[t].row = req[t].row
             /\ req'[t].old = req[t].old /\ req'[t].new = req[t].new
             /\ req'[t].loaded = req[t].loaded
             /\ req'[t].stale = req[t].stale
             /\ req'[t].alone => req[t].alone /\ req[t].scope # s
  <2>1. CASE t \in Setting(s)
    <3>1. req'[t] = [req[t] EXCEPT !.alone = FALSE]
      BY <1>1, <1>9, <2>1
    <3>2. QED
      BY <1>8, <3>1 DEF Request
  <2>2. CASE t \notin Setting(s)
    <3>1. req'[t] = req[t]
      BY <1>1, <1>9, <2>2
    <3>2. QED
      BY <1>8, <2>2, <3>1 DEF Setting
  <2>3. QED
    BY <2>1, <2>2
<1>10. req' \in [Requests -> Request]
  <2>1. \A t \in Requests : req'[t] \in Request
    BY <1>6, <1>7, <1>9
  <2> DEFINE F(t) == CASE t = r -> q
                       [] t \in Setting(s) -> [req[t] EXCEPT !.alone = FALSE]
                       [] OTHER -> req[t]
  <2>2. req' = [t \in Requests |-> F(t)]
    BY <1>1, Zenon
  <2> HIDE DEF F
  <2>3. QED
    BY <2>1, <2>2
<1>11. TypeOK'
  BY <1>3, <1>10 DEF Inv, TypeOK
<1>12. ASSUME NEW t \in Requests PROVE Sound(t)'
  <2>1. CASE t = r
    BY <1>4, <1>6, <1>7, <2>1 DEF Sound
  <2>2. CASE t # r
    <3>1. Sound(t)
      BY Loaded
    <3>2. QED
      BY <1>3, <1>9, <2>2, <3>1 DEF Sound, Held, Allows
  <2>3. QED
    BY <2>1, <2>2
<1>13. AloneIsAlone'
  <2> SUFFICES ASSUME NEW p \in Requests, req'[p].alone, NEW t \in Requests,
                      req'[t].scope = req'[p].scope
               PROVE  t = p
    BY DEF AloneIsAlone
  <2>1. CASE p = r
    BY <1>6, <1>7, <1>9, <2>1 DEF only, Setting
  <2>2. CASE p # r
    BY <1>6, <1>7, <1>9, <2>2 DEF Inv, GrantsInv, AloneIsAlone
  <2>3. QED
    BY <2>1, <2>2
<1>14. AloneIsCurrent'
  <2>1. ASSUME NEW p \in Requests, req'[p].alone, p # r PROVE Current(p)'
    <3>1. Current(p)
      BY <1>9, <2>1 DEF Inv, GrantsInv, AloneIsCurrent
    <3>2. QED
      BY <1>3, <1>9, <2>1, <3>1 DEF Current, Carries, Held
  <2>2. Current(r)'
    BY <1>6, <1>7 DEF Current
  <2>3. QED
    BY <2>1, <2>2 DEF AloneIsCurrent
<1>15. SettledIsTold'
  BY <1>3, <1>6, <1>7, <1>9
     DEF Inv, GrantsInv, SettledIsTold, Carries, Held
<1>16. DefaultIsAllowed'
  BY <1>3 DEF Inv, GrantsInv, DefaultIsAllowed, Allows
<1>17. QED
  BY <1>11, <1>12, <1>13, <1>14, <1>15, <1>16 DEF Inv, GrantsInv

LEMMA BeginGrantStep ==
    ASSUME Inv, NEW r \in Requests, NEW s \in Scopes, NEW given \in Defaults,
           BeginGrant(r, s, given)
    PROVE  Inv'
<1>1. PICK role : role = RoleFor(given)
  OBVIOUS
<1>2. role \in Defaults /\ role # NoRole
  BY <1>1 DEF BeginGrant, RoleFor, Inv, TypeOK, Service
<1>3. QED
  BY <1>1, <1>2, EnterStep DEF BeginGrant, Defaults

LEMMA FindStep ==
    ASSUME Inv, NEW r \in Requests, FindGrant(r)
    PROVE  Inv'
<1>1. req[r].pc = "find" /\ UNCHANGED <<tables, history>>
  BY DEF FindGrant
<1>2. req[r] \in Request /\ req[r].scope \in Scopes /\ req[r].role \in Roles
  BY <1>1, Loaded DEF Sound
<1>3. CASE /\ Held(req[r].scope) = {}
           /\ Go(r, [req[r] EXCEPT !.pc = "set"])
  <2> DEFINE q == [req[r] EXCEPT !.pc = "set"]
  <2>1. /\ q \in Request /\ q.pc = "set" /\ q.scope = req[r].scope
        /\ q.role = req[r].role /\ q.row = req[r].row /\ q.alone = req[r].alone
    BY <1>2 DEF Request, Pcs
  <2>2. Go(r, q)
    BY <1>3
  <2> HIDE DEF q
  <2>3. req[r].row = NoRow
    BY <1>3, Loaded DEF Sound
  <2>4. Continues(r, q)
    BY <1>2, <1>3, <2>1, <2>3 DEF Continues
  <2>5. QED
    BY <1>1, <2>2, <2>4, GoStep
<1>4. ASSUME NEW g \in Rows, Held(req[r].scope) = {g},
             Go(r, [req[r] EXCEPT !.pc = "set", !.row = g,
                                  !.old = grant[g].role])
      PROVE  Inv'
  <2> DEFINE q == [req[r] EXCEPT !.pc = "set", !.row = g, !.old = grant[g].role]
  <2>1. grant[g].role \in Defaults
    BY DEF Inv, TypeOK, Grant, NoGrant, Defaults
  <2>2. /\ q \in Request /\ q.pc = "set" /\ q.scope = req[r].scope
        /\ q.role = req[r].role /\ q.row = g /\ q.old = grant[g].role
        /\ q.alone = req[r].alone
    BY <1>2, <2>1 DEF Request, Pcs
  <2>3. Go(r, q)
    BY <1>4
  <2> HIDE DEF q
  <2>4. Continues(r, q)
    BY <1>2, <1>4, <2>2 DEF Continues
  <2>5. QED
    BY <1>1, <2>3, <2>4, GoStep
<1>5. CASE Finish(r)
  BY <1>1, <1>5, FinishStep
<1>6. QED
  BY <1>3, <1>4, <1>5 DEF FindGrant

(* The grant of the scope is there afterwards, and those of other scopes    *)
(* stay as they are.                                                        *)
LEMMA SetStep ==
    ASSUME Inv, NEW r \in Requests, SetGrant(r)
    PROVE  Inv'
<1>1. req[r].pc = "set"
  BY DEF SetGrant
<1>2. PICK q, p, s, role : /\ q = req[r] /\ p = [req[r] EXCEPT !.pc = "emit"]
                           /\ s = req[r].scope /\ role = req[r].role
  OBVIOUS
<1>3. q \in Request /\ Sound(r) /\ s \in Scopes /\ role \in Roles
  BY <1>1, <1>2, Loaded DEF Sound
<1>4. /\ q.pc = "set" /\ q.scope = s /\ q.role = role
      /\ q.row # NoRow => q.row \in Held(s)
  BY <1>1, <1>2, <1>3 DEF Sound
<1>5. /\ p \in Request /\ p.pc = "emit" /\ p.scope = s
      /\ p.role = role /\ p.row = q.row /\ p.alone = q.alone
  BY <1>2, <1>3, <1>4 DEF Request, Pcs
<1>6. CASE UNCHANGED <<tables, history>> /\ Finish(r)
  BY <1>6, FinishStep
<1>7. CASE /\ \/ /\ q.row = NoRow
                 /\ \E g \in Held(NoScope) :
                       grant' = [grant EXCEPT ![g] = [scope |-> s,
                                                      role |-> role]]
              \/ /\ q.row # NoRow
                 /\ grant' = IF role = q.old THEN grant
                             ELSE [grant EXCEPT ![q.row].role = role]
           /\ settled' = settled \ {s} /\ Go(r, p)
           /\ UNCHANGED <<service, told, mixed>>
  <2>1. grant \in [Rows -> Grant] /\ NoScope \notin Scopes
    BY DEF Inv, TypeOK, Scopes
  <2>2. q.alone => Current(r)
    BY <1>2 DEF Inv, GrantsInv, AloneIsCurrent
  <2>3. /\ grant' \in [Rows -> Grant]
        /\ Held(s) \subseteq Held(s)'
        /\ \A z \in Scopes \ {s} : /\ Held(z)' = Held(z)
                                   /\ \A g \in Held(z) : grant'[g] = grant[g]
        /\ q.alone => Carries(s, role)'
    <3>1. CASE q.row = NoRow
      <4>1. PICK g \in Held(NoScope) :
                 grant' = [grant EXCEPT ![g] = [scope |-> s, role |-> role]]
        BY <1>7, <3>1
      <4>2. /\ g \in Rows /\ grant[g].scope = NoScope
            /\ grant'[g] = [scope |-> s, role |-> role]
            /\ \A h \in Rows : h # g => grant'[h] = grant[h]
            /\ grant' \in [Rows -> Grant]
        BY <1>3, <2>1, <4>1 DEF Held, Grant
      <4>3. Held(s)' = Held(s) \union {g}
        BY <1>3, <4>2 DEF Held
      <4>4. \A z \in Scopes \ {s} : /\ Held(z)' = Held(z)
                                    /\ \A h \in Held(z) : grant'[h] = grant[h]
        BY <2>1, <4>2 DEF Held
      <4>5. q.alone => Carries(s, role)'
        <5>1. q.alone => Held(s)' = {g}
          BY <1>2, <1>4, <2>2, <3>1, <4>3 DEF Current
        <5>2. QED
          BY <4>2, <5>1 DEF Carries
      <4>6. QED
        BY <4>2, <4>3, <4>4, <4>5
    <3>2. CASE q.row # NoRow
      <4>1. /\ q.row \in Rows /\ grant[q.row].scope = s
            /\ grant[q.row] \in [scope: Scopes, role: Roles]
        BY <1>3, <1>4, <2>1, <3>2 DEF Held, Grant, NoGrant
      <4>2. /\ \A h \in Rows : h # q.row => grant'[h] = grant[h]
            /\ grant' \in [Rows -> Grant] /\ grant'[q.row].scope = s
            /\ grant'[q.row].role = IF role = q.old THEN grant[q.row].role
                                    ELSE role
        BY <1>3, <1>7, <2>1, <3>2, <4>1 DEF Grant
      <4>3. \A z : Held(z)' = Held(z)
        BY <4>1, <4>2 DEF Held
      <4>4. \A z \in Scopes \ {s} : \A h \in Held(z) : grant'[h] = grant[h]
        BY <4>1, <4>2 DEF Held
      <4>5. q.alone => Carries(s, role)'
        <5>1. q.alone => Held(s) = {q.row} /\ grant[q.row].role = q.old
          BY <1>2, <1>4, <2>2, <3>2 DEF Current
        <5>2. QED
          BY <4>1, <4>2, <4>3, <5>1 DEF Carries
      <4>6. QED
        BY <4>2, <4>3, <4>4, <4>5
    <3>3. QED
      BY <3>1, <3>2
  <2>4. /\ req' \in [Requests -> Request] /\ req'[r] = p
        /\ \A t \in Requests : t # r => req'[t] = req[t]
    BY <1>5, <1>7, GoFacts DEF Inv
  <2>5. TypeOK'
    BY <1>7, <2>3, <2>4 DEF Inv, TypeOK
  <2>6. \A z \in Scopes : Held(z) \subseteq Held(z)'
    BY <2>3
  <2>7. ASSUME NEW t \in Requests PROVE Sound(t)'
    <3>1. CASE t = r
      <4>1. p.row # NoRow => p.row \in Held(s)'
        BY <1>4, <1>5, <2>3
      <4>2. QED
        BY <1>3, <1>5, <2>4, <3>1, <4>1 DEF Sound, Held
    <3>2. CASE t # r
      <4>1. req'[t] = req[t] /\ Sound(t)
        BY <2>4, <3>2, Loaded
      <4>2. \A z \in Scopes :
               \A g \in Held(z) : g \in Rows /\ grant'[g].scope = z
        BY <2>6 DEF Held
      <4>3. QED
        BY <1>7, <4>1, <4>2 DEF Sound, Allows, Held
    <3>3. QED
      BY <3>1, <3>2
  <2>8. AloneIsAlone'
    <3>1. \A t \in Requests : /\ req'[t].scope = req[t].scope
                              /\ req'[t].alone = req[t].alone
      BY <1>2, <1>4, <1>5, <2>4
    <3>2. QED
      BY <3>1, Zenon DEF Inv, GrantsInv, AloneIsAlone
  <2>9. AloneIsCurrent'
    <3>1. ASSUME NEW t \in Requests, req'[t].alone, t # r PROVE Current(t)'
      <4>1. req'[t] = req[t] /\ Current(t) /\ Sound(t)
        BY <2>4, <3>1, Loaded DEF Inv, GrantsInv, AloneIsCurrent
      <4>2. PICK v, z, role_t : v = req[t] /\ z = v.scope /\ role_t = v.role
        OBVIOUS
      <4>3. z \in Scopes \ {s}
        BY <1>2, <2>4, <3>1, <4>1, <4>2
           DEF Inv, GrantsInv, AloneIsAlone, Sound
      <4>4. /\ Held(z)' = Held(z) /\ Held(z) \subseteq Rows
            /\ \A g \in Held(z) : grant'[g] = grant[g]
        BY <2>3, <4>3 DEF Held
      <4>5. Carries(z, role_t) => Carries(z, role_t)'
        BY <4>4 DEF Carries
      <4>6. /\ v.pc = "set" /\ v.row = NoRow => Held(z) = {}
            /\ v.pc = "set" /\ v.row # NoRow =>
                  Held(z) = {v.row} /\ grant[v.row].role = v.old
            /\ v.pc = "emit" => Carries(z, role_t)
        BY <4>1, <4>2 DEF Current
      <4>7. /\ v.pc = "set" /\ v.row = NoRow => Held(z)' = {}
            /\ v.pc = "set" /\ v.row # NoRow =>
                  Held(z)' = {v.row} /\ grant'[v.row].role = v.old
            /\ v.pc = "emit" => Carries(z, role_t)'
        BY <4>4, <4>5, <4>6
      <4>8. QED
        BY <4>1, <4>2, <4>7 DEF Current, Held, Carries
    <3>2. req'[r].alone => Current(r)'
      BY <1>5, <2>3, <2>4 DEF Current, Carries, Held
    <3>3. QED
      BY <3>1, <3>2 DEF AloneIsCurrent
  <2>10. SettledIsTold'
    <3> SUFFICES ASSUME NEW z \in settled'
                 PROVE  /\ Carries(z, told[z])'
                        /\ \A t \in Requests :
                              req'[t].pc = "emit" => req'[t].scope # z
      BY DEF SettledIsTold
    <3>1. z \in settled /\ z \in Scopes \ {s}
      BY <1>7 DEF Inv, TypeOK
    <3>2. /\ Carries(z, told[z])
          /\ \A t \in Requests : req[t].pc = "emit" => req[t].scope # z
      BY <3>1 DEF Inv, GrantsInv, SettledIsTold
    <3>3. Carries(z, told[z])'
      BY <1>7, <2>3, <3>1, <3>2 DEF Carries
    <3>4. QED
      BY <1>5, <2>4, <3>1, <3>2, <3>3
  <2>11. DefaultIsAllowed'
    BY <1>7 DEF Inv, GrantsInv, DefaultIsAllowed, Allows
  <2>12. QED
    BY <2>5, <2>7, <2>8, <2>9, <2>10, <2>11 DEF Inv, GrantsInv
<1>8. QED
  BY <1>2, <1>6, <1>7, Zenon DEF SetGrant, tables, history

(* The scope is settled only by a request that was alone, and its grant is   *)
(* then the one it left.                                                    *)
LEMMA EmitStep ==
    ASSUME Inv, NEW r \in Requests, Emit(r)
    PROVE  Inv'
<1>1. PICK q, s, role : q = req[r] /\ s = q.scope /\ role = q.role
  OBVIOUS
<1>2. /\ q.pc = "emit" /\ q \in Request /\ Sound(r)
      /\ s \in Scopes /\ role \in Roles
  BY <1>1, Loaded DEF Emit, Sound
<1>3. /\ told' = [told EXCEPT ![s] = role]
      /\ settled' = IF q.alone THEN settled \union {s} ELSE settled
      /\ Go(r, Idle) /\ UNCHANGED <<service, grant, mixed>>
  BY <1>1 DEF Emit, Finish
<1>4. /\ req' \in [Requests -> Request] /\ req'[r] = Idle
      /\ \A t \in Requests : t # r => req'[t] = req[t]
  BY <1>3, IdleType, GoFacts DEF Inv
<1>5. TypeOK'
  BY <1>2, <1>3, <1>4 DEF Inv, TypeOK, Defaults
<1>6. ASSUME NEW t \in Requests PROVE Sound(t)'
  <2>1. CASE t = r
    BY <1>4, <2>1, IdleType DEF Sound, Idle
  <2>2. CASE t # r
    BY <1>3, <1>4, <2>2, Loaded DEF Sound, Held
  <2>3. QED
    BY <2>1, <2>2
<1>7. AloneIsAlone'
  <2> SUFFICES ASSUME NEW p \in Requests, req'[p].alone, NEW t \in Requests,
                      req'[t].scope = req'[p].scope
               PROVE  t = p
    BY DEF AloneIsAlone
  <2>1. p # r /\ req'[p] = req[p]
    BY <1>4, IdleType
  <2>2. req[p].scope \in Scopes
    BY <2>1, Loaded DEF Sound
  <2>3. t # r
    BY <1>4, <2>1, <2>2, IdleType DEF Scopes
  <2>4. QED
    BY <1>4, <2>1, <2>3 DEF Inv, GrantsInv, AloneIsAlone
<1>8. AloneIsCurrent'
  <2> SUFFICES ASSUME NEW p \in Requests, req'[p].alone PROVE Current(p)'
    BY DEF AloneIsCurrent
  <2>1. p # r /\ req'[p] = req[p]
    BY <1>4, IdleType
  <2>2. Current(p)
    BY <2>1 DEF Inv, GrantsInv, AloneIsCurrent
  <2>3. QED
    BY <1>3, <2>1, <2>2 DEF Current, Carries, Held
<1>9. SettledIsTold'
  <2> SUFFICES ASSUME NEW z \in settled'
               PROVE  /\ Carries(z, told[z])'
                      /\ \A t \in Requests :
                            req'[t].pc = "emit" => req'[t].scope # z
    BY DEF SettledIsTold
  <2>1. s \notin settled
    BY <1>1, <1>2 DEF Inv, GrantsInv, SettledIsTold
  <2>2. CASE z = s
    <3>1. q.alone
      BY <1>3, <2>1, <2>2
    <3>2. Carries(s, role)
      BY <1>1, <1>2, <3>1 DEF Inv, GrantsInv, AloneIsCurrent, Current
    <3>3. told'[s] = role
      BY <1>2, <1>3 DEF Inv, TypeOK
    <3>4. Carries(s, told[s])'
      BY <1>3, <3>2, <3>3 DEF Carries, Held
    <3>5. \A t \in Requests : req[t].scope = s => t = r
      BY <1>1, <3>1 DEF Inv, GrantsInv, AloneIsAlone
    <3>6. QED
      BY <1>4, <2>2, <3>4, <3>5, IdleType
  <2>3. CASE z # s
    <3>1. z \in settled /\ z \in Scopes
      BY <1>3, <2>3 DEF Inv, TypeOK
    <3>2. /\ Carries(z, told[z])
          /\ \A t \in Requests : req[t].pc = "emit" => req[t].scope # z
      BY <3>1 DEF Inv, GrantsInv, SettledIsTold
    <3>3. told'[z] = told[z]
      BY <1>3, <2>3, <3>1 DEF Inv, TypeOK
    <3>4. Carries(z, told[z])'
      BY <1>3, <3>2, <3>3 DEF Carries, Held
    <3>5. QED
      BY <1>4, <3>2, <3>4, IdleType
  <2>4. QED
    BY <2>2, <2>3
<1>10. DefaultIsAllowed'
  BY <1>3 DEF Inv, GrantsInv, DefaultIsAllowed, Allows
<1>11. QED
  BY <1>5, <1>6, <1>7, <1>8, <1>9, <1>10 DEF Inv, GrantsInv

-----------------------------------------------------------------------------
(* The steps of the registry. *)

(* A write leaves those that have loaded the service behind.                *)
LEMMA WriteStep ==
    ASSUME Inv, NEW r \in Requests, NEW svc \in Service \union {NoService},
           Write(r, svc), mixed' \in BOOLEAN,
           svc = NoService \/ mixed' \/ Allows(svc)
    PROVE  Inv'
<1>1. /\ service' = svc /\ UNCHANGED <<grant, told, settled>>
      /\ req' = [t \in Requests |->
                   IF t = r THEN Idle
                   ELSE [req[t] EXCEPT !.stale = @ \/ req[t].pc = "update"]]
  BY Zenon DEF Write
<1>2. req'[r] = Idle
  BY <1>1
<1>3. ASSUME NEW t \in Requests, t # r
      PROVE  /\ req'[t] \in Request
             /\ req'[t].pc = req[t].pc /\ req'[t].scope = req[t].scope
             /\ req'[t].role = req[t].role /\ req'[t].row = req[t].row
             /\ req'[t].old = req[t].old /\ req'[t].new = req[t].new
             /\ req'[t].loaded = req[t].loaded
             /\ req'[t].alone = req[t].alone
             /\ req[t].pc = "update" => req'[t].stale
  <2> DEFINE stale == req[t].stale \/ req[t].pc = "update"
  <2>1. req[t] \in Request
    BY DEF Inv, TypeOK
  <2>2. req'[t] = [req[t] EXCEPT !.stale = stale]
    BY <1>1, <1>3, Zenon
  <2>3. stale \in BOOLEAN
    OBVIOUS
  <2>4. req[t].pc = "update" => stale
    OBVIOUS
  <2> HIDE DEF stale
  <2>5. QED
    BY <2>1, <2>2, <2>3, <2>4 DEF Request
<1>4. req' \in [Requests -> Request]
  <2> DEFINE F(t) == IF t = r THEN Idle
                     ELSE [req[t] EXCEPT !.stale = @ \/ req[t].pc = "update"]
  <2>1. \A t \in Requests : req'[t] \in Request
    BY <1>2, <1>3, IdleType
  <2>2. req' = [t \in Requests |-> F(t)]
    BY <1>1, Zenon
  <2> HIDE DEF F
  <2>3. QED
    BY <2>1, <2>2
<1>5. TypeOK'
  BY <1>1, <1>4 DEF Inv, TypeOK
<1>6. ASSUME NEW t \in Requests PROVE Sound(t)'
  <2>1. CASE t = r
    BY <1>2, <2>1, IdleType DEF Sound, Idle
  <2>2. CASE t # r
    <3>1. Sound(t)
      BY Loaded
    <3>2. QED
      BY <1>1, <1>3, <2>2, <3>1 DEF Sound, Held, Allows
  <2>3. QED
    BY <2>1, <2>2
<1>7. AloneIsAlone'
  <2> SUFFICES ASSUME NEW p \in Requests, req'[p].alone, NEW t \in Requests,
                      req'[t].scope = req'[p].scope
               PROVE  t = p
    BY DEF AloneIsAlone
  <2>1. p # r
    BY <1>2, IdleType
  <2>2. req[p].alone /\ req'[p].scope = req[p].scope
    BY <1>3, <2>1
  <2>3. req[p].scope \in Scopes
    BY <2>2, Loaded DEF Sound
  <2>4. t # r
    BY <1>2, <2>2, <2>3, IdleType DEF Scopes
  <2>5. req[t].scope = req[p].scope
    BY <1>3, <2>2, <2>4
  <2>6. QED
    BY <2>2, <2>5 DEF Inv, GrantsInv, AloneIsAlone
<1>8. AloneIsCurrent'
  <2> SUFFICES ASSUME NEW p \in Requests, req'[p].alone PROVE Current(p)'
    BY DEF AloneIsCurrent
  <2>1. p # r
    BY <1>2, IdleType
  <2>2. Current(p)
    BY <1>3, <2>1 DEF Inv, GrantsInv, AloneIsCurrent
  <2>3. QED
    BY <1>1, <1>3, <2>1, <2>2 DEF Current, Carries, Held
<1>9. SettledIsTold'
  BY <1>1, <1>2, <1>3, IdleType
     DEF Inv, GrantsInv, SettledIsTold, Carries, Held
<1>10. DefaultIsAllowed'
  BY <1>1 DEF DefaultIsAllowed, Allows
<1>11. QED
  BY <1>5, <1>6, <1>7, <1>8, <1>9, <1>10 DEF Inv, GrantsInv

(* A registration and an update begin with what they are to write checked.  *)
LEMMA BeginWriteStep ==
    ASSUME Inv, NEW r \in Requests, NEW svc \in Service,
           BeginRegister(r, svc) \/ BeginUpdate(r, svc)
    PROVE  Inv'
<1>1. /\ req[r].pc = "idle" /\ Allows(svc) /\ UNCHANGED <<tables, history>>
  BY DEF BeginRegister, BeginUpdate
<1>2. CASE BeginRegister(r, svc)
  <2> DEFINE q == [Idle EXCEPT !.pc = "insert", !.new = svc]
  <2>1. /\ q \in Request /\ q.pc = "insert" /\ q.scope = NoScope
        /\ q.row = NoRow /\ ~q.alone /\ q.new = svc
    BY DEF Idle, Request, Pcs, Defaults
  <2>2. Go(r, q)
    BY <1>2 DEF BeginRegister
  <2> HIDE DEF q
  <2>3. Continues(r, q)
    BY <1>1, <2>1 DEF Continues
  <2>4. QED
    BY <1>1, <2>2, <2>3, GoStep
<1>3. CASE BeginUpdate(r, svc)
  <2>1. service \in Service
    BY <1>3 DEF BeginUpdate, Inv, TypeOK
  <2> DEFINE q == [Idle EXCEPT !.pc = "update", !.loaded = service,
                               !.new = svc]
  <2>2. /\ q \in Request /\ q.pc = "update" /\ q.scope = NoScope
        /\ q.row = NoRow /\ ~q.alone /\ q.new = svc /\ q.loaded = service
    BY <2>1 DEF Idle, Request, Pcs, Defaults
  <2>3. Go(r, q)
    BY <1>3 DEF BeginUpdate
  <2> HIDE DEF q
  <2>4. Continues(r, q)
    BY <1>1, <2>1, <2>2 DEF Continues
  <2>5. QED
    BY <1>1, <2>3, <2>4, GoStep
<1>4. QED
  BY <1>2, <1>3

LEMMA BeginDeleteStep ==
    ASSUME Inv, NEW r \in Requests, BeginDelete(r)
    PROVE  Inv'
<1> DEFINE q == [Idle EXCEPT !.pc = "delete"]
<1>1. /\ q \in Request /\ q.pc = "delete" /\ q.scope = NoScope
      /\ q.row = NoRow /\ ~q.alone
  BY DEF Idle, Request, Pcs, Defaults
<1>2. Go(r, q) /\ UNCHANGED <<tables, history>>
  BY DEF BeginDelete
<1> HIDE DEF q
<1>3. Continues(r, q)
  BY <1>1 DEF Continues
<1>4. QED
  BY <1>2, <1>3, GoStep

LEMMA RegisterStep ==
    ASSUME Inv, NEW r \in Requests, RegisterService(r)
    PROVE  Inv'
<1>1. req[r].pc = "insert" /\ Sound(r)
  BY Loaded DEF RegisterService
<1>2. CASE Write(r, req[r].new) /\ mixed' = FALSE
  <2>1. req[r].new \in Service /\ Allows(req[r].new)
    BY <1>1 DEF Sound
  <2>2. QED
    BY <1>2, <2>1, WriteStep
<1>3. CASE Finish(r) /\ UNCHANGED <<tables, history>>
  BY <1>3, FinishStep
<1>4. QED
  BY <1>2, <1>3 DEF RegisterService

(* If no other write came in between, the columns written and those left    *)
(* are together what was checked.                                           *)
LEMMA UpdateStep ==
    ASSUME Inv, NEW r \in Requests, UpdateService(r)
    PROVE  Inv'
<1>1. PICK q : q = req[r]
  OBVIOUS
<1>2. /\ q \in Request /\ q.pc = "update" /\ q.new \in Service
      /\ q.loaded \in Service /\ Allows(q.new)
      /\ q.stale \/ service = q.loaded
  BY <1>1, Loaded DEF UpdateService, Sound
<1> DEFINE column(c) == IF q.new[c] = q.loaded[c] THEN service[c] ELSE q.new[c]
           svc == [allowed |-> column("allowed"),
                   default |-> column("default")]
<1>3. CASE /\ service # NoService /\ Write(r, svc) /\ mixed' = q.stale
  <2>1. service \in Service
    BY <1>3 DEF Inv, TypeOK
  <2>2. svc \in Service
    BY <1>2, <2>1 DEF Service
  <2>3. service = q.loaded => svc = q.new
    BY <1>2 DEF Service
  <2> HIDE DEF svc
  <2>4. mixed' \in BOOLEAN /\ (mixed' \/ Allows(svc))
    BY <1>2, <1>3, <2>3 DEF Request
  <2>5. QED
    BY <1>3, <2>2, <2>4, WriteStep
<1>4. CASE Finish(r) /\ UNCHANGED <<tables, history>>
  BY <1>4, FinishStep
<1>5. QED
  BY <1>1, <1>3, <1>4, Zenon DEF UpdateService

LEMMA DeleteStep ==
    ASSUME Inv, NEW r \in Requests, DeleteService(r)
    PROVE  Inv'
BY WriteStep DEF DeleteService

-----------------------------------------------------------------------------
(* The invariant. *)

LEMMA InitInv == Init => Inv
<1> SUFFICES ASSUME Init PROVE Inv
  OBVIOUS
<1>1. TypeOK
  BY IdleType DEF Init, TypeOK, Defaults
<1>2. \A r \in Requests : req[r] = Idle
  BY DEF Init
<1>3. \A r \in Requests : Sound(r)
  BY <1>2, IdleType DEF Sound, Idle
<1>4. AloneIsAlone /\ AloneIsCurrent
  BY <1>2, IdleType DEF AloneIsAlone, AloneIsCurrent
<1>5. SettledIsTold /\ DefaultIsAllowed
  BY DEF Init, SettledIsTold, DefaultIsAllowed
<1>6. QED
  BY <1>1, <1>3, <1>4, <1>5 DEF Inv, GrantsInv

LEMMA StepInv == Inv /\ [Next]_vars => Inv'
<1> SUFFICES ASSUME Inv, [Next]_vars PROVE Inv'
  OBVIOUS
<1>1. ASSUME NEW r \in Requests, NEW s \in Scopes, NEW role \in Defaults,
             BeginGrant(r, s, role)
      PROVE  Inv'
  BY <1>1, BeginGrantStep
<1>2. ASSUME NEW r \in Requests, FindGrant(r) PROVE Inv'
  BY <1>2, FindStep
<1>3. ASSUME NEW r \in Requests, SetGrant(r) PROVE Inv'
  BY <1>3, SetStep
<1>4. ASSUME NEW r \in Requests, Emit(r) PROVE Inv'
  BY <1>4, EmitStep
<1>5. ASSUME NEW r \in Requests, NEW svc \in Service,
             BeginRegister(r, svc) \/ BeginUpdate(r, svc)
      PROVE  Inv'
  BY <1>5, BeginWriteStep
<1>6. ASSUME NEW r \in Requests, RegisterService(r) PROVE Inv'
  BY <1>6, RegisterStep
<1>7. ASSUME NEW r \in Requests, UpdateService(r) PROVE Inv'
  BY <1>7, UpdateStep
<1>8. ASSUME NEW r \in Requests, BeginDelete(r) PROVE Inv'
  BY <1>8, BeginDeleteStep
<1>9. ASSUME NEW r \in Requests, DeleteService(r) PROVE Inv'
  BY <1>9, DeleteStep
<1>10. ASSUME NEW r \in Requests, Crash(r) PROVE Inv'
  BY <1>10, FinishStep DEF Crash
<1>11. CASE UNCHANGED vars
  <2>1. UNCHANGED <<service, grant, told, req, mixed, settled>>
    BY <1>11 DEF vars, tables, history
  <2>2. TypeOK' /\ AloneIsAlone' /\ DefaultIsAllowed'
    BY <2>1 DEF Inv, GrantsInv, TypeOK, AloneIsAlone, DefaultIsAllowed, Allows
  <2>3. \A r \in Requests : Sound(r)'
    BY <2>1 DEF Inv, GrantsInv, Sound, Held, Allows
  <2>4. AloneIsCurrent'
    BY <2>1 DEF Inv, GrantsInv, AloneIsCurrent, Current, Carries, Held
  <2>5. SettledIsTold'
    BY <2>1 DEF Inv, GrantsInv, SettledIsTold, Carries, Held
  <2>6. QED
    BY <2>2, <2>3, <2>4, <2>5 DEF Inv, GrantsInv
<1>12. QED
  BY <1>1, <1>2, <1>3, <1>4, <1>5, <1>6, <1>7, <1>8, <1>9, <1>10, <1>11
     DEF Next

LEMMA InvAlways == Spec => []Inv
BY InitInv, StepInv, PTL DEF Spec

-----------------------------------------------------------------------------

(* Every variable keeps its type, whatever the requests in flight do to one *)
(* another.                                                                 *)
THEOREM TypeCorrect == Spec => []TypeOK
<1>1. Inv => TypeOK
  BY DEF Inv
<1>2. QED
  BY <1>1, InvAlways, PTL

(* What set_grant has told the services that follow the feed is what        *)
(* issue_tokens puts into a token, for every scope whose last set_grant     *)
(* overlapped no other and ran to its end.                                  *)
THEOREM FeedHolds == Spec => []FeedTellsRole
<1>1. Inv => FeedTellsRole
  <2> SUFFICES ASSUME Inv, NEW o \in Orgs,
                      NEW d, d = IF Held(o) = {} THEN Wide ELSE o,
                      d \in settled
               PROVE  RolesInToken(o) = {told[d]}
    BY DEF FeedTellsRole
  <2>1. PICK g \in Rows : Held(d) = {g} /\ grant[g].role = told[d]
    BY DEF Inv, GrantsInv, SettledIsTold, Carries
  <2>2. RolesInToken(o) = {grant[h].role : h \in Held(d)}
    BY DEF RolesInToken
  <2>3. QED
    BY <2>1, <2>2
<1>2. QED
  BY <1>1, InvAlways, PTL

(* update_service and register_service leave a service whose default role   *)
(* is among its allowed ones, but for updates that overlap.                 *)
THEOREM DefaultHolds == Spec => []DefaultIsAllowed
<1>1. Inv => DefaultIsAllowed
  BY DEF Inv, GrantsInv
<1>2. QED
  BY <1>1, InvAlways, PTL
=============================================================================
