------------------------- MODULE OrganisationsProofs -------------------------
(***************************************************************************)
(* Theorems about Organisations, for any accounts and worker slots.        *)
(*                                                                         *)
(* The four action properties follow from what a request still knows when  *)
(* it commits.  Every row it holds is there or marked gone (HeldOrGone).   *)
(* A request that was never overlapped is the only one (LoneIsOnly), and   *)
(* nothing it has read has changed (LoneIsCurrent).                        *)
(***************************************************************************)
EXTENDS Organisations, FiniteSetTheorems, TLAPS

USE NoUserAssumption

(* What q has read and concluded is still so. *)
Current(q) ==
    /\ q.gone = {}
    /\ q.seen # "none" => q.seen = role[q.user]
    /\ q.pc \in {"adding", "removing", "walk", "erase"} => q.seen = role[q.user]
    /\ q.pc = "removing" /\ q.seen = "owner" => Cardinality(Owners) > 1
    /\ q.pc \in {"walk", "erase"} =>
          /\ q.user \in users
          /\ q.user \in granted => q.holdsGrant
    /\ q.pc = "walk" => q.seen # "none"
    /\ q.pc # "erase" => ~q.orphan
    /\ q.pc = "erase" =>
          /\ q.orphan => Members = {q.user}
          /\ ~q.orphan /\ q.heir = NoUser /\ q.seen = "owner" =>
                Owners \ {q.user} # {}

HeldOrGone == \A r \in Requests : Held(req[r]) \ req[r].gone \subseteq Members

HeirIsOther ==
    \A r \in Requests : req[r].heir # NoUser =>
        req[r].pc = "erase" /\ req[r].heir # req[r].user

LoneIsOnly == \A r \in Busy : req[r].alone => Busy = {r}

LoneIsCurrent == \A r \in Busy : req[r].alone => Current(req[r])

(* All but the deletion of the organisation concern an account; who is      *)
(* added gets a role.                                                       *)
Concerns(q) ==
    /\ q.pc # "delete" => q.user \in Users
    /\ q.pc \in {"add", "adding"} => q.rank \in Ranks

ConcernsUser == \A r \in Busy : Concerns(req[r])

Inv == TypeOK /\ HeldOrGone /\ HeirIsOther /\ LoneIsOnly /\ LoneIsCurrent /\ ConcernsUser

-----------------------------------------------------------------------------
(* What the ways in which a handler writes req have in common. *)

LEMMA IdleType ==
    Idle \in Request /\ Held(Idle) = {} /\ Idle.pc = "idle" /\ Idle.heir = NoUser
BY DEF Idle, Request, Pcs, Roles, Held

LEMMA RecordType ==
    ASSUME NEW q \in Request
    PROVE  /\ q.pc \in Pcs /\ q.user \in Users \union {NoUser}
           /\ q.rank \in Roles /\ q.seen \in Roles
           /\ q.gone \subseteq Users
           /\ q.heir \in Users \union {NoUser}
           /\ q.orphan \in BOOLEAN /\ q.alone \in BOOLEAN
           /\ q.holdsGrant \in BOOLEAN
           /\ q.pc # "delete" /\ q.user \in Users => Held(q) \subseteq Users
BY DEF Request, Held

(* A request goes on. *)
LEMMA GoStep ==
    ASSUME Inv, NEW r \in Busy, NEW q \in Request, Go(r, q), UNCHANGED rows,
           q.pc # "idle", Concerns(q),
           q.alone = req[r].alone,
           Held(q) \ q.gone \subseteq Members,
           q.heir # NoUser => q.pc = "erase" /\ q.heir # q.user,
           q.alone => Current(q)
    PROVE  Inv'
<1>1. /\ req' \in [Requests -> Request] /\ req'[r] = q
      /\ \A s \in Requests : s # r => req'[s] = req[s]
  BY DEF Go, Inv, TypeOK, Busy
<1>2. Busy' = Busy
  BY <1>1 DEF Busy
<1>3. /\ Members' = Members /\ Owners' = Owners
      /\ role' = role /\ users' = users /\ granted' = granted
  BY DEF rows, Members, Owners
<1>4. \A p : Current(p)' <=> Current(p)
  BY <1>3 DEF Current
<1>5. QED
  BY <1>1, <1>2, <1>3, <1>4
  DEF Inv, TypeOK, HeldOrGone, HeirIsOther, LoneIsOnly, LoneIsCurrent,
      ConcernsUser, rows, Busy

(* A request ends without deleting a membership: of those that are still in *)
(* flight none was the only one.                                            *)
LEMMA FinishStep ==
    ASSUME Inv, NEW r \in Busy, Finish(r), TypeOK', Members \subseteq Members'
    PROVE  Inv'
<1>1. /\ req'[r] = Idle
      /\ \A s \in Requests : s # r => req'[s] = req[s]
  BY DEF Finish, Inv, TypeOK, Busy
<1>2. Busy' = Busy \ {r}
  BY <1>1, IdleType DEF Busy
<1>3. \A s \in Busy' : ~req'[s].alone
  BY <1>1, <1>2 DEF Inv, LoneIsOnly, Busy
<1>4. HeldOrGone' /\ HeirIsOther' /\ ConcernsUser'
  <2>1. ASSUME NEW s \in Requests
        PROVE  /\ Held(req'[s]) \ req'[s].gone \subseteq Members'
               /\ req'[s].heir # NoUser =>
                     req'[s].pc = "erase" /\ req'[s].heir # req'[s].user
    BY <1>1, IdleType DEF Inv, HeldOrGone, HeirIsOther
  <2>2. ConcernsUser'
    BY <1>1, <1>2 DEF Inv, ConcernsUser, Concerns, Busy
  <2>3. \A q : Held(q)' = Held(q)
    BY DEF Held
  <2>4. QED
    BY <2>1, <2>2, <2>3 DEF HeldOrGone, HeirIsOther
<1>5. QED
  BY <1>3, <1>4 DEF Inv, LoneIsOnly, LoneIsCurrent

(* A request ends by deleting memberships: who held them has them as gone. *)
LEMMA FinishRemovingStep ==
    ASSUME Inv, NEW r \in Busy, NEW lost, FinishRemoving(r, lost), TypeOK',
           Members \ lost \subseteq Members'
    PROVE  Inv'
<1>1. /\ \A s \in Requests :
            req'[s] = IF s = r \/ s \notin Busy THEN Idle
                      ELSE [req[s] EXCEPT !.gone =
                              @ \union (lost \intersect Held(req[s]))]
  BY DEF FinishRemoving
<1>2. ASSUME NEW s \in Busy, s # r
      PROVE  /\ req'[s].gone = req[s].gone \union (lost \intersect Held(req[s]))
             /\ req'[s].pc = req[s].pc /\ req'[s].user = req[s].user
             /\ req'[s].heir = req[s].heir /\ req'[s].seen = req[s].seen
             /\ req'[s].alone = req[s].alone /\ req'[s].rank = req[s].rank
  <2>1. req[s] \in Request /\ s \in Requests
    BY <1>2 DEF Inv, TypeOK, Busy
  <2>2. req'[s] = [req[s] EXCEPT !.gone = @ \union (lost \intersect Held(req[s]))]
    BY <1>1, <1>2, <2>1
  <2>3. QED
    BY <2>1, <2>2 DEF Request
<1>3. \A s \in Requests : s \notin Busy \ {r} => req'[s] = Idle
  BY <1>1
<1>4. Busy' = Busy \ {r}
  BY <1>2, <1>3, IdleType DEF Busy
<1>5. \A s \in Busy' : ~req'[s].alone
  BY <1>2, <1>4 DEF Inv, LoneIsOnly, Busy
<1>6. \A q : Held(q)' = Held(q)
  BY DEF Held
<1>7. ASSUME NEW s \in Requests
      PROVE  /\ Held(req'[s]) \ req'[s].gone \subseteq Members'
             /\ req'[s].heir # NoUser =>
                     req'[s].pc = "erase" /\ req'[s].heir # req'[s].user
  <2>1. CASE s \in Busy \ {r}
    <3>1. Held(req'[s]) = Held(req[s])
      BY <1>2, <2>1 DEF Held
    <3>2. Held(req[s]) \ req[s].gone \subseteq Members
      BY DEF Inv, HeldOrGone
    <3>3. QED
      BY <1>2, <2>1, <3>1, <3>2 DEF Inv, HeirIsOther
  <2>2. CASE s \notin Busy \ {r}
    BY <1>3, <2>2, IdleType
  <2>3. QED
    BY <2>1, <2>2
<1>8. ConcernsUser'
  BY <1>2, <1>4 DEF Inv, ConcernsUser, Concerns, Busy
<1>9. QED
  BY <1>5, <1>6, <1>7, <1>8
  DEF Inv, HeldOrGone, HeirIsOther, LoneIsOnly, LoneIsCurrent

(* A request enters; it is the only one, or nobody is. *)
LEMMA EnterStep ==
    ASSUME Inv, NEW r \in Requests, NEW q \in Request, Enter(r, q), UNCHANGED rows,
           q.pc # "idle", Concerns(q),
           Held(q) \ q.gone \subseteq Members, q.heir = NoUser, Current(q)
    PROVE  Inv'
<1>1. r \notin Busy
  BY DEF Enter, Busy
<1>2. PICK p \in Request :
         /\ req'[r] = p
         /\ p.alone => Busy = {}
         /\ p.pc = q.pc /\ p.user = q.user /\ p.seen = q.seen /\ p.gone = q.gone
         /\ p.heir = q.heir /\ p.holdsGrant = q.holdsGrant /\ p.orphan = q.orphan
         /\ p.rank = q.rank
  <2> DEFINE only == Busy = {}
  <2>1. req'[r] = [q EXCEPT !.alone = only]
    <3>1. \A s \in Requests :
             req'[s] = CASE s = r      -> [q EXCEPT !.alone = only]
                         [] s \in Busy -> [req[s] EXCEPT !.alone = FALSE]
                         [] OTHER      -> Idle
      BY Zenon DEF Enter
    <3>2. r \notin Busy
      BY <1>1
    <3>3. QED
      BY <3>1, <3>2, Zenon
  <2>2. only \in BOOLEAN
    OBVIOUS
  <2> HIDE DEF only
  <2>3. /\ req'[r] \in Request /\ req'[r].alone = only
        /\ req'[r].pc = q.pc /\ req'[r].user = q.user
        /\ req'[r].seen = q.seen /\ req'[r].gone = q.gone
        /\ req'[r].heir = q.heir /\ req'[r].holdsGrant = q.holdsGrant
        /\ req'[r].orphan = q.orphan /\ req'[r].rank = q.rank
    BY <2>1, <2>2 DEF Request
  <2>4. req'[r].alone => Busy = {}
    BY <2>3 DEF only
  <2>5. QED
    BY <2>3, <2>4
<1>3. \A s \in Busy : req'[s] = [req[s] EXCEPT !.alone = FALSE]
  BY <1>1 DEF Enter, Busy
<1>4. ASSUME NEW s \in Busy
      PROVE  /\ req'[s] \in Request /\ ~req'[s].alone
             /\ req'[s].pc = req[s].pc /\ req'[s].user = req[s].user
             /\ req'[s].heir = req[s].heir /\ req'[s].seen = req[s].seen
             /\ req'[s].gone = req[s].gone /\ req'[s].rank = req[s].rank
  <2>1. req[s] \in Request /\ s \in Requests
    BY DEF Inv, TypeOK, Busy
  <2>2. req'[s] = [req[s] EXCEPT !.alone = FALSE]
    BY <1>3
  <2>3. QED
    BY <2>1, <2>2 DEF Request
<1>5. \A s \in Requests : s \notin Busy /\ s # r => req'[s] = Idle
  BY DEF Enter
<1>6. Busy' = Busy \union {r}
  BY <1>2, <1>4, <1>5, IdleType DEF Busy
<1>7. TypeOK'
  <2>1. req' \in [Requests -> Request]
    <3>1. req' = [s \in Requests |-> req'[s]]
      BY DEF Enter
    <3>2. QED
      BY <1>2, <1>4, <1>5, <3>1, IdleType
  <2>2. QED
    BY <2>1 DEF Inv, TypeOK, rows
<1>8. \A x : Held(x)' = Held(x)
  BY DEF Held
<1>9. /\ Members' = Members /\ Owners' = Owners
       /\ role' = role /\ users' = users /\ granted' = granted
  BY DEF rows, Members, Owners
<1>10. ASSUME NEW s \in Requests
       PROVE  /\ Held(req'[s]) \ req'[s].gone \subseteq Members
              /\ req'[s].heir # NoUser =>
                     req'[s].pc = "erase" /\ req'[s].heir # req'[s].user
  <2>1. CASE s = r
    <3>1. Held(p) = Held(q)
      BY <1>2 DEF Held
    <3>2. QED
      BY <1>2, <2>1, <3>1
  <2>2. CASE s \in Busy
    <3>1. Held(req'[s]) = Held(req[s])
      BY <1>4, <2>2 DEF Held
    <3>2. QED
      BY <1>4, <2>2, <3>1 DEF Inv, HeldOrGone, HeirIsOther
  <2>3. CASE s # r /\ s \notin Busy
    BY <1>5, <2>3, IdleType
  <2>4. QED
    BY <2>1, <2>2, <2>3
<1>11. HeldOrGone' /\ HeirIsOther'
  BY <1>8, <1>9, <1>10 DEF HeldOrGone, HeirIsOther
<1>12. LoneIsOnly'
  BY <1>2, <1>4, <1>6 DEF LoneIsOnly
<1>13. LoneIsCurrent'
  <2>1. Current(p)'
    BY <1>2, <1>9 DEF Current
  <2>2. QED
    BY <1>2, <1>4, <1>6, <2>1 DEF LoneIsCurrent
<1>14. ConcernsUser'
  BY <1>2, <1>4, <1>6 DEF Inv, ConcernsUser, Concerns
<1>15. QED
  BY <1>7, <1>11, <1>12, <1>13, <1>14 DEF Inv

-----------------------------------------------------------------------------
(* Each action keeps the invariant. *)

LEMMA HeldRow ==
    ASSUME Inv, NEW r \in Busy
    PROVE  /\ r \in Requests /\ req[r] \in Request
           /\ Concerns(req[r])
           /\ req[r].pc # "delete" => req[r].user \in Users
           /\ Held(req[r]) \ req[r].gone \subseteq Members
           /\ req[r].heir # NoUser =>
                 req[r].pc = "erase" /\ req[r].heir # req[r].user
           /\ req[r].alone => Current(req[r])
BY DEF Inv, TypeOK, Busy, HeldOrGone, HeirIsOther, LoneIsCurrent, ConcernsUser, Concerns

LEMMA RoleType ==
    ASSUME Inv
    PROVE  /\ role \in [Users -> Roles]
           /\ \A u \in Users : u \in Members <=> role[u] # "none"
BY DEF Inv, TypeOK, Members

LEMMA CrashStep == ASSUME Inv, NEW r \in Requests, Crash(r) PROVE Inv'
<1>1. r \in Busy /\ Finish(r)
  BY DEF Crash
<1>2. TypeOK' /\ Members' = Members
  BY <1>1, IdleType DEF Crash, Finish, Inv, TypeOK, rows, Members
<1>3. QED
  BY <1>1, <1>2, FinishStep

LEMMA BeginStep ==
    ASSUME Inv, NEW r \in Requests, NEW actor \in Users, NEW q \in Request,
           q.pc \in {"add", "remove"}, Concerns(q), q.rank \in Roles,
           q.seen = "none", q.gone = {}, q.heir = NoUser, ~q.orphan,
           EnterManager(r, actor, q)
    PROVE  Inv'
<1> DEFINE p == IF actor = q.user THEN [q EXCEPT !.seen = role[actor]] ELSE q
<1>1. Enter(r, p) /\ UNCHANGED rows
  BY DEF EnterManager
<1>2. PICK x : x = p
  OBVIOUS
<1>3. role[actor] \in Roles /\ role[actor] # "none"
  BY RoleType DEF EnterManager, Manages, Roles, Ranks
<1>4. /\ x \in Request
      /\ x.pc = q.pc /\ x.user = q.user /\ x.rank = q.rank
      /\ x.gone = {} /\ x.heir = NoUser /\ ~x.orphan
      /\ x.seen # "none" => actor = q.user /\ x.seen = role[actor]
  BY <1>2, <1>3 DEF Request
<1>5. Held(x) \subseteq Members
  BY <1>3, <1>4 DEF Held, Members
<1>6. Current(x)
  BY <1>4 DEF Current
<1>7. Enter(r, x)
  BY <1>1, <1>2
<1>8. Concerns(x)
  BY <1>4 DEF Concerns
<1> HIDE DEF p
<1>9. QED
  BY <1>1, <1>4, <1>5, <1>6, <1>7, <1>8, EnterStep

LEMMA BeginAddStep ==
    ASSUME Inv, NEW r \in Requests, NEW a \in Users, NEW t \in Users,
           NEW rank \in Ranks, BeginAdd(r, a, t, rank)
    PROVE  Inv'
<1>1. PICK q : q = [Idle EXCEPT !.pc = "add", !.user = t, !.rank = rank]
  OBVIOUS
<1>2. /\ q \in Request /\ q.pc = "add" /\ q.user = t /\ q.seen = "none"
      /\ q.gone = {} /\ q.heir = NoUser /\ ~q.orphan /\ q.rank \in Roles
      /\ Concerns(q)
  BY <1>1 DEF Idle, Request, Pcs, Roles, Concerns
<1>3. EnterManager(r, a, q)
  BY <1>1 DEF BeginAdd
<1>4. QED
  BY <1>2, <1>3, BeginStep

LEMMA BeginRemoveStep ==
    ASSUME Inv, NEW r \in Requests, NEW a \in Users, NEW t \in Users,
           BeginRemove(r, a, t)
    PROVE  Inv'
<1>1. PICK q : q = [Idle EXCEPT !.pc = "remove", !.user = t]
  OBVIOUS
<1>2. /\ q \in Request /\ q.pc = "remove" /\ q.user = t /\ q.seen = "none"
      /\ q.gone = {} /\ q.heir = NoUser /\ ~q.orphan /\ q.rank \in Roles
      /\ Concerns(q)
  BY <1>1 DEF Idle, Request, Pcs, Roles, Concerns
<1>3. EnterManager(r, a, q)
  BY <1>1 DEF BeginRemove
<1>4. QED
  BY <1>2, <1>3, BeginStep

LEMMA BeginDeleteStep ==
    ASSUME Inv, NEW r \in Requests, NEW a \in Users, BeginDelete(r, a)
    PROVE  Inv'
<1>1. PICK q : q = [Idle EXCEPT !.pc = "delete"]
  OBVIOUS
<1>2. /\ q \in Request /\ q.pc = "delete" /\ q.seen = "none"
      /\ q.gone = {} /\ q.heir = NoUser /\ ~q.orphan
  BY <1>1 DEF Idle, Request, Pcs, Roles
<1>3. Held(q) = {} /\ Current(q) /\ Concerns(q)
  BY <1>2 DEF Held, Current, Concerns
<1>4. Enter(r, q) /\ UNCHANGED rows
  BY <1>1 DEF BeginDelete
<1>5. QED
  BY <1>2, <1>3, <1>4, EnterStep

LEMMA AnnounceStep ==
    ASSUME Inv, NEW r \in Requests, NEW a \in Users, Announce(r, a)
    PROVE  Inv'
<1>1. PICK q : q = [Idle EXCEPT !.pc = "load", !.user = a]
  OBVIOUS
<1>2. /\ q \in Request /\ q.pc = "load" /\ q.user = a /\ q.seen = "none"
      /\ q.gone = {} /\ q.heir = NoUser /\ ~q.orphan
  BY <1>1 DEF Idle, Request, Pcs, Roles
<1>3. Held(q) = {} /\ Current(q) /\ Concerns(q)
  BY <1>2 DEF Held, Current, Concerns
<1>4. Enter(r, q) /\ UNCHANGED rows
  BY <1>1 DEF Announce
<1>5. QED
  BY <1>2, <1>3, <1>4, EnterStep

LEMMA ReadingType ==
    ASSUME Inv, NEW r \in Busy, req[r].pc # "delete"
    PROVE  /\ Reading(req[r]) \in Roles
           /\ Reading(req[r]) # "none" => req[r].user \in Members
           /\ req[r].alone => Reading(req[r]) = role[req[r].user]
<1>1. /\ req[r].seen \in Roles /\ role[req[r].user] \in Roles
      /\ req[r].user \in Users
      /\ role[req[r].user] # "none" => req[r].user \in Members
  BY HeldRow, RoleType, RecordType
<1>2. req[r].seen # "none" /\ req[r].user \notin req[r].gone =>
         req[r].user \in Members
  BY HeldRow DEF Held
<1>3. req[r].alone /\ req[r].seen # "none" => req[r].seen = role[req[r].user]
  BY HeldRow DEF Current
<1>4. QED
  BY <1>1, <1>2, <1>3 DEF Reading

LEMMA LookAddStep == ASSUME Inv, NEW r \in Requests, LookAdd(r) PROVE Inv'
<1>1. r \in Busy /\ req[r].pc = "add"
  BY DEF LookAdd, Busy
<1>2. CASE req[r].user \in users
  <2>1. PICK q : q = [req[r] EXCEPT !.pc = "adding", !.seen = Reading(req[r]),
                                    !.gone = {}]
    OBVIOUS
  <2>2. /\ q \in Request /\ q.pc = "adding" /\ q.seen = Reading(req[r])
        /\ q.user = req[r].user /\ q.gone = {} /\ q.heir = NoUser
        /\ q.orphan = req[r].orphan /\ q.alone = req[r].alone
        /\ q.rank = req[r].rank
    BY <1>1, <2>1, HeldRow, ReadingType DEF Request, Pcs
  <2>3. Held(q) \subseteq Members /\ Concerns(q)
    BY <1>1, <2>2, HeldRow, ReadingType DEF Held, Concerns
  <2>4. q.alone => Current(q)
    <3>1. q.alone => q.seen = role[q.user] /\ ~q.orphan
      BY <1>1, <2>2, HeldRow, ReadingType DEF Current
    <3>2. QED
      BY <2>2, <3>1 DEF Current
  <2>5. Go(r, q) /\ UNCHANGED rows
    BY <1>2, <2>1 DEF LookAdd
  <2>6. QED
    BY <1>1, <2>2, <2>3, <2>4, <2>5, GoStep
<1>3. CASE req[r].user \notin users
  <2>1. Finish(r) /\ UNCHANGED rows
    BY <1>3 DEF LookAdd
  <2>2. Crash(r)
    BY <1>1, <2>1 DEF Crash
  <2>3. QED
    BY <2>2, CrashStep
<1>4. QED
  BY <1>2, <1>3

LEMMA LookRemoveStep == ASSUME Inv, NEW r \in Requests, LookRemove(r) PROVE Inv'
<1> DEFINE may == /\ role[req[r].user] # "none"
                  /\ Reading(req[r]) = "owner" => Cardinality(Owners) > 1
<1> HIDE DEF may
<1>1. r \in Busy /\ req[r].pc = "remove"
  BY DEF LookRemove, Busy
<1>2. CASE may
  <2>1. PICK q : q = [req[r] EXCEPT !.pc = "removing", !.seen = Reading(req[r]),
                                    !.gone = {}]
    OBVIOUS
  <2>2. /\ q \in Request /\ q.pc = "removing" /\ q.seen = Reading(req[r])
        /\ q.user = req[r].user /\ q.gone = {} /\ q.heir = NoUser
        /\ q.orphan = req[r].orphan /\ q.alone = req[r].alone
        /\ q.rank = req[r].rank
    BY <1>1, <2>1, HeldRow, ReadingType DEF Request, Pcs
  <2>3. Held(q) \subseteq Members /\ Concerns(q)
    BY <1>1, <2>2, HeldRow, ReadingType DEF Held, Concerns
  <2>4. q.alone => Current(q)
    <3>1. q.alone => q.seen = role[q.user] /\ ~q.orphan
      BY <1>1, <2>2, HeldRow, ReadingType DEF Current
    <3>2. QED
      BY <1>2, <2>2, <3>1 DEF Current, may
  <2>5. Go(r, q) /\ UNCHANGED rows
    BY <1>2, <2>1 DEF LookRemove, may
  <2>6. QED
    BY <1>1, <2>2, <2>3, <2>4, <2>5, GoStep
<1>3. CASE ~may
  <2>1. Finish(r) /\ UNCHANGED rows
    BY <1>3 DEF LookRemove, may
  <2>2. Crash(r)
    BY <1>1, <2>1 DEF Crash
  <2>3. QED
    BY <2>2, CrashStep
<1>4. QED
  BY <1>2, <1>3

LEMMA LoadStep == ASSUME Inv, NEW r \in Requests, Load(r) PROVE Inv'
<1>1. r \in Busy /\ req[r].pc = "load"
  BY DEF Load, Busy
<1>2. CASE req[r].user \in users
  <2> DEFINE next == IF req[r].user \in Members THEN "walk" ELSE "erase"
             grant == req[r].user \in granted
  <2>1. PICK q : q = [req[r] EXCEPT !.pc = next, !.seen = role[req[r].user],
                                    !.holdsGrant = grant]
    OBVIOUS
  <2>2. grant \in BOOLEAN /\ next \in {"walk", "erase"}
    OBVIOUS
  <2>3. /\ req[r].user \in Users /\ role[req[r].user] \in Roles
        /\ next = "erase" <=> role[req[r].user] = "none"
        /\ role[req[r].user] # "none" => req[r].user \in Members
    BY <1>1, HeldRow, RoleType
  <2> HIDE DEF next, grant
  <2>4. /\ q \in Request /\ q.pc = next /\ q.seen = role[req[r].user]
        /\ q.user = req[r].user /\ q.gone = req[r].gone /\ q.heir = NoUser
        /\ q.orphan = req[r].orphan /\ q.alone = req[r].alone
        /\ q.holdsGrant = grant
    BY <1>1, <2>1, <2>2, <2>3, HeldRow DEF Request, Pcs
  <2>5. Held(q) \subseteq Members /\ Concerns(q)
    BY <2>2, <2>3, <2>4 DEF Held, Concerns
  <2>6. q.alone => Current(q)
    <3>1. q.alone => q.gone = {} /\ ~q.orphan
      BY <1>1, <2>4, HeldRow DEF Current
    <3>2. q.user \in granted => q.holdsGrant
      BY <2>4 DEF grant
    <3>3. q.pc = "erase" <=> q.seen = "none"
      BY <2>2, <2>3, <2>4
    <3>4. QED
      BY <1>2, <2>2, <2>4, <3>1, <3>2, <3>3 DEF Current
  <2>7. Go(r, q) /\ UNCHANGED rows
    BY <1>2, <2>1 DEF Load, next, grant
  <2>8. QED
    BY <1>1, <2>2, <2>4, <2>5, <2>6, <2>7, GoStep
<1>3. CASE req[r].user \notin users
  <2>1. Finish(r) /\ UNCHANGED rows
    BY <1>3 DEF Load
  <2>2. Crash(r)
    BY <1>1, <2>1 DEF Crash
  <2>3. QED
    BY <2>2, CrashStep
<1>4. QED
  BY <1>2, <1>3

LEMMA WalkStep == ASSUME Inv, NEW r \in Requests, Walk(r) PROVE Inv'
<1> DEFINE u == req[r].user
           others == Members \ {u}
<1>1. r \in Busy /\ req[r].pc = "walk" /\ UNCHANGED rows
  BY DEF Walk, Busy
<1>2. /\ req[r] \in Request /\ u \in Users
      /\ Held(req[r]) \ req[r].gone \subseteq Members
      /\ req[r].heir = NoUser
      /\ req[r].alone => Current(req[r])
  BY <1>1, HeldRow
<1>3. req[r].alone => u \in Members
  BY <1>1, <1>2, RoleType DEF Current
<1> HIDE DEF u
<1>4. CASE others = {} /\ Go(r, [req[r] EXCEPT !.pc = "erase", !.orphan = TRUE])
  <2>1. PICK q : q = [req[r] EXCEPT !.pc = "erase", !.orphan = TRUE]
    OBVIOUS
  <2>2. /\ q \in Request /\ q.pc = "erase" /\ q.orphan /\ q.user = u
        /\ q.seen = req[r].seen /\ q.gone = req[r].gone /\ q.heir = NoUser
        /\ q.holdsGrant = req[r].holdsGrant /\ q.alone = req[r].alone
    BY <1>2, <2>1 DEF Request, Pcs, u
  <2>3. Held(q) = Held(req[r]) /\ Concerns(q)
    BY <1>2, <2>2 DEF Held, Concerns, u
  <2>4. q.alone => Current(q)
    BY <1>1, <1>2, <1>3, <1>4, <2>2 DEF Current, u
  <2>5. Go(r, q)
    BY <1>4, <2>1
  <2>6. QED
    BY <1>1, <1>2, <2>2, <2>3, <2>4, <2>5, GoStep
<1>5. CASE \E heir \in others : Go(r, [req[r] EXCEPT !.pc = "erase", !.heir = heir])
  <2>1. PICK heir \in others : Go(r, [req[r] EXCEPT !.pc = "erase", !.heir = heir])
    BY <1>5
  <2>2. PICK q : q = [req[r] EXCEPT !.pc = "erase", !.heir = heir]
    OBVIOUS
  <2>3. heir \in Members /\ heir # u /\ heir \in Users
    BY <2>1 DEF Members
  <2>4. /\ q \in Request /\ q.pc = "erase" /\ q.orphan = req[r].orphan /\ q.user = u
        /\ q.seen = req[r].seen /\ q.gone = req[r].gone /\ q.heir = heir
        /\ q.holdsGrant = req[r].holdsGrant /\ q.alone = req[r].alone
    BY <1>2, <2>2, <2>3 DEF Request, Pcs, u
  <2>5. Held(q) \subseteq Held(req[r]) \union {heir} /\ Concerns(q)
    BY <1>2, <2>4 DEF Held, Concerns, u
  <2>6. q.alone => Current(q)
    BY <1>1, <1>2, <2>3, <2>4 DEF Current, u
  <2>7. Go(r, q)
    BY <2>1, <2>2
  <2>8. Held(q) \ q.gone \subseteq Members
    BY <1>2, <2>3, <2>4, <2>5
  <2>9. QED
    BY <1>1, <2>3, <2>4, <2>5, <2>6, <2>7, <2>8, GoStep
<1>6. CASE Owners \ {u} # {} /\ Go(r, [req[r] EXCEPT !.pc = "erase"])
  <2>1. PICK q : q = [req[r] EXCEPT !.pc = "erase"]
    OBVIOUS
  <2>2. /\ q \in Request /\ q.pc = "erase" /\ q.orphan = req[r].orphan /\ q.user = u
        /\ q.seen = req[r].seen /\ q.gone = req[r].gone /\ q.heir = NoUser
        /\ q.holdsGrant = req[r].holdsGrant /\ q.alone = req[r].alone
    BY <1>2, <2>1 DEF Request, Pcs, u
  <2>3. Held(q) = Held(req[r]) /\ Concerns(q)
    BY <1>2, <2>2 DEF Held, Concerns, u
  <2>4. q.alone => Current(q)
    BY <1>1, <1>2, <1>6, <2>2 DEF Current, u
  <2>5. Go(r, q)
    BY <1>6, <2>1
  <2>6. QED
    BY <1>1, <1>2, <2>2, <2>3, <2>4, <2>5, GoStep
<1>7. QED
  BY <1>4, <1>5, <1>6 DEF Walk, u

LEMMA CommitAddStep == ASSUME Inv, NEW r \in Requests, CommitAdd(r) PROVE Inv'
<1>1. r \in Busy /\ req[r].pc = "adding" /\ Finish(r)
  BY DEF CommitAdd, Busy
<1>2. req[r].user \in Users /\ req[r].rank \in Ranks
  BY <1>1, HeldRow DEF Concerns
<1>3. role' = role \/ role' = [role EXCEPT ![req[r].user] = req[r].rank]
  BY DEF CommitAdd
<1>4. role' \in [Users -> Roles] /\ Members \subseteq Members'
  BY <1>2, <1>3, RoleType DEF Members, Roles, Ranks
<1>5. TypeOK'
  BY <1>1, <1>4, IdleType DEF CommitAdd, Finish, Inv, TypeOK
<1>6. QED
  BY <1>1, <1>4, <1>5, FinishStep

LEMMA FinishRemovingType ==
    ASSUME Inv, NEW r \in Busy, NEW lost, FinishRemoving(r, lost)
    PROVE  req' \in [Requests -> Request]
<1>1. ASSUME NEW s \in Busy PROVE Held(req[s]) \subseteq Users
  <2>1. req[s] \in Request /\ s \in Requests
    BY DEF Inv, TypeOK, Busy
  <2>2. Held(req[s]) \ req[s].gone \subseteq Members /\ req[s].gone \subseteq Users
    BY <2>1, RecordType DEF Inv, HeldOrGone
  <2>3. QED
    BY <2>2 DEF Members
<1>2. ASSUME NEW s \in Requests PROVE req'[s] \in Request
  <2>1. CASE s = r \/ s \notin Busy
    BY <2>1, IdleType DEF FinishRemoving
  <2>2. CASE s # r /\ s \in Busy
    <3> DEFINE now == req[s].gone \union (lost \intersect Held(req[s]))
    <3>1. req'[s] = [req[s] EXCEPT !.gone = now]
      BY <2>2 DEF FinishRemoving
    <3>2. req[s] \in Request /\ now \subseteq Users
      BY <1>1, <2>2, RecordType DEF Inv, TypeOK
    <3> HIDE DEF now
    <3>3. QED
      BY <3>1, <3>2 DEF Request
  <2>3. QED
    BY <2>1, <2>2
<1>3. req' = [s \in Requests |-> req'[s]]
  BY DEF FinishRemoving
<1>4. QED
  BY <1>2, <1>3

LEMMA CommitRemoveStep == ASSUME Inv, NEW r \in Requests, CommitRemove(r) PROVE Inv'
<1> DEFINE lost == {req[r].user} \ req[r].gone
<1>1. r \in Busy /\ FinishRemoving(r, lost)
  BY DEF CommitRemove, Busy
<1>2. role' = [u \in Users |-> IF u \in lost THEN "none" ELSE role[u]]
  BY DEF CommitRemove
<1> HIDE DEF lost
<1>3. role' \in [Users -> Roles] /\ Members \ lost \subseteq Members'
  BY <1>2, RoleType DEF Members, Roles
<1>4. TypeOK'
  BY <1>1, <1>3, FinishRemovingType DEF CommitRemove, Inv, TypeOK
<1>5. QED
  BY <1>1, <1>3, <1>4, FinishRemovingStep

LEMMA CommitDeleteStep == ASSUME Inv, NEW r \in Requests, CommitDelete(r) PROVE Inv'
<1>1. r \in Busy
  BY DEF CommitDelete, Busy
<1>2. CASE granted = {}
  <2>1. /\ FinishRemoving(r, Members) /\ exists' = FALSE
        /\ role' = [u \in Users |-> "none"]
    BY <1>2 DEF CommitDelete
  <2>2. role' \in [Users -> Roles]
    BY <2>1 DEF Roles
  <2>3. TypeOK'
    BY <1>1, <2>1, <2>2, FinishRemovingType DEF CommitDelete, Inv, TypeOK
  <2>4. Members \ Members \subseteq Members'
    OBVIOUS
  <2>5. QED
    BY <1>1, <2>1, <2>3, <2>4, FinishRemovingStep
<1>3. CASE granted # {}
  <2>1. Crash(r)
    BY <1>1, <1>3 DEF CommitDelete, Crash, rows
  <2>2. QED
    BY <2>1, CrashStep
<1>4. QED
  BY <1>2, <1>3

LEMMA EraseStep == ASSUME Inv, NEW r \in Requests, Erase(r) PROVE Inv'
<1>1. r \in Busy /\ req[r].pc = "erase"
  BY DEF Erase, Busy
<1>2. CASE Consistent(req[r])
  <2>1. /\ FinishRemoving(r, {req[r].user}) /\ role' = Erased(req[r])
        /\ exists' \in BOOLEAN /\ users' \subseteq users /\ granted' \subseteq granted
        /\ linked' = linked
    BY <1>2 DEF Erase
  <2>2. role' \in [Users -> Roles]
    BY <2>1, RoleType DEF Erased, Roles, Ranks
  <2>3. Members \ {req[r].user} \subseteq Members'
    BY <2>1, RoleType DEF Members, Erased
  <2>4. TypeOK'
    BY <1>1, <2>1, <2>2, FinishRemovingType DEF Inv, TypeOK
  <2>5. QED
    BY <1>1, <2>1, <2>3, <2>4, FinishRemovingStep
<1>3. CASE ~Consistent(req[r])
  <2>1. Crash(r)
    BY <1>1, <1>3 DEF Erase, Crash, rows
  <2>2. QED
    BY <2>1, CrashStep
<1>4. QED
  BY <1>2, <1>3

LEMMA SetGrantStep == ASSUME Inv, NEW u \in Users, SetGrant(u) PROVE Inv'
<1>1. ASSUME NEW s \in Requests
      PROVE  /\ req[s] \in Request
             /\ req'[s] \in Request /\ ~(s \in Busy /\ req'[s].alone)
             /\ req'[s].pc = req[s].pc /\ req'[s].user = req[s].user
             /\ req'[s].heir = req[s].heir /\ req'[s].seen = req[s].seen
             /\ req'[s].gone = req[s].gone /\ req'[s].rank = req[s].rank
  <2>1. req[s] \in Request
    BY DEF Inv, TypeOK
  <2>2. req'[s] = IF s \in Busy THEN [req[s] EXCEPT !.alone = FALSE] ELSE req[s]
    BY DEF SetGrant
  <2>3. QED
    BY <2>1, <2>2 DEF Request
<1>2. TypeOK'
  <2>1. req' = [s \in Requests |-> req'[s]]
    BY DEF SetGrant
  <2>2. req' \in [Requests -> Request]
    BY <1>1, <2>1
  <2>3. QED
    BY <2>2 DEF SetGrant, Inv, TypeOK
<1>3. Busy' = Busy /\ Members' = Members
  BY <1>1 DEF SetGrant, Busy, Members
<1>4. HeldOrGone'
  <2>1. \A s \in Requests : Held(req'[s]) = Held(req[s])
    BY <1>1 DEF Held
  <2>2. \A x : Held(x)' = Held(x)
    BY DEF Held
  <2>3. QED
    BY <1>1, <1>3, <2>1, <2>2 DEF Inv, HeldOrGone
<1>5. HeirIsOther' /\ ConcernsUser'
  BY <1>1, <1>3 DEF Inv, HeirIsOther, ConcernsUser, Concerns, Busy
<1>6. LoneIsOnly' /\ LoneIsCurrent'
  BY <1>1, <1>3 DEF LoneIsOnly, LoneIsCurrent, Busy
<1>7. QED
  BY <1>2, <1>4, <1>5, <1>6 DEF Inv

LEMMA QuietStep ==
    ASSUME Inv, UNCHANGED <<exists, role, users, granted, req>>,
           linked' \subseteq Users
    PROVE  Inv'
<1>1. Busy' = Busy /\ Members' = Members /\ Owners' = Owners
  BY DEF Busy, Members, Owners
<1>2. \A x : Held(x)' = Held(x) /\ (Current(x)' <=> Current(x))
  BY <1>1 DEF Held, Current
<1>3. QED
  BY <1>1, <1>2 DEF Inv, TypeOK, HeldOrGone, HeirIsOther, LoneIsOnly,
     LoneIsCurrent, ConcernsUser, Concerns

LEMMA InvStep == Inv /\ [Next]_vars => Inv'
<1> SUFFICES ASSUME Inv, [Next]_vars PROVE Inv'
  OBVIOUS
<1>1. ASSUME NEW u \in Users, SendMagicLink(u) PROVE Inv'
  BY <1>1, QuietStep DEF SendMagicLink, Inv, TypeOK
<1>2. CASE UNCHANGED vars
  BY <1>2, QuietStep DEF vars, rows, Inv, TypeOK
<1>3. ASSUME NEW r \in Requests,
             \/ LookAdd(r) \/ CommitAdd(r) \/ LookRemove(r) \/ CommitRemove(r)
             \/ CommitDelete(r) \/ Load(r) \/ Walk(r) \/ Erase(r) \/ Crash(r)
      PROVE  Inv'
  BY <1>3, LookAddStep, CommitAddStep, LookRemoveStep, CommitRemoveStep,
     CommitDeleteStep, LoadStep, WalkStep, EraseStep, CrashStep
<1>4. ASSUME NEW r \in Requests, NEW a \in Users, NEW t \in Users,
             BeginRemove(r, a, t) \/ \E rank \in Ranks : BeginAdd(r, a, t, rank)
      PROVE  Inv'
  BY <1>4, BeginRemoveStep, BeginAddStep
<1>5. ASSUME NEW r \in Requests, NEW a \in Users, BeginDelete(r, a) \/ Announce(r, a)
      PROVE  Inv'
  BY <1>5, BeginDeleteStep, AnnounceStep
<1>6. QED
  BY <1>1, <1>2, <1>3, <1>4, <1>5, SetGrantStep DEF Next

LEMMA InvAlways == Spec => []Inv
<1>1. Init => Inv
  <2> SUFFICES ASSUME Init PROVE Inv
    OBVIOUS
  <2>1. role \in [Users -> Roles]
    BY DEF Init, Roles, Ranks
  <2>2. \A r \in Requests : req[r] = Idle
    BY DEF Init
  <2>3. TypeOK
    BY <2>1, IdleType DEF Init, TypeOK
  <2>4. Busy = {}
    BY <2>2, IdleType DEF Busy
  <2>5. HeldOrGone /\ HeirIsOther
    BY <2>2, IdleType DEF HeldOrGone, HeirIsOther
  <2>6. QED
    BY <2>3, <2>4, <2>5 DEF Inv, LoneIsOnly, LoneIsCurrent, ConcernsUser
<1>2. QED
  BY <1>1, InvStep, PTL DEF Spec

-----------------------------------------------------------------------------
(* The theorems. *)

(* Every reachable state of orgs, memberships and requests is well typed. *)
THEOREM TypeCorrect == Spec => []TypeOK
<1>1. Inv => TypeOK
  BY DEF Inv
<1>2. QED
  BY <1>1, InvAlways, PTL

LEMMA EndsHere ==
    ASSUME Inv, NEW r \in Busy, Finish(r) \/ \E lost : FinishRemoving(r, lost)
    PROVE  r \in Requests /\ Ends(r)
<1>1. r \in Requests /\ req'[r] = Idle
  BY DEF Busy, Finish, FinishRemoving, Inv, TypeOK
<1>2. QED
  BY <1>1, IdleType DEF Ends

(* The only steps that write memberships or organisation. *)
LEMMA WritingStep ==
    ASSUME Inv, [Next]_vars, exists' # exists \/ role' # role
    PROVE  \E r \in Busy : Ends(r) /\ (\/ CommitAdd(r) \/ CommitRemove(r)
                                       \/ CommitDelete(r)
                                       \/ Erase(r) /\ Consistent(req[r]))
<1>1. PICK r \in Requests : \/ CommitAdd(r) \/ CommitRemove(r) \/ CommitDelete(r)
                            \/ Erase(r) /\ Consistent(req[r])
  BY DEF Next, vars, rows, SetGrant, SendMagicLink, BeginRemove, BeginAdd,
     BeginDelete, Announce, EnterManager, LookAdd, LookRemove, Load, Walk,
     Erase, Crash
<1>2. r \in Busy
  BY <1>1 DEF CommitAdd, CommitRemove, CommitDelete, Erase, Busy
<1>3. Finish(r) \/ \E lost : FinishRemoving(r, lost)
  BY <1>1 DEF CommitAdd, CommitRemove, CommitDelete, Erase
<1>4. QED
  BY <1>1, <1>2, <1>3, EndsHere

(* A removal that nothing overlapped leaves an owner. *)
LEMMA LoneRemovalLeavesOwner ==
    ASSUME Inv, NEW r \in Busy, CommitRemove(r), req[r].alone, Owners # {}
    PROVE  Owners' # {}
<1> DEFINE u == req[r].user
<1>1. /\ req[r].pc = "removing" /\ u \in Users
      /\ req[r].gone = {} /\ req[r].seen = role[u]
      /\ role[u] = "owner" => Cardinality(Owners) > 1
  BY HeldRow DEF CommitRemove, Current
<1>2. Owners \ {u} \subseteq Owners'
  BY <1>1 DEF CommitRemove, Owners
<1>3. Owners \ {u} # {}
  <2>1. CASE role[u] = "owner"
    <3> SUFFICES ASSUME Owners \subseteq {u} PROVE FALSE
      OBVIOUS
    <3>1. Owners = {u} /\ Cardinality(Owners) > 1
      BY <1>1, <2>1 DEF Owners
    <3>2. Cardinality({u}) = 1
      BY FS_Singleton
    <3>3. QED
      BY <3>1, <3>2
  <2>2. CASE role[u] # "owner"
    BY <2>2 DEF Owners
  <2>3. QED
    BY <2>1, <2>2
<1>4. QED
  BY <1>2, <1>3

(* Nor does the deletion of an account take the last, with no heir in sight.*)
LEMMA LoneErasureLeavesOwner ==
    ASSUME Inv, NEW r \in Busy, Erase(r), Consistent(req[r]), req[r].alone,
           Owners # {}, exists'
    PROVE  Owners' # {}
<1> DEFINE u == req[r].user  heir == req[r].heir
<1>1. /\ req[r].pc = "erase" /\ ~req[r].orphan
      /\ role' = Erased(req[r])
  BY DEF Erase
<1>2. /\ req[r].gone = {} /\ req[r].seen = role[u]
      /\ heir = NoUser /\ req[r].seen = "owner" => Owners \ {u} # {}
      /\ heir # NoUser => heir # u /\ heir \in Members
      /\ heir \in Users \union {NoUser}
  BY <1>1, HeldRow, RecordType DEF Current, Held
<1>3. CASE heir # NoUser
  <2>1. heir \in Users /\ role'[heir] = "owner"
    BY <1>1, <1>2, <1>3 DEF Erased
  <2>2. QED
    BY <2>1 DEF Owners
<1>4. CASE heir = NoUser
  <2>1. Owners \ {u} # {}
    BY <1>2, <1>4 DEF Owners
  <2>2. Owners \ {u} \subseteq Owners'
    BY <1>1, <1>4 DEF Owners, Erased
  <2>3. QED
    BY <2>1, <2>2
<1>5. QED
  BY <1>3, <1>4

(* remove_member and the walk of delete_user_data keep an owner, unless     *)
(* another request overlapped; a manager may still demote the last one.     *)
THEOREM LastOwnerHolds == Spec => LastOwnerStays
<1>1. Inv /\ [Next]_vars
        => [exists' /\ Owners # {} /\ Owners' = {} =>
              \E r \in Requests :
                 Ends(r) /\ (req[r].pc = "adding" \/ ~req[r].alone)]_vars
  <2> SUFFICES ASSUME Inv, [Next]_vars, exists', Owners # {}, Owners' = {}
               PROVE  \E r \in Requests :
                         Ends(r) /\ (req[r].pc = "adding" \/ ~req[r].alone)
    OBVIOUS
  <2>1. role' # role
    BY DEF Owners
  <2>2. PICK r \in Busy :
           Ends(r) /\ (\/ CommitAdd(r) \/ CommitRemove(r) \/ CommitDelete(r)
                       \/ Erase(r) /\ Consistent(req[r]))
    BY <2>1, WritingStep
  <2>3. r \in Requests
    BY DEF Busy
  <2>4. ~CommitDelete(r)
    BY <2>1 DEF CommitDelete
  <2>5. CASE CommitAdd(r)
    BY <2>2, <2>3, <2>5 DEF CommitAdd
  <2>6. CASE CommitRemove(r)
    BY <2>2, <2>3, <2>6, LoneRemovalLeavesOwner
  <2>7. CASE Erase(r) /\ Consistent(req[r])
    BY <2>2, <2>3, <2>7, LoneErasureLeavesOwner
  <2>8. QED
    BY <2>2, <2>4, <2>5, <2>6, <2>7
<1>2. QED
  BY <1>1, InvAlways, PTL DEF Spec, LastOwnerStays

(* The organisation goes by delete_org, or with the account of its only     *)
(* member: delete_user_data takes nobody else's.                            *)
THEOREM OnlyOwnOrganisationGoes == Spec => NobodyIsDispossessed
<1>1. Inv /\ [Next]_vars
        => [exists /\ ~exists' =>
              \/ \E r \in Requests : Ends(r) /\ req[r].pc = "delete"
              \/ \E u \in Users \ users' : Members \subseteq {u}]_vars
  <2> SUFFICES ASSUME Inv, [Next]_vars, exists, ~exists'
               PROVE  \/ \E r \in Requests : Ends(r) /\ req[r].pc = "delete"
                      \/ \E u \in Users \ users' : Members \subseteq {u}
    OBVIOUS
  <2>1. PICK r \in Busy :
           Ends(r) /\ (\/ CommitAdd(r) \/ CommitRemove(r) \/ CommitDelete(r)
                       \/ Erase(r) /\ Consistent(req[r]))
    BY WritingStep
  <2>2. r \in Requests
    BY DEF Busy
  <2>3. CASE CommitDelete(r)
    BY <2>1, <2>2, <2>3 DEF CommitDelete
  <2>4. CASE Erase(r) /\ Consistent(req[r])
    <3>1. /\ req[r].user \in Users \ users'
          /\ Members \subseteq {req[r].user}
      BY <2>4, HeldRow DEF Erase, Consistent
    <3>2. QED
      BY <3>1
  <2>5. QED
    BY <2>1, <2>3, <2>4 DEF CommitAdd, CommitRemove
<1>2. QED
  BY <1>1, InvAlways, PTL DEF Spec, NobodyIsDispossessed

(* Whoever joins the organisation is inserted by an add_member that found   *)
(* no membership: neither its UPDATE nor the promotion of an heir revives   *)
(* one that was removed.                                                    *)
THEOREM RemovalIsFinal == Spec => RemovalSticks
<1>1. Inv /\ [Next]_vars
        => [\A u \in Users : role[u] = "none" /\ role'[u] # "none" =>
              \E r \in Requests :
                 /\ Ends(r)
                 /\ req[r].pc = "adding" /\ req[r].user = u /\ req[r].seen = "none"]_vars
  <2> SUFFICES ASSUME Inv, [Next]_vars, NEW u \in Users,
                      role[u] = "none", role'[u] # "none"
               PROVE  \E r \in Requests :
                         /\ Ends(r)
                         /\ req[r].pc = "adding" /\ req[r].user = u /\ req[r].seen = "none"
    OBVIOUS
  <2>1. PICK r \in Busy :
           Ends(r) /\ (\/ CommitAdd(r) \/ CommitRemove(r) \/ CommitDelete(r)
                       \/ Erase(r) /\ Consistent(req[r]))
    BY WritingStep
  <2>2. r \in Requests /\ Held(req[r]) \ req[r].gone \subseteq Members
    BY HeldRow
  <2>3. u \notin Members
    BY DEF Members
  <2>4. CASE CommitAdd(r)
    <3>1. req[r].pc = "adding" /\ req[r].user = u
      BY <2>4, RoleType DEF CommitAdd
    <3>2. req[r].seen = "none" \/ u \notin req[r].gone
      BY <2>4, <3>1, RoleType DEF CommitAdd
    <3>3. req[r].seen = "none"
      BY <2>2, <2>3, <3>1, <3>2 DEF Held
    <3>4. QED
      BY <2>1, <2>2, <3>1, <3>3
  <2>5. CASE Erase(r) /\ Consistent(req[r])
    <3>1. u = req[r].heir /\ u \notin req[r].gone
      BY <2>5 DEF Erase, Erased, Consistent
    <3>2. u \in Held(req[r])
      BY <3>1 DEF Held
    <3>3. QED
      BY <2>2, <2>3, <3>1, <3>2
  <2>6. QED
    BY <2>1, <2>4, <2>5 DEF CommitRemove, CommitDelete
<1>2. QED
  BY <1>1, InvAlways, PTL DEF Spec, RemovalSticks

(* When delete_user_data, not overlapped, fails at its commit, a            *)
(* magic_link_tokens row refers to the account or the grant of another one  *)
(* to the organisation it would take along.                                 *)
THEOREM RefusalHasCause == Spec => RefusedForCause
<1>1. Inv /\ [Next]_vars
        => [\A r \in Requests :
              Erase(r) /\ req[r].alone /\ users' = users =>
                 \/ req[r].user \in linked
                 \/ Members = {req[r].user} /\ granted \ {req[r].user} # {}]_vars
  <2> SUFFICES ASSUME Inv, NEW r \in Requests, Erase(r), req[r].alone,
                      users' = users
               PROVE  \/ req[r].user \in linked
                      \/ /\ Members = {req[r].user}
                         /\ granted \ {req[r].user} # {}
    OBVIOUS
  <2>1. r \in Busy /\ req[r].pc = "erase"
    BY DEF Erase, Busy
  <2>2. Current(req[r]) /\ req[r].user \in Users /\ (req[r].heir # NoUser => req[r].gone = {})
    BY <2>1, HeldRow DEF Current
  <2>3. ~Consistent(req[r])
    BY <2>1, <2>2 DEF Erase, Current
  <2>4. QED
    BY <2>1, <2>2, <2>3 DEF Consistent, Current, Members
<1>2. QED
  BY <1>1, InvAlways, PTL DEF Spec, RefusedForCause
=============================================================================
