--------------------------- MODULE SessionsProofs ---------------------------
(* Theorems about Sessions, for every set of tokens and worker slots.       *)
EXTENDS Sessions, TLAPS

USE SlotsAssumption, NoTokenAssumption, MaxVersionAssumption

(* The record a request ends with, and the records it can start with, are   *)
(* of the right type.                                                       *)
LEMMA IdleType == Idle \in Request
BY DEF Idle, Request, Kinds, Pcs

LEMMA StartType ==
    ASSUME TypeOK, NEW r \in Requests, NEW new \in Request, Start(r, new)
    PROVE  req' \in [Requests -> Request]
<1>1. \A q \in Request : Disturbed(q) \in Request
  BY DEF Disturbed, Request
<1>2. QED
  BY <1>1 DEF Start, TypeOK

LEMMA SignInType ==
    ASSUME TypeOK, NEW kind \in Kinds, NEW pc \in Pcs
    PROVE  SignIn(kind, pc) \in Request
BY DEF SignIn, Idle, Request, TypeOK, Kinds, Pcs

(* Assigning well-typed values to the fields of a request. *)
LEMMA PcVerType ==
    ASSUME NEW q \in Request, NEW pc \in Pcs, NEW n \in Nat
    PROVE  [q EXCEPT !.pc = pc, !.ver = n] \in Request
BY DEF Request

LEMMA PcSeenType ==
    ASSUME NEW q \in Request, NEW pc \in Pcs, NEW S \in SUBSET Tokens
    PROVE  [q EXCEPT !.pc = pc, !.seen = S] \in Request
BY DEF Request

LEMMA VerEpochSoundType ==
    ASSUME NEW q \in Request, NEW n \in Nat, NEW e \in Nat, NEW b \in BOOLEAN
    PROVE  [q EXCEPT !.ver = n, !.epoch = e, !.sound = b] \in Request
BY DEF Request

LEMMA TokenEpochSoundType ==
    ASSUME NEW q \in Request, NEW t \in Tokens, NEW e \in Nat,
           NEW b \in BOOLEAN
    PROVE  [q EXCEPT !.token = t, !.epoch = e, !.sound = b] \in Request
BY DEF Request

LEMMA BecomeType ==
    ASSUME TypeOK, NEW r \in Requests, NEW q \in Request, Become(r, q)
    PROVE  req' \in [Requests -> Request]
BY DEF Become, TypeOK

LEMMA RevokeType ==
    ASSUME TypeOK, NEW t, row' = [row EXCEPT ![t].status = "revoked"]
    PROVE  row' \in [Tokens -> Row]
<1>1. \A u \in Tokens : row'[u] \in Row
  BY DEF TypeOK, Row
<1>2. QED
  BY <1>1 DEF TypeOK

(* Every variable keeps its type. *)
LEMMA TypeStep == TypeOK /\ [Next]_vars => TypeOK'
<1> SUFFICES ASSUME TypeOK, [Next]_vars PROVE TypeOK'
  OBVIOUS
<1>1. ASSUME NEW r \in Requests, Step(r) PROVE TypeOK'
  <2>1. CASE BeginLogin(r)
    <3>1. SignIn("login", "verified") \in Request
      BY SignInType DEF Kinds, Issuing, Pcs
    <3>2. QED
      BY <2>1, <3>1, StartType DEF BeginLogin, UserUnchanged, TypeOK
  <2>2. CASE LoginCommit(r)
    <3>1. [req[r] EXCEPT !.pc = "issue"] \in Request
      BY DEF TypeOK, Request, Pcs
    <3>2. QED
      BY <2>2, <3>1, IdleType, BecomeType
         DEF LoginCommit, UserUnchanged, TypeOK
  <2>3. CASE BeginMagic(r)
    <3>1. SignIn("magic", "consume") \in Request
      BY SignInType DEF Kinds, Issuing, Pcs
    <3>2. QED
      BY <2>3, <3>1, StartType DEF BeginMagic, UserUnchanged, TypeOK
  <2>4. CASE MagicCommit(r)
    <3>1. [req[r] EXCEPT !.pc = "insert", !.ver = tokenVersion] \in Request
      BY PcVerType DEF TypeOK, Pcs
    <3>2. QED
      BY <2>4, <3>1, BecomeType DEF MagicCommit, UserUnchanged, TypeOK
  <2>5. CASE BeginOAuth(r)
    <3>1. [SignIn("oauth", "insert") EXCEPT !.ver = tokenVersion] \in Request
      BY SignInType DEF Kinds, Issuing, Pcs, TypeOK, Request
    <3>2. QED
      BY <2>5, <3>1, StartType DEF BeginOAuth, UserUnchanged, TypeOK
  <2>6. ASSUME NEW t \in Tokens, BeginSwitch(r, t) PROVE TypeOK'
    <3>1. [SignIn("switch", "insert") EXCEPT
             !.ver = tokenVersion, !.epoch = row[t].epoch, !.sound = FALSE]
          \in Request
      <4>1. SignIn("switch", "insert") \in Request
        BY SignInType DEF Kinds, Issuing, Pcs
      <4>2. tokenVersion \in Nat /\ row[t].epoch \in Nat
        BY DEF TypeOK, Row
      <4>3. QED
        BY <4>1, <4>2, VerEpochSoundType
    <3>2. QED
      BY <2>6, <3>1, StartType DEF BeginSwitch, UserUnchanged, TypeOK
  <2>7. ASSUME NEW t \in Tokens, BeginRotate(r, t) PROVE TypeOK'
    <3>1. [SignIn("rotate", "row_read") EXCEPT
             !.token = t, !.epoch = row[t].epoch, !.sound = row[t].sound]
          \in Request
      <4>1. SignIn("rotate", "row_read") \in Request
        BY SignInType DEF Kinds, Issuing, Pcs
      <4>2. row[t].epoch \in Nat /\ row[t].sound \in BOOLEAN
        BY DEF TypeOK, Row
      <4>3. QED
        BY <4>1, <4>2, TokenEpochSoundType
    <3>2. QED
      BY <2>7, <3>1, StartType DEF BeginRotate, UserUnchanged, TypeOK
  <2>8. CASE RotateCheck(r)
    <3>1. [req[r] EXCEPT !.pc = "consume"] \in Request
      BY DEF TypeOK, Request, Pcs
    <3>2. QED
      BY <2>8, <3>1, IdleType, BecomeType
         DEF RotateCheck, UserUnchanged, TypeOK
  <2>9. CASE RotateConsume(r)
    <3>1. [req[r] EXCEPT !.pc = "issue"] \in Request
      BY DEF TypeOK, Request, Pcs
    <3>2. row' \in [Tokens -> Row]
      BY <2>9, RevokeType DEF RotateConsume
    <3>3. QED
      BY <2>9, <3>1, <3>2, BecomeType DEF RotateConsume, UserUnchanged, TypeOK
  <2>10. CASE IssueRead(r)
    <3>1. [req[r] EXCEPT !.pc = "insert", !.ver = tokenVersion] \in Request
      BY PcVerType DEF TypeOK, Pcs
    <3>2. QED
      BY <2>10, <3>1, BecomeType DEF IssueRead, UserUnchanged, TypeOK
  <2>11. ASSUME NEW t \in Tokens, IssueCommit(r, t) PROVE TypeOK'
    <3>1. req[r] \in Request
      BY DEF TypeOK
    <3>2. [status |-> "live", ver |-> req[r].ver,
           oauth |-> req[r].kind = "oauth",
           parent |-> req[r].token, epoch |-> req[r].epoch,
           calm |-> req[r].calm, sound |-> req[r].sound] \in Row
      BY <3>1 DEF Row, Request
    <3>3. QED
      BY <2>11, <3>2, IdleType, BecomeType
         DEF IssueCommit, Finish, UserUnchanged, TypeOK
  <2>12. ASSUME NEW t \in Tokens, BeginRevokeOne(r, t) PROVE TypeOK'
    <3>1. [Idle EXCEPT !.kind = "revoke_one", !.pc = "mark", !.token = t]
            \in Request
      BY DEF Idle, Request, Kinds, Pcs
    <3>2. QED
      BY <2>12, <3>1, StartType DEF BeginRevokeOne, UserUnchanged, TypeOK
  <2>13. CASE MarkRevoked(r)
    <3>1. row' \in [Tokens -> Row]
      BY <2>13, RevokeType DEF MarkRevoked
    <3>2. QED
      BY <2>13, <3>1, IdleType, BecomeType
         DEF MarkRevoked, Finish, UserUnchanged, TypeOK
  <2>14. ASSUME NEW kind \in AccountWide, NEW pc \in Pcs,
                BeginAccountWide(r, kind, pc)
         PROVE  TypeOK'
    <3>1. [Idle EXCEPT !.kind = kind, !.pc = pc, !.ver = tokenVersion,
                       !.wasActive = isActive, !.wasDeleted = deletedAt]
            \in Request
      BY DEF Idle, Request, Kinds, TypeOK
    <3>2. QED
      BY <2>14, <3>1, StartType DEF BeginAccountWide, UserUnchanged, TypeOK
  <2>15. CASE LoadRows(r)
    <3>1. [req[r] EXCEPT !.pc = "commit", !.seen = {t \in Tokens : Live(t)}]
            \in Request
      BY PcSeenType DEF TypeOK, Pcs
    <3>2. QED
      BY <2>15, <3>1, BecomeType DEF LoadRows, UserUnchanged, TypeOK
  <2>16. CASE AccountWideCommit(r)
    <3>1. row' \in [Tokens -> Row]
      BY <2>16 DEF AccountWideCommit, TypeOK, Row
    <3>2. req[r] \in Request /\ req' \in [Requests -> Request]
      BY <2>16, IdleType, BecomeType DEF AccountWideCommit, Finish, TypeOK
    <3>3. isActive' \in BOOLEAN /\ deletedAt' \in BOOLEAN
      BY <2>16 DEF AccountWideCommit, SetActiveColumns, TypeOK
    <3>4. tokenVersion' \in Nat /\ revocations' \in Nat
      BY <2>16, <3>2 DEF AccountWideCommit, TypeOK, Request
    <3>5. QED
      BY <2>16, <3>1, <3>2, <3>3, <3>4 DEF AccountWideCommit, TypeOK
  <2>17. CASE Crash(r)
    BY <2>17, IdleType, BecomeType DEF Crash, Finish, UserUnchanged, TypeOK
  <2>18. QED
    BY <1>1, <2>1, <2>2, <2>3, <2>4, <2>5, <2>6, <2>7, <2>8, <2>9, <2>10,
       <2>11, <2>12, <2>13, <2>14, <2>15, <2>16, <2>17
       DEF Step, BeginLogout, BeginRevokeSession, BeginSuspend, BeginActivate,
           BeginReset, BeginRevokeAll, AccountWide, AllRowsRevoking, Pcs
<1>2. CASE UNCHANGED vars
  BY <1>2 DEF vars, TypeOK
<1>3. QED
  BY <1>1, <1>2 DEF Next

(* Every variable of Sessions always has its type, whatever the             *)
(* interleaving of requests.                                                *)
THEOREM TypeCorrect == Spec => []TypeOK
<1>1. Init => TypeOK
  <2>1. Unissued \in Row
    BY DEF Unissued, Row
  <2> SUFFICES ASSUME Init PROVE TypeOK
    OBVIOUS
  <2>2. row \in [Tokens -> Row]
    BY <2>1 DEF Init
  <2>3. req \in [Requests -> Request]
    BY IdleType DEF Init
  <2>4. QED
    BY <2>2, <2>3 DEF Init, TypeOK
<1>2. QED
  BY <1>1, TypeStep, PTL DEF Spec

-----------------------------------------------------------------------------
(* The two fences. *)

USE DEF Issuing, AllRowsRevoking, AccountWide, At, UserUnchanged

(* A request starts: it disturbs, or is disturbed by, those it conflicts    *)
(* with, so what it relies on holds of it.                                  *)
LEMMA StartFence ==
    ASSUME TypeOK, FenceInv, NEW r \in Requests, NEW new \in Request,
           Start(r, new), UserUnchanged, row' = row,
           new.sound => new.calm,
           new.calm /\ Checked(new) => isActive,
           new.kind \in Issuing /\ new.sound => new.epoch = revocations,
           ~(new.kind \in AllRowsRevoking /\ new.pc = "commit")
    PROVE  FenceInv'
<1>1. ASSUME NEW q \in Requests, q # r
      PROVE  /\ req'[q].kind = req[q].kind /\ req'[q].pc = req[q].pc
             /\ req'[q].epoch = req[q].epoch /\ req'[q].seen = req[q].seen
             /\ req'[q].calm => req[q].calm /\ ~Conflict(req[q], new)
             /\ req'[q].sound => req[q].sound /\ req'[q].calm
  <2>1. req'[q] = IF Conflict(req[q], new) THEN Disturbed(req[q]) ELSE req[q]
    BY <1>1 DEF Start, TypeOK
  <2>2. req[q] \in Request
    BY DEF TypeOK
  <2>3. CASE Conflict(req[q], new)
    <3>1. req'[q] = [req[q] EXCEPT !.calm = FALSE, !.sound = FALSE]
      BY <2>1, <2>3 DEF Disturbed
    <3>2. QED
      BY <2>2, <3>1 DEF Request
  <2>4. CASE ~Conflict(req[q], new)
    BY <2>1, <2>4 DEF FenceInv, SoundIsCalm
  <2>5. QED
    BY <2>3, <2>4
<1>2. /\ req'[r].kind = new.kind /\ req'[r].pc = new.pc
      /\ req'[r].epoch = new.epoch /\ req'[r].seen = new.seen
      /\ req'[r].calm => new.calm /\ \A p \in Requests : ~Conflict(new, req[p])
      /\ req'[r].sound => new.sound /\ req'[r].calm
  <2>1. req'[r] = IF \E p \in Requests : Conflict(new, req[p])
                  THEN Disturbed(new) ELSE new
    BY DEF Start, TypeOK
  <2>2. QED
    BY <2>1 DEF Disturbed, Request
<1>3. CalmIsAlone'
  <2> SUFFICES ASSUME NEW a \in Requests, NEW p \in Requests,
                      req'[a].kind \in Issuing, req'[a].calm
               PROVE  req'[p].kind \notin AccountWide
    BY DEF CalmIsAlone
  <2>1. CASE a # r /\ p # r
    BY <2>1, <1>1 DEF FenceInv, CalmIsAlone
  <2>2. CASE a # r /\ p = r
    BY <2>2, <1>1, <1>2 DEF Conflict
  <2>3. CASE a = r /\ p # r
    BY <2>3, <1>1, <1>2 DEF Conflict
  <2>4. CASE a = r /\ p = r
    BY <2>4
  <2>5. QED
    BY <2>1, <2>2, <2>3, <2>4
<1>4. SoundIsCalm'
  BY <1>1, <1>2 DEF FenceInv, SoundIsCalm
<1>5. CheckedIsActive'
  BY <1>1, <1>2 DEF FenceInv, CheckedIsActive, Checked
<1>6. SoundIsCurrent'
  BY <1>1, <1>2 DEF FenceInv, SoundIsCurrent
<1>7. LoadedCoversCalm'
  BY <1>1, <1>2 DEF FenceInv, LoadedCoversCalm, Live
<1>8. SuspensionFence' /\ RevocationFence'
  BY DEF FenceInv, SuspensionFence, RevocationFence, Live
<1>9. QED
  BY <1>3, <1>4, <1>5, <1>6, <1>7, <1>8 DEF FenceInv

(* A request moves on, or ends, without touching the account; rows may be   *)
(* revoked, never issued or otherwise changed.                              *)
LEMMA BecomeFence ==
    ASSUME TypeOK, FenceInv, NEW r \in Requests, NEW q \in Request,
           Become(r, q), UserUnchanged,
           \A t \in Tokens :
              /\ row'[t].calm = row[t].calm /\ row'[t].sound = row[t].sound
              /\ row'[t].oauth = row[t].oauth /\ row'[t].epoch = row[t].epoch
              /\ row'[t].status = "live" => row[t].status = "live",
           \/ q = Idle
           \/ /\ q.kind = req[r].kind /\ q.epoch = req[r].epoch
              /\ q.calm = req[r].calm /\ q.sound = req[r].sound
              /\ q.calm /\ Checked(q) => isActive
              /\ q.kind \in AllRowsRevoking /\ q.pc = "commit"
                   => \A t \in Tokens : Live(t) => t \in q.seen
    PROVE  FenceInv'
<1>1. req' \in [Requests -> Request]
  BY BecomeType
<1>2. req'[r] = q /\ \A p \in Requests : p # r => req'[p] = req[p]
  BY DEF Become, TypeOK
<1>3. Idle.kind = "none" /\ ~Idle.calm /\ ~Idle.sound
  BY DEF Idle
<1>4. CalmIsAlone'
  BY <1>2, <1>3 DEF FenceInv, CalmIsAlone
<1>5. SoundIsCalm'
  BY <1>2, <1>3 DEF FenceInv, SoundIsCalm
<1>6. CheckedIsActive'
  BY <1>2, <1>3 DEF FenceInv, CheckedIsActive
<1>7. SoundIsCurrent'
  BY <1>2, <1>3 DEF FenceInv, SoundIsCurrent
<1>8. LoadedCoversCalm'
  BY <1>2, <1>3 DEF FenceInv, LoadedCoversCalm, Live
<1>9. SuspensionFence' /\ RevocationFence'
  BY DEF FenceInv, SuspensionFence, RevocationFence, Live
<1>10. QED
  BY <1>4, <1>5, <1>6, <1>7, <1>8, <1>9 DEF FenceInv

LEMMA RevokedRows ==
    ASSUME TypeOK, NEW t \in Tokens, row' = [row EXCEPT ![t].status = "revoked"]
    PROVE  \A u \in Tokens :
              /\ row'[u].calm = row[u].calm /\ row'[u].sound = row[u].sound
              /\ row'[u].oauth = row[u].oauth /\ row'[u].epoch = row[u].epoch
              /\ row'[u].status = "live" => row[u].status = "live"
BY DEF TypeOK, Row

(* The requests that only read, check or mark rows revoked. *)
LEMMA StartStep ==
    ASSUME TypeOK, FenceInv, NEW r \in Requests,
           \/ BeginLogin(r) \/ BeginMagic(r) \/ BeginOAuth(r)
           \/ \E t \in Tokens :
                BeginSwitch(r, t) \/ BeginRotate(r, t) \/ BeginRevokeOne(r, t)
           \/ BeginAccountWide(r, "activate", "commit")
           \/ \E kind \in AllRowsRevoking : BeginAccountWide(r, kind, "load")
    PROVE  FenceInv'
<1>1. CASE BeginLogin(r)
  <2> DEFINE new == SignIn("login", "verified")
  <2>1. new \in Request
    BY SignInType DEF Kinds, Pcs
  <2>2. new.kind = "login" /\ new.pc = "verified" /\ new.epoch = revocations
        /\ new.calm
    BY DEF SignIn, Idle
  <2> HIDE DEF new
  <2>3. QED
    BY <1>1, <2>1, <2>2, StartFence DEF BeginLogin, Checked, new
<1>2. CASE BeginMagic(r)
  <2> DEFINE new == SignIn("magic", "consume")
  <2>1. new \in Request
    BY SignInType DEF Kinds, Pcs
  <2>2. new.kind = "magic" /\ new.epoch = revocations /\ new.calm /\ new.seen = {}
    BY DEF SignIn, Idle
  <2> HIDE DEF new
  <2>3. QED
    BY <1>2, <2>1, <2>2, StartFence DEF BeginMagic, new
<1>3. CASE BeginOAuth(r)
  <2> DEFINE new == [SignIn("oauth", "insert") EXCEPT !.ver = tokenVersion]
  <2>1. new \in Request
    <3>1. SignIn("oauth", "insert") \in Request
      BY SignInType DEF Kinds, Pcs
    <3>2. tokenVersion \in Nat
      BY DEF TypeOK
    <3>3. QED
      BY <3>1, <3>2 DEF Request
  <2>2. new.kind = "oauth" /\ new.epoch = revocations /\ new.calm /\ new.seen = {}
    BY DEF SignIn, Idle
  <2> HIDE DEF new
  <2>3. QED
    BY <1>3, <2>1, <2>2, StartFence DEF BeginOAuth, Checked, new
<1>4. ASSUME NEW t \in Tokens, BeginSwitch(r, t) PROVE FenceInv'
  <2> DEFINE new == [SignIn("switch", "insert") EXCEPT
                       !.ver = tokenVersion, !.epoch = row[t].epoch,
                       !.sound = FALSE]
  <2>1. new \in Request
    <3>1. SignIn("switch", "insert") \in Request
      BY SignInType DEF Kinds, Pcs
    <3>2. tokenVersion \in Nat /\ row[t].epoch \in Nat
      BY DEF TypeOK, Row
    <3>3. QED
      BY <3>1, <3>2, VerEpochSoundType
  <2>2. new.kind = "switch" /\ ~new.sound /\ new.seen = {}
    BY DEF SignIn, Idle
  <2> HIDE DEF new
  <2>3. QED
    BY <1>4, <2>1, <2>2, StartFence DEF BeginSwitch, SignedIn, new
<1>5. ASSUME NEW t \in Tokens, BeginRotate(r, t) PROVE FenceInv'
  <2> DEFINE new == [SignIn("rotate", "row_read") EXCEPT
                       !.token = t, !.epoch = row[t].epoch,
                       !.sound = row[t].sound]
  <2>1. new \in Request
    <3>1. SignIn("rotate", "row_read") \in Request
      BY SignInType DEF Kinds, Pcs
    <3>2. row[t].epoch \in Nat /\ row[t].sound \in BOOLEAN
      BY DEF TypeOK, Row
    <3>3. QED
      BY <3>1, <3>2, TokenEpochSoundType
  <2>2. new.kind = "rotate" /\ new.pc = "row_read" /\ new.calm
        /\ new.epoch = row[t].epoch /\ new.sound = row[t].sound
    BY DEF SignIn, Idle
  <2> HIDE DEF new
  <2>3. new.sound => new.epoch = revocations
    BY <1>5, <2>2 DEF BeginRotate, FenceInv, RevocationFence
  <2>4. QED
    BY <1>5, <2>1, <2>2, <2>3, StartFence DEF BeginRotate, Checked, new
<1>6. ASSUME NEW t \in Tokens, BeginRevokeOne(r, t) PROVE FenceInv'
  <2> DEFINE new == [Idle EXCEPT !.kind = "revoke_one", !.pc = "mark",
                                 !.token = t]
  <2>1. new \in Request
    BY DEF Idle, Request, Kinds, Pcs
  <2>2. new.kind = "revoke_one" /\ ~new.calm /\ ~new.sound
    BY DEF Idle
  <2> HIDE DEF new
  <2>3. QED
    BY <1>6, <2>1, <2>2, StartFence DEF BeginRevokeOne, new
<1>7. ASSUME NEW kind \in AccountWide, NEW pc \in Pcs,
             BeginAccountWide(r, kind, pc),
             kind \in AllRowsRevoking => pc = "load"
      PROVE  FenceInv'
  <2> DEFINE new == [Idle EXCEPT
                       !.kind = kind, !.pc = pc, !.ver = tokenVersion,
                       !.wasActive = isActive, !.wasDeleted = deletedAt]
  <2>1. new \in Request
    BY DEF Idle, Request, Kinds, TypeOK
  <2>2. new.kind = kind /\ new.pc = pc /\ ~new.calm /\ ~new.sound
    BY DEF Idle
  <2> HIDE DEF new
  <2>3. QED
    BY <1>7, <2>1, <2>2, StartFence DEF BeginAccountWide, new
<1>8. QED
  BY <1>1, <1>2, <1>3, <1>4, <1>5, <1>6, <1>7 DEF Pcs

(* The commits, and the reads and checks between them. *)
LEMMA ContinueStep ==
    ASSUME TypeOK, FenceInv, NEW r \in Requests,
           \/ LoginCommit(r) \/ MagicCommit(r) \/ RotateCheck(r)
           \/ RotateConsume(r) \/ IssueRead(r) \/ MarkRevoked(r)
           \/ LoadRows(r) \/ Crash(r)
    PROVE  FenceInv'
<1>1. req[r] \in Request /\ tokenVersion \in Nat
  BY DEF TypeOK
<1>2. CASE LoginCommit(r)
  <2> DEFINE q == IF isActive THEN [req[r] EXCEPT !.pc = "issue"] ELSE Idle
  <2>1. q \in Request
    BY <1>1, IdleType DEF Request, Pcs
  <2>2. q = Idle \/ /\ isActive /\ q.kind = "login" /\ req[r].kind = "login"
                    /\ q.epoch = req[r].epoch
                    /\ q.calm = req[r].calm /\ q.sound = req[r].sound
    BY <1>1, <1>2 DEF LoginCommit, Request
  <2> HIDE DEF q
  <2>3. QED
    BY <1>2, <2>1, <2>2, BecomeFence DEF LoginCommit, q
<1>3. CASE MagicCommit(r)
  <2> DEFINE q == [req[r] EXCEPT !.pc = "insert", !.ver = tokenVersion]
  <2>1. q \in Request
    BY <1>1, PcVerType DEF Pcs
  <2>2. /\ q.kind = "magic" /\ req[r].kind = "magic"
        /\ q.epoch = req[r].epoch
        /\ q.calm = req[r].calm /\ q.sound = req[r].sound
    BY <1>1, <1>3 DEF MagicCommit, Request
  <2> HIDE DEF q
  <2>3. q.calm => isActive
    BY <2>2 DEF FenceInv, CheckedIsActive, Checked
  <2>4. QED
    BY <1>3, <2>1, <2>2, <2>3, BecomeFence DEF MagicCommit, q
<1>4. CASE RotateCheck(r)
  <2> DEFINE q == IF isActive THEN [req[r] EXCEPT !.pc = "consume"] ELSE Idle
  <2>1. q \in Request
    BY <1>1, IdleType DEF Request, Pcs
  <2>2. q = Idle \/ /\ isActive /\ q.kind = "rotate" /\ req[r].kind = "rotate"
                    /\ q.epoch = req[r].epoch
                    /\ q.calm = req[r].calm /\ q.sound = req[r].sound
    BY <1>1, <1>4 DEF RotateCheck, Request
  <2> HIDE DEF q
  <2>3. QED
    BY <1>4, <2>1, <2>2, BecomeFence DEF RotateCheck, q
<1>5. CASE RotateConsume(r)
  <2> DEFINE q == [req[r] EXCEPT !.pc = "issue"]
  <2>1. q \in Request
    BY <1>1 DEF Request, Pcs
  <2>2. /\ q.kind = "rotate" /\ req[r].kind = "rotate" /\ req[r].pc = "consume"
        /\ q.epoch = req[r].epoch
        /\ q.calm = req[r].calm /\ q.sound = req[r].sound
    BY <1>1, <1>5 DEF RotateConsume, Request
  <2> HIDE DEF q
  <2>3. q.calm => isActive
    BY <2>2 DEF FenceInv, CheckedIsActive, Checked
  <2>4. \A u \in Tokens :
           /\ row'[u].calm = row[u].calm /\ row'[u].sound = row[u].sound
           /\ row'[u].oauth = row[u].oauth /\ row'[u].epoch = row[u].epoch
           /\ row'[u].status = "live" => row[u].status = "live"
    BY <1>5, RevokedRows DEF RotateConsume
  <2>5. QED
    BY <1>5, <2>1, <2>2, <2>3, <2>4, BecomeFence DEF RotateConsume, q
<1>6. CASE IssueRead(r)
  <2> DEFINE q == [req[r] EXCEPT !.pc = "insert", !.ver = tokenVersion]
  <2>1. q \in Request
    BY <1>1, PcVerType DEF Pcs
  <2>2. /\ q.kind \in {"login", "rotate"} /\ req[r].pc = "issue"
        /\ q.kind = req[r].kind /\ q.epoch = req[r].epoch
        /\ q.calm = req[r].calm /\ q.sound = req[r].sound
    BY <1>1, <1>6 DEF IssueRead, Request
  <2> HIDE DEF q
  <2>3. q.calm => isActive
    BY <2>2 DEF FenceInv, CheckedIsActive, Checked
  <2>4. QED
    BY <1>6, <2>1, <2>2, <2>3, BecomeFence DEF IssueRead, q
<1>7. CASE MarkRevoked(r)
  <2>1. \A u \in Tokens :
           /\ row'[u].calm = row[u].calm /\ row'[u].sound = row[u].sound
           /\ row'[u].oauth = row[u].oauth /\ row'[u].epoch = row[u].epoch
           /\ row'[u].status = "live" => row[u].status = "live"
    BY <1>7, RevokedRows DEF MarkRevoked
  <2>2. QED
    BY <1>7, <2>1, IdleType, BecomeFence DEF MarkRevoked, Finish
<1>8. CASE LoadRows(r)
  <2> DEFINE q == [req[r] EXCEPT !.pc = "commit",
                                 !.seen = {t \in Tokens : Live(t)}]
  <2>1. q \in Request
    BY <1>1, PcSeenType DEF Pcs
  <2>2. /\ q.kind \in AllRowsRevoking /\ q.kind = req[r].kind
        /\ q.epoch = req[r].epoch /\ q.seen = {t \in Tokens : Live(t)}
        /\ q.calm = req[r].calm /\ q.sound = req[r].sound
    BY <1>1, <1>8 DEF LoadRows, Request
  <2> HIDE DEF q
  <2>3. ~Checked(q)
    BY <2>2 DEF Checked
  <2>4. QED
    BY <1>8, <2>1, <2>2, <2>3, BecomeFence DEF LoadRows, q
<1>9. CASE Crash(r)
  BY <1>9, IdleType, BecomeFence DEF Crash, Finish
<1>10. QED
  BY <1>2, <1>3, <1>4, <1>5, <1>6, <1>7, <1>8, <1>9

(* A session is issued: by a calm request only if no revocation is running. *)
LEMMA IssueStep ==
    ASSUME TypeOK, FenceInv, NEW r \in Requests, NEW t \in Tokens,
           IssueCommit(r, t)
    PROVE  FenceInv'
<1> DEFINE q == req[r]
<1>1. /\ row'[t].status = "live" /\ row'[t].oauth = (q.kind = "oauth")
      /\ row'[t].epoch = q.epoch /\ row'[t].calm = q.calm
      /\ row'[t].sound = q.sound
      /\ \A u \in Tokens : u # t => row'[u] = row[u]
  BY DEF IssueCommit, TypeOK
<1>2. req'[r] = Idle /\ \A p \in Requests : p # r => req'[p] = req[p]
  BY DEF IssueCommit, Finish, Become, TypeOK
<1>3. Idle.kind = "none" /\ ~Idle.calm /\ ~Idle.sound
  BY DEF Idle
<1>4. q.kind \in Issuing /\ q.pc = "insert"
  BY DEF IssueCommit
<1>5. CalmIsAlone' /\ SoundIsCurrent' /\ CheckedIsActive'
  BY <1>2, <1>3
     DEF FenceInv, CalmIsAlone, SoundIsCurrent, CheckedIsActive, IssueCommit
<1>6. SoundIsCalm'
  BY <1>1, <1>2, <1>3 DEF FenceInv, SoundIsCalm
<1>7. LoadedCoversCalm'
  <2> SUFFICES ASSUME NEW p \in Requests, NEW u \in Tokens,
                      req'[p].kind \in AllRowsRevoking, req'[p].pc = "commit",
                      row'[u].status = "live", row'[u].calm
               PROVE  u \in req'[p].seen
    BY DEF LoadedCoversCalm, Live
  <2>1. p # r /\ req'[p] = req[p]
    BY <1>2, <1>3
  <2>2. u # t
    BY <1>1, <1>4, <2>1 DEF FenceInv, CalmIsAlone
  <2>3. QED
    BY <1>1, <2>1, <2>2 DEF FenceInv, LoadedCoversCalm, Live
<1>8. SuspensionFence'
  BY <1>1, <1>4
     DEF FenceInv, SuspensionFence, CheckedIsActive, Checked, Live, IssueCommit
<1>9. RevocationFence'
  BY <1>1, <1>4
     DEF FenceInv, RevocationFence, SoundIsCurrent, Live, IssueCommit
<1>10. QED
  BY <1>5, <1>6, <1>7, <1>8, <1>9 DEF FenceInv

(* The account changes: nobody who relies on it is calm, and the calm rows  *)
(* have all been loaded.                                                    *)
LEMMA AccountStep ==
    ASSUME TypeOK, FenceInv, NEW r \in Requests, AccountWideCommit(r)
    PROVE  FenceInv'
<1> DEFINE q == req[r]
<1>1. \A u \in Tokens :
         /\ row'[u].calm = row[u].calm /\ row'[u].sound = row[u].sound
         /\ row'[u].oauth = row[u].oauth /\ row'[u].epoch = row[u].epoch
         /\ row'[u].status = "live" => row[u].status = "live" /\ u \notin q.seen
  BY DEF AccountWideCommit, TypeOK, Row
<1>2. req'[r] = Idle /\ \A p \in Requests : p # r => req'[p] = req[p]
  BY DEF AccountWideCommit, Finish, Become, TypeOK
<1>3. Idle.kind = "none" /\ ~Idle.calm /\ ~Idle.sound
  BY DEF Idle
<1>4. q.kind \in AccountWide /\ q.pc = "commit"
  BY DEF AccountWideCommit
<1>5. \A p \in Requests : req'[p].kind \in Issuing => ~req'[p].calm
  BY <1>2, <1>3, <1>4 DEF FenceInv, CalmIsAlone
<1>6. CalmIsAlone'
  BY <1>5 DEF CalmIsAlone
<1>7. SoundIsCalm'
  BY <1>1, <1>2, <1>3 DEF FenceInv, SoundIsCalm
<1>8. CheckedIsActive'
  BY <1>5 DEF CheckedIsActive, Checked
<1>9. SoundIsCurrent'
  BY <1>5, <1>7 DEF SoundIsCurrent, SoundIsCalm
<1>10. LoadedCoversCalm'
  BY <1>1, <1>2, <1>3 DEF FenceInv, LoadedCoversCalm, Live
<1>11. q.kind \in AllRowsRevoking
         => \A u \in Tokens : row'[u].status = "live" => ~row'[u].calm
  BY <1>1, <1>4 DEF FenceInv, LoadedCoversCalm, Live
<1>12. SuspensionFence'
  <2>1. CASE q.kind \in AllRowsRevoking
    BY <1>11, <2>1 DEF SuspensionFence, Live
  <2>2. CASE q.kind = "activate"
    BY <1>1, <2>2
       DEF FenceInv, SuspensionFence, Live, AccountWideCommit, SetActiveColumns
  <2>3. QED
    BY <1>4, <2>1, <2>2
<1>13. RevocationFence'
  <2>1. CASE q.kind \in AllRowsRevoking
    BY <1>7, <1>11, <2>1 DEF RevocationFence, SoundIsCalm, Live
  <2>2. CASE q.kind = "activate"
    BY <1>1, <2>2 DEF FenceInv, RevocationFence, Live, AccountWideCommit
  <2>3. QED
    BY <1>4, <2>1, <2>2
<1>14. QED
  BY <1>6, <1>7, <1>8, <1>9, <1>10, <1>12, <1>13 DEF FenceInv

LEMMA FenceStep == TypeOK /\ FenceInv /\ [Next]_vars => FenceInv'
<1> SUFFICES ASSUME TypeOK, FenceInv, [Next]_vars PROVE FenceInv'
  OBVIOUS
<1>1. ASSUME NEW r \in Requests, Step(r) PROVE FenceInv'
  BY <1>1, StartStep, ContinueStep, IssueStep, AccountStep
     DEF Step, BeginLogout, BeginRevokeSession, BeginSuspend, BeginActivate,
         BeginReset, BeginRevokeAll
<1>2. CASE UNCHANGED vars
  BY <1>2 DEF vars, FenceInv, CalmIsAlone, SoundIsCalm, CheckedIsActive,
         SoundIsCurrent, LoadedCoversCalm, SuspensionFence, RevocationFence,
         Live
<1>3. QED
  BY <1>1, <1>2 DEF Next

LEMMA FenceAlways == Spec => []FenceInv
<1>1. Init => FenceInv
  BY DEF Init, Idle, Unissued, FenceInv, CalmIsAlone, SoundIsCalm, Checked,
         CheckedIsActive, SoundIsCurrent, LoadedCoversCalm, SuspensionFence,
         RevocationFence, Live
<1>2. QED
  BY <1>1, FenceStep, TypeCorrect, PTL DEF Spec

(* While the account is suspended (set_user_active) the only live refresh   *)
(* tokens are those of OAuth callbacks and of requests that overlapped a    *)
(* revocation: for any number of tokens, worker slots and concurrent        *)
(* revocations.                                                             *)
THEOREM SuspensionHolds == Spec => []SuspensionFence
<1>1. FenceInv => SuspensionFence
  BY DEF FenceInv
<1>2. QED
  BY <1>1, FenceAlways, PTL

(* A session whose whole chain (sign-in, then rotate_refresh) overlapped no *)
(* revocation does not outlive one (revoke_all_user_sessions).              *)
THEOREM RevocationHolds == Spec => []RevocationFence
<1>1. FenceInv => RevocationFence
  BY DEF FenceInv
<1>2. QED
  BY <1>1, FenceAlways, PTL

-----------------------------------------------------------------------------
(* Rotation: a refresh token is exchanged once, races aside. *)

LEMMA StartExchange ==
    ASSUME TypeOK, ExchangeInv, NEW r \in Requests, NEW new \in Request,
           Start(r, new), row' = row,
           new.kind = "rotate" => new.pc = "row_read" /\ Live(new.token),
           new.kind \in {"rotate", "revoke_one"}
              => new.token \in Tokens /\ Issued(new.token),
           new.kind \in Issuing \ {"rotate"} => new.token = NoToken,
           new.seen = {}
    PROVE  ExchangeInv'
<1>1. ASSUME NEW q \in Requests, q # r
      PROVE  /\ req'[q].kind = req[q].kind /\ req'[q].pc = req[q].pc
             /\ req'[q].token = req[q].token /\ req'[q].seen = req[q].seen
             /\ req'[q].calm => req[q].calm /\ ~Conflict(req[q], new)
  <2>1. req'[q] = IF Conflict(req[q], new) THEN Disturbed(req[q]) ELSE req[q]
    BY <1>1 DEF Start, TypeOK
  <2>2. req[q] \in Request
    BY DEF TypeOK
  <2>3. CASE Conflict(req[q], new)
    <3>1. req'[q] = [req[q] EXCEPT !.calm = FALSE, !.sound = FALSE]
      BY <2>1, <2>3 DEF Disturbed
    <3>2. QED
      BY <2>2, <3>1 DEF Request
  <2>4. CASE ~Conflict(req[q], new)
    BY <2>1, <2>4
  <2>5. QED
    BY <2>3, <2>4
<1>2. /\ req'[r].kind = new.kind /\ req'[r].pc = new.pc
      /\ req'[r].token = new.token /\ req'[r].seen = new.seen
      /\ req'[r].calm => \A p \in Requests : ~Conflict(new, req[p])
  <2>1. req'[r] = IF \E p \in Requests : Conflict(new, req[p])
                  THEN Disturbed(new) ELSE new
    BY DEF Start, TypeOK
  <2>2. QED
    BY <2>1 DEF Disturbed, Request
<1>3. OnlyRotationsExchange' /\ HeldTokensAreIssued'
  BY <1>1, <1>2
     DEF ExchangeInv, OnlyRotationsExchange, HeldTokensAreIssued, Issued
<1>4. ConsumedIsRevoked'
  BY <1>1, <1>2 DEF ExchangeInv, ConsumedIsRevoked, Issued
<1>5. CalmRotationIsAlone'
  <2> SUFFICES ASSUME NEW a \in Requests, req'[a].kind = "rotate", req'[a].calm
               PROVE  /\ \A p \in Requests :
                           req'[p].kind = "rotate" /\ req'[p].token = req'[a].token
                             => p = a
                      /\ \A t \in Tokens :
                           Issued(t) => row[t].parent # req'[a].token
    BY DEF CalmRotationIsAlone, RotationOf, Issued
  <2>1. CASE a = r
    <3>1. \A p \in Requests :
             req'[p].kind = "rotate" /\ req'[p].token = req'[a].token => p = a
      BY <1>1, <1>2, <2>1 DEF Conflict
    <3>2. \A t \in Tokens : Issued(t) => row[t].parent # req'[a].token
      BY <1>2, <2>1 DEF ExchangeInv, ConsumedIsRevoked, Live
    <3>3. QED
      BY <3>1, <3>2
  <2>2. CASE a # r
    <3>1. \A p \in Requests :
             req'[p].kind = "rotate" /\ req'[p].token = req'[a].token => p = a
      BY <1>1, <1>2, <2>2
         DEF Conflict, ExchangeInv, CalmRotationIsAlone, RotationOf
    <3>2. \A t \in Tokens : Issued(t) => row[t].parent # req'[a].token
      BY <1>1, <2>2 DEF ExchangeInv, CalmRotationIsAlone
    <3>3. QED
      BY <3>1, <3>2
  <2>3. QED
    BY <2>1, <2>2
<1>6. ExchangedTokenIsSpent'
  BY <1>1, <1>2 DEF ExchangeInv, ExchangedTokenIsSpent, Issued, Live
<1>7. SerialRotationIsSingleUse'
  BY DEF ExchangeInv, SerialRotationIsSingleUse, Issued
<1>8. QED
  BY <1>3, <1>4, <1>5, <1>6, <1>7 DEF ExchangeInv

LEMMA BecomeExchange ==
    ASSUME TypeOK, ExchangeInv, NEW r \in Requests, NEW q \in Request,
           Become(r, q),
           \A t \in Tokens :
              /\ row'[t].calm = row[t].calm /\ row'[t].parent = row[t].parent
              /\ row'[t].status = "unissued" <=> row[t].status = "unissued"
              /\ row'[t].status = "live" => row[t].status = "live"
              /\ row[t].status = "revoked" => row'[t].status = "revoked",
           \/ q = Idle
           \/ /\ q.kind = req[r].kind /\ q.token = req[r].token
              /\ q.calm = req[r].calm
              /\ \A t \in q.seen : Issued(t)
              /\ q.kind = "rotate" /\ q.pc \in {"issue", "insert"}
                   => row'[q.token].status = "revoked"
    PROVE  ExchangeInv'
<1>1. req'[r] = q /\ \A p \in Requests : p # r => req'[p] = req[p]
  BY DEF Become, TypeOK
<1>2. Idle.kind = "none" /\ ~Idle.calm /\ Idle.seen = {}
  BY DEF Idle
<1>3. \A t \in Tokens : row[t].parent \in Tokens \union {NoToken}
  BY DEF TypeOK, Row
<1>4. OnlyRotationsExchange'
  BY <1>1, <1>2 DEF ExchangeInv, OnlyRotationsExchange
<1>5. HeldTokensAreIssued'
  <2>1. \A t \in Tokens :
           row[t].status # "unissued" => row'[t].status # "unissued"
    OBVIOUS
  <2>2. \A p \in Requests : req[p].seen \subseteq Tokens
    BY DEF TypeOK, Request
  <2>3. q.seen \subseteq Tokens
    BY DEF Request
  <2>4. ASSUME NEW p \in Requests
        PROVE  /\ req'[p].kind \in {"rotate", "revoke_one"}
                    => /\ req'[p].token \in Tokens
                       /\ row[req'[p].token].status # "unissued"
               /\ \A t \in req'[p].seen :
                    t \in Tokens /\ row[t].status # "unissued"
    <3>1. CASE p # r
      BY <1>1, <2>2, <3>1 DEF ExchangeInv, HeldTokensAreIssued, Issued
    <3>2. CASE p = r /\ q = Idle
      BY <1>1, <1>2, <3>2
    <3>3. CASE p = r /\ q # Idle
      <4>1. /\ q.kind = req[r].kind /\ q.token = req[r].token
            /\ \A t \in q.seen : t \in Tokens /\ Issued(t)
        BY <2>3, <3>3
      <4>2. QED
        BY <1>1, <3>3, <4>1 DEF ExchangeInv, HeldTokensAreIssued, Issued
    <3>4. QED
      BY <3>1, <3>2, <3>3
  <2>5. QED
    BY <2>1, <2>4 DEF HeldTokensAreIssued, Issued
<1>6. ConsumedIsRevoked'
  <2>1. ASSUME NEW p \in Requests, req'[p].kind = "rotate",
               req'[p].pc \in {"issue", "insert"}
        PROVE  row'[req'[p].token].status = "revoked"
    BY <1>1, <1>2, <2>1
       DEF ExchangeInv, ConsumedIsRevoked, HeldTokensAreIssued
  <2>2. ASSUME NEW t \in Tokens, Issued(t)', row'[t].parent # NoToken
        PROVE  row'[row'[t].parent].status = "revoked"
    BY <1>3, <2>2 DEF ExchangeInv, ConsumedIsRevoked, Issued
  <2>3. QED
    BY <2>1, <2>2 DEF ConsumedIsRevoked
<1>7. CalmRotationIsAlone'
  BY <1>1, <1>2 DEF ExchangeInv, CalmRotationIsAlone, RotationOf, Issued
<1>8. ExchangedTokenIsSpent'
  BY <1>1, <1>2, <1>3 DEF ExchangeInv, ExchangedTokenIsSpent, Issued, Live
<1>9. SerialRotationIsSingleUse'
  BY DEF ExchangeInv, SerialRotationIsSingleUse, Issued
<1>10. QED
  BY <1>4, <1>6, <1>7, <1>8, <1>9, <1>5 DEF ExchangeInv

(* The sign-ins, the switch and the revocations exchange no token. *)
LEMMA StartStepExchange ==
    ASSUME TypeOK, ExchangeInv, NEW r \in Requests,
           \/ BeginLogin(r) \/ BeginMagic(r) \/ BeginOAuth(r)
           \/ \E t \in Tokens :
                BeginSwitch(r, t) \/ BeginRotate(r, t) \/ BeginRevokeOne(r, t)
           \/ \E kind \in AccountWide, pc \in Pcs : BeginAccountWide(r, kind, pc)
    PROVE  ExchangeInv'
<1>1. CASE BeginLogin(r)
  <2> DEFINE new == SignIn("login", "verified")
  <2>1. new \in Request
    BY SignInType DEF Kinds, Pcs
  <2>2. new.kind = "login" /\ new.token = NoToken /\ new.seen = {}
    BY DEF SignIn, Idle
  <2> HIDE DEF new
  <2>3. QED
    BY <1>1, <2>1, <2>2, StartExchange DEF BeginLogin, new
<1>2. CASE BeginMagic(r)
  <2> DEFINE new == SignIn("magic", "consume")
  <2>1. new \in Request
    BY SignInType DEF Kinds, Pcs
  <2>2. new.kind = "magic" /\ new.token = NoToken /\ new.seen = {}
    BY DEF SignIn, Idle
  <2> HIDE DEF new
  <2>3. QED
    BY <1>2, <2>1, <2>2, StartExchange DEF BeginMagic, new
<1>3. CASE BeginOAuth(r)
  <2> DEFINE new == [SignIn("oauth", "insert") EXCEPT !.ver = tokenVersion]
  <2>1. new \in Request
    <3>1. SignIn("oauth", "insert") \in Request
      BY SignInType DEF Kinds, Pcs
    <3>2. tokenVersion \in Nat
      BY DEF TypeOK
    <3>3. QED
      BY <3>1, <3>2 DEF Request
  <2>2. new.kind = "oauth" /\ new.token = NoToken /\ new.seen = {}
    BY DEF SignIn, Idle
  <2> HIDE DEF new
  <2>3. QED
    BY <1>3, <2>1, <2>2, StartExchange DEF BeginOAuth, new
<1>4. ASSUME NEW t \in Tokens, BeginSwitch(r, t) PROVE ExchangeInv'
  <2> DEFINE new == [SignIn("switch", "insert") EXCEPT
                       !.ver = tokenVersion, !.epoch = row[t].epoch,
                       !.sound = FALSE]
  <2>1. new \in Request
    <3>1. SignIn("switch", "insert") \in Request
      BY SignInType DEF Kinds, Pcs
    <3>2. tokenVersion \in Nat /\ row[t].epoch \in Nat
      BY DEF TypeOK, Row
    <3>3. QED
      BY <3>1, <3>2, VerEpochSoundType
  <2>2. new.kind = "switch" /\ new.token = NoToken /\ new.seen = {}
    BY DEF SignIn, Idle
  <2> HIDE DEF new
  <2>3. QED
    BY <1>4, <2>1, <2>2, StartExchange DEF BeginSwitch, new
<1>5. ASSUME NEW t \in Tokens, BeginRotate(r, t) PROVE ExchangeInv'
  <2> DEFINE new == [SignIn("rotate", "row_read") EXCEPT
                       !.token = t, !.epoch = row[t].epoch,
                       !.sound = row[t].sound]
  <2>1. new \in Request
    <3>1. SignIn("rotate", "row_read") \in Request
      BY SignInType DEF Kinds, Pcs
    <3>2. row[t].epoch \in Nat /\ row[t].sound \in BOOLEAN
      BY DEF TypeOK, Row
    <3>3. QED
      BY <3>1, <3>2, TokenEpochSoundType
  <2>2. new.kind = "rotate" /\ new.pc = "row_read" /\ new.token = t /\ new.seen = {}
    BY DEF SignIn, Idle
  <2> HIDE DEF new
  <2>3. QED
    BY <1>5, <2>1, <2>2, StartExchange
       DEF BeginRotate, Live, Issued, new
<1>6. ASSUME NEW t \in Tokens, BeginRevokeOne(r, t) PROVE ExchangeInv'
  <2> DEFINE new == [Idle EXCEPT !.kind = "revoke_one", !.pc = "mark",
                                 !.token = t]
  <2>1. new \in Request
    BY DEF Idle, Request, Kinds, Pcs
  <2>2. new.kind = "revoke_one" /\ new.token = t /\ new.seen = {}
    BY DEF Idle
  <2> HIDE DEF new
  <2>3. QED
    BY <1>6, <2>1, <2>2, StartExchange DEF BeginRevokeOne, new
<1>7. ASSUME NEW kind \in AccountWide, NEW pc \in Pcs,
             BeginAccountWide(r, kind, pc)
      PROVE  ExchangeInv'
  <2> DEFINE new == [Idle EXCEPT
                       !.kind = kind, !.pc = pc, !.ver = tokenVersion,
                       !.wasActive = isActive, !.wasDeleted = deletedAt]
  <2>1. new \in Request
    BY DEF Idle, Request, Kinds, TypeOK
  <2>2. new.kind = kind /\ new.seen = {}
    BY DEF Idle
  <2> HIDE DEF new
  <2>3. QED
    BY <1>7, <2>1, <2>2, StartExchange DEF BeginAccountWide, new
<1>8. QED
  BY <1>1, <1>2, <1>3, <1>4, <1>5, <1>6, <1>7

LEMMA RevokedRowsExchange ==
    ASSUME TypeOK, NEW t \in Tokens, Issued(t),
           row' = [row EXCEPT ![t].status = "revoked"]
    PROVE  /\ row'[t].status = "revoked"
           /\ \A u \in Tokens :
                /\ row'[u].calm = row[u].calm /\ row'[u].parent = row[u].parent
                /\ row'[u].status = "unissued" <=> row[u].status = "unissued"
                /\ row'[u].status = "live" => row[u].status = "live"
                /\ row[u].status = "revoked" => row'[u].status = "revoked"
BY DEF TypeOK, Row, Issued

LEMMA ContinueStepExchange ==
    ASSUME TypeOK, ExchangeInv, NEW r \in Requests,
           \/ LoginCommit(r) \/ MagicCommit(r) \/ RotateCheck(r)
           \/ RotateConsume(r) \/ IssueRead(r) \/ MarkRevoked(r)
           \/ LoadRows(r) \/ AccountWideCommit(r) \/ Crash(r)
    PROVE  ExchangeInv'
<1>1. /\ req[r] \in Request /\ tokenVersion \in Nat
      /\ \A u \in req[r].seen : Issued(u)
  BY DEF TypeOK, ExchangeInv, HeldTokensAreIssued
<1>2. CASE LoginCommit(r)
  <2> DEFINE q == IF isActive THEN [req[r] EXCEPT !.pc = "issue"] ELSE Idle
  <2>1. q \in Request
    BY <1>1, IdleType DEF Request, Pcs
  <2>2. q = Idle \/ /\ q.kind = "login" /\ req[r].kind = "login"
                    /\ q.token = req[r].token /\ q.calm = req[r].calm
                    /\ q.seen = req[r].seen
    BY <1>1, <1>2 DEF LoginCommit, Request
  <2> HIDE DEF q
  <2>3. QED
    BY <1>1, <1>2, <2>1, <2>2, BecomeExchange DEF LoginCommit, q
<1>3. CASE MagicCommit(r)
  <2> DEFINE q == [req[r] EXCEPT !.pc = "insert", !.ver = tokenVersion]
  <2>1. q \in Request
    BY <1>1, PcVerType DEF Pcs
  <2>2. /\ q.kind = "magic" /\ req[r].kind = "magic"
        /\ q.token = req[r].token /\ q.calm = req[r].calm
        /\ q.seen = req[r].seen
    BY <1>1, <1>3 DEF MagicCommit, Request
  <2> HIDE DEF q
  <2>3. QED
    BY <1>1, <1>3, <2>1, <2>2, BecomeExchange DEF MagicCommit, q
<1>4. CASE RotateCheck(r)
  <2> DEFINE q == IF isActive THEN [req[r] EXCEPT !.pc = "consume"] ELSE Idle
  <2>1. q \in Request
    BY <1>1, IdleType DEF Request, Pcs
  <2>2. q = Idle \/ /\ q.kind = req[r].kind /\ q.pc = "consume"
                    /\ q.token = req[r].token /\ q.calm = req[r].calm
                    /\ q.seen = req[r].seen
    BY <1>1, <1>4 DEF RotateCheck, Request
  <2> HIDE DEF q
  <2>3. QED
    BY <1>1, <1>4, <2>1, <2>2, BecomeExchange DEF RotateCheck, q
<1>5. CASE RotateConsume(r)
  <2> DEFINE q == [req[r] EXCEPT !.pc = "issue"]
  <2>1. q \in Request
    BY <1>1 DEF Request, Pcs
  <2>2. /\ q.kind = req[r].kind /\ q.token = req[r].token
        /\ q.calm = req[r].calm /\ q.seen = req[r].seen
    BY <1>1 DEF Request
  <2> HIDE DEF q
  <2>3. req[r].token \in Tokens /\ Issued(req[r].token)
    BY <1>5 DEF RotateConsume, ExchangeInv, HeldTokensAreIssued
  <2>4. row' = [row EXCEPT ![req[r].token].status = "revoked"] /\ Become(r, q)
    BY <1>5 DEF RotateConsume, q
  <2>5. /\ row'[req[r].token].status = "revoked"
        /\ \A u \in Tokens :
             /\ row'[u].calm = row[u].calm /\ row'[u].parent = row[u].parent
             /\ row'[u].status = "unissued" <=> row[u].status = "unissued"
             /\ row'[u].status = "live" => row[u].status = "live"
             /\ row[u].status = "revoked" => row'[u].status = "revoked"
    BY <2>3, <2>4, RevokedRowsExchange
  <2>6. QED
    BY <1>1, <2>1, <2>2, <2>4, <2>5, BecomeExchange
<1>6. CASE IssueRead(r)
  <2> DEFINE q == [req[r] EXCEPT !.pc = "insert", !.ver = tokenVersion]
  <2>1. q \in Request
    BY <1>1, PcVerType DEF Pcs
  <2>2. /\ q.kind = req[r].kind /\ q.token = req[r].token
        /\ q.calm = req[r].calm /\ q.seen = req[r].seen
    BY <1>1 DEF Request
  <2> HIDE DEF q
  <2>3. q.kind = "rotate" => row[q.token].status = "revoked"
    BY <1>6, <2>2 DEF IssueRead, ExchangeInv, ConsumedIsRevoked
  <2>4. QED
    BY <1>1, <1>6, <2>1, <2>2, <2>3, BecomeExchange DEF IssueRead, q
<1>7. CASE MarkRevoked(r)
  <2>1. req[r].token \in Tokens /\ Issued(req[r].token)
    BY <1>7 DEF MarkRevoked, ExchangeInv, HeldTokensAreIssued
  <2>2. row' = [row EXCEPT ![req[r].token].status = "revoked"] /\ Become(r, Idle)
    BY <1>7 DEF MarkRevoked, Finish
  <2>3. QED
    BY <2>1, <2>2, IdleType, RevokedRowsExchange, BecomeExchange
<1>8. CASE LoadRows(r)
  <2> DEFINE q == [req[r] EXCEPT !.pc = "commit",
                                 !.seen = {t \in Tokens : Live(t)}]
  <2>1. q \in Request
    BY <1>1, PcSeenType DEF Pcs
  <2>2. /\ q.kind # "rotate" /\ q.kind = req[r].kind
        /\ q.token = req[r].token /\ q.calm = req[r].calm
        /\ \A u \in q.seen : Issued(u)
    BY <1>1, <1>8 DEF LoadRows, Request, Live, Issued
  <2> HIDE DEF q
  <2>3. QED
    BY <1>8, <2>1, <2>2, BecomeExchange DEF LoadRows, q
<1>9. CASE AccountWideCommit(r)
  <2>1. \A u \in Tokens :
          row'[u] = IF u \in req[r].seen
                    THEN [row[u] EXCEPT !.status = "revoked"] ELSE row[u]
    BY <1>9 DEF AccountWideCommit
  <2>2. \A u \in Tokens :
          /\ row'[u].calm = row[u].calm /\ row'[u].parent = row[u].parent
          /\ row'[u].status = "unissued" <=> row[u].status = "unissued"
          /\ row'[u].status = "live" => row[u].status = "live"
          /\ row[u].status = "revoked" => row'[u].status = "revoked"
    BY <1>1, <2>1 DEF TypeOK, Row, Issued
  <2>3. Become(r, Idle)
    BY <1>9 DEF AccountWideCommit, Finish
  <2>4. QED
    BY <2>2, <2>3, IdleType, BecomeExchange
<1>10. CASE Crash(r)
  BY <1>10, IdleType, BecomeExchange DEF Crash, Finish
<1>11. QED
  BY <1>2, <1>3, <1>4, <1>5, <1>6, <1>7, <1>8, <1>9, <1>10

(* The new row descends from the request's token, which is revoked.  If the *)
(* request is calm nothing else descends from it; if another row that was   *)
(* issued calmly did, this request could not be under way.                  *)
LEMMA IssueStepExchange ==
    ASSUME TypeOK, ExchangeInv, NEW r \in Requests, NEW t \in Tokens,
           IssueCommit(r, t)
    PROVE  ExchangeInv'
<1> DEFINE q == req[r]
<1>1. /\ row[t].status = "unissued" /\ row'[t].status = "live"
      /\ row'[t].parent = q.token /\ row'[t].calm = q.calm
      /\ \A u \in Tokens : u # t => row'[u] = row[u]
  BY DEF IssueCommit, TypeOK, Issued
<1>2. req'[r] = Idle /\ \A p \in Requests : p # r => req'[p] = req[p]
  BY DEF IssueCommit, Finish, Become, TypeOK
<1>3. Idle.kind = "none" /\ Idle.seen = {}
  BY DEF Idle
<1>4. /\ q.kind # "rotate" => q.token = NoToken
      /\ q.kind = "rotate" => q.token \in Tokens /\ row[q.token].status = "revoked"
  BY DEF IssueCommit, ExchangeInv, OnlyRotationsExchange, HeldTokensAreIssued,
         ConsumedIsRevoked
<1>5. \A u \in Tokens : Issued(u) => u # t /\ row'[u] = row[u]
  BY <1>1 DEF Issued
<1>6. \A u \in Tokens : Issued(u)' /\ u # t => Issued(u)
  BY <1>1 DEF Issued
<1>7. \A u \in Tokens : row[u].parent \in Tokens \union {NoToken}
  BY DEF TypeOK, Row
<1> HIDE DEF q
<1>8. OnlyRotationsExchange'
  BY <1>2, <1>3 DEF ExchangeInv, OnlyRotationsExchange
<1>9. HeldTokensAreIssued'
  <2>1. \A u \in Tokens : Issued(u) => Issued(u)'
    BY <1>5 DEF Issued
  <2>2. \A p \in Requests : req[p].seen \subseteq Tokens
    BY DEF TypeOK, Request
  <2>3. QED
    BY <1>2, <1>3, <2>1, <2>2 DEF ExchangeInv, HeldTokensAreIssued
<1>10. ConsumedIsRevoked'
  <2>1. ASSUME NEW p \in Requests, req'[p].kind = "rotate",
               req'[p].pc \in {"issue", "insert"}
        PROVE  row'[req'[p].token].status = "revoked"
    <3>1. p # r /\ req'[p] = req[p]
      BY <1>2, <1>3, <2>1
    <3>2. req[p].token \in Tokens /\ row[req[p].token].status = "revoked"
      BY <2>1, <3>1 DEF ExchangeInv, ConsumedIsRevoked, HeldTokensAreIssued
    <3>3. QED
      BY <1>5, <3>1, <3>2 DEF Issued
  <2>2. ASSUME NEW u \in Tokens, Issued(u)', row'[u].parent # NoToken
        PROVE  row'[row'[u].parent].status = "revoked"
    <3>1. CASE u = t
      BY <1>1, <1>4, <1>5, <2>2, <3>1 DEF Issued
    <3>2. CASE u # t
      <4>1. /\ row'[u] = row[u] /\ row[u].parent \in Tokens
            /\ row[row[u].parent].status = "revoked"
        BY <1>1, <1>6, <1>7, <2>2, <3>2 DEF ExchangeInv, ConsumedIsRevoked
      <4>2. QED
        BY <1>5, <4>1 DEF Issued
    <3>3. QED
      BY <3>1, <3>2
  <2>3. QED
    BY <2>1, <2>2 DEF ConsumedIsRevoked
<1>11. CalmRotationIsAlone'
  <2> SUFFICES ASSUME NEW a \in Requests, req'[a].kind = "rotate", req'[a].calm
               PROVE  /\ \A p \in Requests :
                           req'[p].kind = "rotate" /\ req'[p].token = req'[a].token
                             => p = a
                      /\ \A u \in Tokens :
                           Issued(u)' => row'[u].parent # req'[a].token
    BY DEF CalmRotationIsAlone, RotationOf
  <2>1. a # r /\ req'[a] = req[a] /\ req[a].token \in Tokens
    BY <1>2, <1>3 DEF ExchangeInv, HeldTokensAreIssued
  <2>2. /\ \A p \in Requests :
             req[p].kind = "rotate" /\ req[p].token = req[a].token => p = a
        /\ \A u \in Tokens : Issued(u) => row[u].parent # req[a].token
    BY <2>1 DEF ExchangeInv, CalmRotationIsAlone, RotationOf
  <2>3. q.token # req[a].token
    BY <1>4, <2>1, <2>2 DEF q
  <2>4. QED
    BY <1>1, <1>2, <1>3, <1>6, <2>1, <2>2, <2>3
<1>12. ExchangedTokenIsSpent'
  <2> SUFFICES ASSUME NEW u \in Tokens, Issued(u)', row'[u].calm,
                      row'[u].parent # NoToken
               PROVE  /\ row'[row'[u].parent].status # "live"
                      /\ \A p \in Requests :
                           ~(req'[p].kind = "rotate"
                             /\ req'[p].token = row'[u].parent)
    BY DEF ExchangedTokenIsSpent, Live
  <2>1. row'[row'[u].parent].status # "live"
    BY <1>10 DEF ConsumedIsRevoked
  <2>2. \A p \in Requests :
           req'[p].kind = "rotate" => p # r /\ req'[p] = req[p]
    BY <1>2, <1>3
  <2>3. CASE u = t
    <3>1. q.kind = "rotate" /\ q.calm /\ row'[u].parent = q.token
      BY <1>1, <1>4, <2>3
    <3>2. QED
      BY <2>1, <2>2, <3>1 DEF ExchangeInv, CalmRotationIsAlone, RotationOf, q
  <2>4. CASE u # t
    <3>1. row'[u] = row[u] /\ Issued(u)
      BY <1>1, <1>6, <2>4
    <3>2. QED
      BY <2>1, <2>2, <3>1 DEF ExchangeInv, ExchangedTokenIsSpent
  <2>5. QED
    BY <2>3, <2>4
<1>13. SerialRotationIsSingleUse'
  <2> SUFFICES ASSUME NEW u \in Tokens, NEW v \in Tokens, Issued(u)', Issued(v)',
                      u # v, row'[u].parent # NoToken,
                      row'[u].parent = row'[v].parent, row'[u].calm
               PROVE  FALSE
    BY DEF SerialRotationIsSingleUse
  <2>1. CASE u = t
    BY <1>1, <1>4, <1>6, <2>1 DEF ExchangeInv, CalmRotationIsAlone, q
  <2>2. CASE v = t
    BY <1>1, <1>4, <1>6, <2>2 DEF ExchangeInv, ExchangedTokenIsSpent, q
  <2>3. CASE u # t /\ v # t
    BY <1>1, <1>6, <2>3 DEF ExchangeInv, SerialRotationIsSingleUse
  <2>4. QED
    BY <2>1, <2>2, <2>3
<1>14. QED
  BY <1>8, <1>9, <1>10, <1>11, <1>12, <1>13 DEF ExchangeInv

LEMMA ExchangeStep == TypeOK /\ ExchangeInv /\ [Next]_vars => ExchangeInv'
<1> SUFFICES ASSUME TypeOK, ExchangeInv, [Next]_vars PROVE ExchangeInv'
  OBVIOUS
<1>1. ASSUME NEW r \in Requests, Step(r) PROVE ExchangeInv'
  BY <1>1, StartStepExchange, ContinueStepExchange, IssueStepExchange
     DEF Step, BeginLogout, BeginRevokeSession, BeginSuspend, BeginActivate,
         BeginReset, BeginRevokeAll, Pcs
<1>2. CASE UNCHANGED vars
  BY <1>2 DEF vars, ExchangeInv, OnlyRotationsExchange, HeldTokensAreIssued,
         ConsumedIsRevoked, CalmRotationIsAlone, RotationOf,
         ExchangedTokenIsSpent, SerialRotationIsSingleUse, Issued, Live
<1>3. QED
  BY <1>1, <1>2 DEF Next

LEMMA ExchangeAlways == Spec => []ExchangeInv
<1>1. Init => ExchangeInv
  BY DEF Init, Idle, Unissued, ExchangeInv, OnlyRotationsExchange,
         HeldTokensAreIssued, ConsumedIsRevoked, CalmRotationIsAlone,
         RotationOf, ExchangedTokenIsSpent, SerialRotationIsSingleUse, Issued
<1>2. QED
  BY <1>1, ExchangeStep, TypeCorrect, PTL DEF Spec

(* A refresh token exchanged by a rotation that nothing overlapped is dead, *)
(* and no rotate_refresh that read it alive is still under way: for any     *)
(* number of tokens and worker slots.                                       *)
THEOREM ExchangedTokenSpent == Spec => []ExchangedTokenIsSpent
<1>1. ExchangeInv => ExchangedTokenIsSpent
  BY DEF ExchangeInv
<1>2. QED
  BY <1>1, ExchangeAlways, PTL

(* Hence a refresh token has at most one successor unless two rotate_refresh *)
(* (or a revoke_refresh) of it overlapped.                                   *)
THEOREM RotationSingleUse == Spec => []SerialRotationIsSingleUse
<1>1. ExchangeInv => SerialRotationIsSingleUse
  BY DEF ExchangeInv
<1>2. QED
  BY <1>1, ExchangeAlways, PTL

-----------------------------------------------------------------------------
(* Introspection. *)

(* A request starts: one that is to raise the version with the version as   *)
(* it is, one that goes straight to its insertion too.                      *)
LEMMA StartVersion ==
    ASSUME TypeOK, VersionInv, NEW r \in Requests, NEW new \in Request,
           Start(r, new), UserUnchanged, row' = row,
           new.kind \in AccountWide => new.ver = tokenVersion,
           new.pc = "insert" /\ new.sound => new.ver = tokenVersion
    PROVE  VersionInv'
<1>1. ASSUME NEW q \in Requests, q # r
      PROVE  /\ req'[q].kind = req[q].kind /\ req'[q].pc = req[q].pc
             /\ req'[q].ver = req[q].ver
             /\ req'[q].sound => req[q].sound
  <2>1. req'[q] = IF Conflict(req[q], new) THEN Disturbed(req[q]) ELSE req[q]
    BY <1>1 DEF Start, TypeOK
  <2>2. req[q] \in Request
    BY DEF TypeOK
  <2>3. QED
    BY <2>1, <2>2 DEF Disturbed, Request
<1>2. /\ req'[r].kind = new.kind /\ req'[r].pc = new.pc
      /\ req'[r].ver = new.ver
      /\ req'[r].sound => new.sound
  <2>1. req'[r] = IF \E p \in Requests : Conflict(new, req[p])
                  THEN Disturbed(new) ELSE new
    BY DEF Start, TypeOK
  <2>2. QED
    BY <2>1 DEF Disturbed, Request
<1>3. SoundIsLoaded'
  BY <1>1, <1>2 DEF VersionInv, SoundIsLoaded, Issued
<1>4. SoundCarriesCurrent'
  BY <1>1, <1>2 DEF VersionInv, SoundCarriesCurrent
<1>5. PastIsOutdated'
  BY DEF VersionInv, PastIsOutdated, Issued
<1>6. QED
  BY <1>3, <1>4, <1>5 DEF VersionInv

(* A request moves on or ends without touching the account. *)
LEMMA BecomeVersion ==
    ASSUME TypeOK, VersionInv, NEW r \in Requests, NEW q \in Request,
           Become(r, q), UserUnchanged,
           \A t \in Tokens :
              /\ row'[t].sound = row[t].sound /\ row'[t].ver = row[t].ver
              /\ row'[t].epoch = row[t].epoch
              /\ Issued(t)' => Issued(t),
           q.kind \in AccountWide
              => req[r].kind \in AccountWide /\ q.ver = req[r].ver,
           q.pc = "insert" => q.ver = tokenVersion
    PROVE  VersionInv'
<1>1. req'[r] = q /\ \A p \in Requests : p # r => req'[p] = req[p]
  BY DEF Become, TypeOK
<1>2. SoundIsLoaded'
  BY <1>1 DEF VersionInv, SoundIsLoaded
<1>3. SoundCarriesCurrent'
  BY <1>1 DEF VersionInv, SoundCarriesCurrent
<1>4. PastIsOutdated'
  BY DEF VersionInv, PastIsOutdated
<1>5. QED
  BY <1>2, <1>3, <1>4 DEF VersionInv

LEMMA MarkedRows ==
    ASSUME TypeOK, NEW t \in Tokens, Issued(t),
           row' = [row EXCEPT ![t].status = "revoked"]
    PROVE  \A u \in Tokens :
              /\ row'[u].sound = row[u].sound /\ row'[u].ver = row[u].ver
              /\ row'[u].epoch = row[u].epoch
              /\ Issued(u)' => Issued(u)
BY DEF TypeOK, Row, Issued

LEMMA StartStepVersion ==
    ASSUME TypeOK, VersionInv, NEW r \in Requests,
           \/ BeginLogin(r) \/ BeginMagic(r) \/ BeginOAuth(r)
           \/ \E t \in Tokens :
                BeginSwitch(r, t) \/ BeginRotate(r, t) \/ BeginRevokeOne(r, t)
           \/ \E kind \in AccountWide, pc \in Pcs : BeginAccountWide(r, kind, pc)
    PROVE  VersionInv'
<1>1. CASE BeginLogin(r)
  <2> DEFINE new == SignIn("login", "verified")
  <2>1. new \in Request
    BY SignInType DEF Kinds, Pcs
  <2>2. new.kind = "login" /\ new.pc = "verified"
    BY DEF SignIn, Idle
  <2> HIDE DEF new
  <2>3. QED
    BY <1>1, <2>1, <2>2, StartVersion DEF BeginLogin, new
<1>2. CASE BeginMagic(r)
  <2> DEFINE new == SignIn("magic", "consume")
  <2>1. new \in Request
    BY SignInType DEF Kinds, Pcs
  <2>2. new.kind = "magic" /\ new.pc = "consume"
    BY DEF SignIn, Idle
  <2> HIDE DEF new
  <2>3. QED
    BY <1>2, <2>1, <2>2, StartVersion DEF BeginMagic, new
<1>3. CASE BeginOAuth(r)
  <2> DEFINE new == [SignIn("oauth", "insert") EXCEPT !.ver = tokenVersion]
  <2>1. new \in Request
    <3>1. SignIn("oauth", "insert") \in Request
      BY SignInType DEF Kinds, Pcs
    <3>2. tokenVersion \in Nat
      BY DEF TypeOK
    <3>3. QED
      BY <3>1, <3>2 DEF Request
  <2>2. new.kind = "oauth" /\ new.ver = tokenVersion
    BY DEF SignIn, Idle
  <2> HIDE DEF new
  <2>3. QED
    BY <1>3, <2>1, <2>2, StartVersion DEF BeginOAuth, new
<1>4. ASSUME NEW t \in Tokens, BeginSwitch(r, t) PROVE VersionInv'
  <2> DEFINE new == [SignIn("switch", "insert") EXCEPT
                       !.ver = tokenVersion, !.epoch = row[t].epoch,
                       !.sound = FALSE]
  <2>1. new \in Request
    <3>1. SignIn("switch", "insert") \in Request
      BY SignInType DEF Kinds, Pcs
    <3>2. tokenVersion \in Nat /\ row[t].epoch \in Nat
      BY DEF TypeOK, Row
    <3>3. QED
      BY <3>1, <3>2, VerEpochSoundType
  <2>2. new.kind = "switch" /\ ~new.sound
    BY DEF SignIn, Idle
  <2> HIDE DEF new
  <2>3. QED
    BY <1>4, <2>1, <2>2, StartVersion DEF BeginSwitch, new
<1>5. ASSUME NEW t \in Tokens, BeginRotate(r, t) PROVE VersionInv'
  <2> DEFINE new == [SignIn("rotate", "row_read") EXCEPT
                       !.token = t, !.epoch = row[t].epoch,
                       !.sound = row[t].sound]
  <2>1. new \in Request
    <3>1. SignIn("rotate", "row_read") \in Request
      BY SignInType DEF Kinds, Pcs
    <3>2. row[t].epoch \in Nat /\ row[t].sound \in BOOLEAN
      BY DEF TypeOK, Row
    <3>3. QED
      BY <3>1, <3>2, TokenEpochSoundType
  <2>2. new.kind = "rotate" /\ new.pc = "row_read"
    BY DEF SignIn, Idle
  <2> HIDE DEF new
  <2>3. QED
    BY <1>5, <2>1, <2>2, StartVersion DEF BeginRotate, new
<1>6. ASSUME NEW t \in Tokens, BeginRevokeOne(r, t) PROVE VersionInv'
  <2> DEFINE new == [Idle EXCEPT !.kind = "revoke_one", !.pc = "mark",
                                 !.token = t]
  <2>1. new \in Request
    BY DEF Idle, Request, Kinds, Pcs
  <2>2. new.kind = "revoke_one" /\ new.pc = "mark"
    BY DEF Idle
  <2> HIDE DEF new
  <2>3. QED
    BY <1>6, <2>1, <2>2, StartVersion DEF BeginRevokeOne, new
<1>7. ASSUME NEW kind \in AccountWide, NEW pc \in Pcs,
             BeginAccountWide(r, kind, pc)
      PROVE  VersionInv'
  <2> DEFINE new == [Idle EXCEPT
                       !.kind = kind, !.pc = pc, !.ver = tokenVersion,
                       !.wasActive = isActive, !.wasDeleted = deletedAt]
  <2>1. new \in Request
    BY DEF Idle, Request, Kinds, TypeOK
  <2>2. new.ver = tokenVersion
    BY DEF Idle
  <2> HIDE DEF new
  <2>3. QED
    BY <1>7, <2>1, <2>2, StartVersion DEF BeginAccountWide, new
<1>8. QED
  BY <1>1, <1>2, <1>3, <1>4, <1>5, <1>6, <1>7

(* The reads, checks and commits that leave the account alone. *)
LEMMA ContinueStepVersion ==
    ASSUME TypeOK, ExchangeInv, VersionInv, NEW r \in Requests,
           \/ LoginCommit(r) \/ MagicCommit(r) \/ RotateCheck(r)
           \/ RotateConsume(r) \/ IssueRead(r) \/ MarkRevoked(r)
           \/ LoadRows(r) \/ Crash(r)
    PROVE  VersionInv'
<1>1. req[r] \in Request /\ tokenVersion \in Nat
  BY DEF TypeOK
<1>2. Idle.kind = "none" /\ Idle.pc = "idle"
  BY DEF Idle
<1>3. CASE LoginCommit(r) \/ RotateCheck(r) \/ RotateConsume(r)
  <2>1. PICK q \in {[req[r] EXCEPT !.pc = "issue"],
                    [req[r] EXCEPT !.pc = "consume"], Idle} : Become(r, q)
    BY <1>3 DEF LoginCommit, RotateCheck, RotateConsume
  <2>2. q \in Request /\ q.pc # "insert" /\ q.kind \notin AccountWide
    BY <1>1, <1>2, <1>3, <2>1, IdleType
       DEF LoginCommit, RotateCheck, RotateConsume, Request, Pcs
  <2>3. CASE RotateConsume(r)
    <3>1. req[r].token \in Tokens /\ Issued(req[r].token)
      BY <2>3 DEF RotateConsume, ExchangeInv, HeldTokensAreIssued
    <3>2. row' = [row EXCEPT ![req[r].token].status = "revoked"]
      BY <2>3 DEF RotateConsume
    <3>3. \A u \in Tokens :
             /\ row'[u].sound = row[u].sound /\ row'[u].ver = row[u].ver
             /\ row'[u].epoch = row[u].epoch
             /\ Issued(u)' => Issued(u)
      BY <3>1, <3>2, MarkedRows
    <3>4. QED
      BY <2>1, <2>2, <2>3, <3>3, BecomeVersion DEF RotateConsume
  <2>4. CASE ~RotateConsume(r)
    BY <1>3, <2>1, <2>2, <2>4, BecomeVersion
       DEF LoginCommit, RotateCheck, Issued
  <2>5. QED
    BY <2>3, <2>4
<1>4. CASE MagicCommit(r) \/ IssueRead(r)
  <2> DEFINE q == [req[r] EXCEPT !.pc = "insert", !.ver = tokenVersion]
  <2>1. q \in Request
    BY <1>1, PcVerType DEF Pcs
  <2>2. q.ver = tokenVersion /\ q.kind \notin AccountWide
    BY <1>1, <1>4 DEF MagicCommit, IssueRead, Request
  <2>3. Become(r, q) /\ UserUnchanged /\ row' = row
    BY <1>4 DEF MagicCommit, IssueRead
  <2> HIDE DEF q
  <2>4. QED
    BY <2>1, <2>2, <2>3, BecomeVersion DEF Issued
<1>5. CASE MarkRevoked(r)
  <2>1. req[r].token \in Tokens /\ Issued(req[r].token)
    BY <1>5 DEF MarkRevoked, ExchangeInv, HeldTokensAreIssued
  <2>2. row' = [row EXCEPT ![req[r].token].status = "revoked"]
    BY <1>5 DEF MarkRevoked
  <2>3. \A u \in Tokens :
           /\ row'[u].sound = row[u].sound /\ row'[u].ver = row[u].ver
           /\ row'[u].epoch = row[u].epoch
           /\ Issued(u)' => Issued(u)
    BY <2>1, <2>2, MarkedRows
  <2>4. QED
    BY <1>2, <1>5, <2>3, IdleType, BecomeVersion DEF MarkRevoked, Finish
<1>6. CASE LoadRows(r)
  <2> DEFINE q == [req[r] EXCEPT !.pc = "commit",
                                 !.seen = {t \in Tokens : Live(t)}]
  <2>1. q \in Request
    BY <1>1, PcSeenType DEF Pcs
  <2>2. q.pc = "commit" /\ q.ver = req[r].ver /\ q.kind = req[r].kind
    BY <1>1 DEF Request
  <2> HIDE DEF q
  <2>3. QED
    BY <1>6, <2>1, <2>2, BecomeVersion DEF LoadRows, Issued, q
<1>7. CASE Crash(r)
  BY <1>2, <1>7, IdleType, BecomeVersion DEF Crash, Finish, Issued
<1>8. QED
  BY <1>3, <1>4, <1>5, <1>6, <1>7

(* A sound token is issued with the present version while nobody is about   *)
(* to raise it.                                                             *)
LEMMA IssueStepVersion ==
    ASSUME TypeOK, FenceInv, VersionInv, NEW r \in Requests, NEW t \in Tokens,
           IssueCommit(r, t)
    PROVE  VersionInv'
<1> DEFINE q == req[r]
<1>1. /\ row'[t].ver = q.ver /\ row'[t].epoch = q.epoch
      /\ row'[t].sound = q.sound
      /\ \A u \in Tokens : u # t => row'[u] = row[u]
  BY DEF IssueCommit, TypeOK
<1>2. req'[r] = Idle /\ \A p \in Requests : p # r => req'[p] = req[p]
  BY DEF IssueCommit, Finish, Become, TypeOK
<1>3. Idle.kind = "none" /\ ~Idle.sound
  BY DEF Idle
<1>4. q.kind \in Issuing /\ q.pc = "insert"
  BY DEF IssueCommit
<1>5. q.sound => /\ q.ver = tokenVersion /\ q.epoch = revocations
                 /\ \A p \in Requests : req[p].kind \notin AccountWide
  BY <1>4 DEF VersionInv, SoundCarriesCurrent, FenceInv, SoundIsCurrent,
              SoundIsCalm, CalmIsAlone
<1>6. tokenVersion \in Nat /\ tokenVersion' = tokenVersion
      /\ revocations' = revocations
  BY DEF IssueCommit, TypeOK
<1>7. SoundIsLoaded'
  BY <1>1, <1>2, <1>3, <1>5, <1>6 DEF VersionInv, SoundIsLoaded, Issued
<1>8. SoundCarriesCurrent'
  BY <1>2, <1>3, <1>6 DEF VersionInv, SoundCarriesCurrent
<1>9. PastIsOutdated'
  BY <1>1, <1>5, <1>6 DEF VersionInv, PastIsOutdated, Issued
<1>10. QED
  BY <1>7, <1>8, <1>9 DEF VersionInv

(* The version written is higher than that of every sound token, even if it *)
(* is not higher than the one it replaces.                                  *)
LEMMA AccountStepVersion ==
    ASSUME TypeOK, FenceInv, ExchangeInv, VersionInv, NEW r \in Requests,
           AccountWideCommit(r)
    PROVE  VersionInv'
<1> DEFINE q == req[r]
<1>1. q.kind \in AccountWide /\ q.pc = "commit" /\ q.ver \in Nat
  BY DEF AccountWideCommit, TypeOK, Request
<1>2. \A u \in Tokens :
         /\ row'[u].sound = row[u].sound /\ row'[u].ver = row[u].ver
         /\ row[u].ver \in Nat
         /\ Issued(u)' => Issued(u)
  BY DEF AccountWideCommit, TypeOK, Row, Issued, ExchangeInv,
         HeldTokensAreIssued
<1>3. req'[r] = Idle /\ \A p \in Requests : p # r => req'[p] = req[p]
  BY DEF AccountWideCommit, Finish, Become, TypeOK
<1>4. Idle.kind = "none"
  BY DEF Idle
<1>5. tokenVersion' = q.ver + 1
  BY DEF AccountWideCommit
<1>6. \A u \in Tokens :
         Issued(u)' /\ row'[u].sound => row'[u].ver < tokenVersion'
  BY <1>1, <1>2, <1>5 DEF VersionInv, SoundIsLoaded
<1>7. SoundIsLoaded'
  BY <1>1, <1>2, <1>3, <1>4, <1>5, <1>6 DEF VersionInv, SoundIsLoaded
<1>8. SoundCarriesCurrent'
  BY <1>1, <1>3, <1>4
     DEF FenceInv, SoundIsCalm, CalmIsAlone, SoundCarriesCurrent
<1>9. PastIsOutdated'
  BY <1>6 DEF PastIsOutdated
<1>10. QED
  BY <1>7, <1>8, <1>9 DEF VersionInv

LEMMA VersionStep ==
    TypeOK /\ FenceInv /\ ExchangeInv /\ VersionInv /\ [Next]_vars => VersionInv'
<1> SUFFICES ASSUME TypeOK, FenceInv, ExchangeInv, VersionInv, [Next]_vars
             PROVE  VersionInv'
  OBVIOUS
<1>1. ASSUME NEW r \in Requests, Step(r) PROVE VersionInv'
  BY <1>1, StartStepVersion, ContinueStepVersion, IssueStepVersion,
     AccountStepVersion
     DEF Step, BeginLogout, BeginRevokeSession, BeginSuspend, BeginActivate,
         BeginReset, BeginRevokeAll, Pcs
<1>2. CASE UNCHANGED vars
  BY <1>2 DEF vars, VersionInv, SoundIsLoaded, SoundCarriesCurrent,
         PastIsOutdated, Issued
<1>3. QED
  BY <1>1, <1>2 DEF Next

(* POST /introspect tells the services that an access token is inactive as  *)
(* soon as a revocation has committed, if its whole chain overlapped none:  *)
(* for any number of revocations at the same time, which may lose           *)
(* increments of token_version.                                             *)
THEOREM IntrospectionHolds == Spec => []IntrospectionFence
<1>1. Init => VersionInv
  BY DEF Init, Idle, Unissued, VersionInv, SoundIsLoaded, SoundCarriesCurrent,
         PastIsOutdated, Issued
<1>2. TypeOK /\ VersionInv => IntrospectionFence
  BY DEF VersionInv, PastIsOutdated, IntrospectionFence, Introspects, TypeOK
<1>3. QED
  BY <1>1, <1>2, VersionStep, TypeCorrect, FenceAlways, ExchangeAlways, PTL
     DEF Spec
=============================================================================
