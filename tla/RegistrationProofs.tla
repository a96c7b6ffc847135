-------------------------- MODULE RegistrationProofs --------------------------
(* Theorems about Registration, for every set of users, addresses, subjects *)
(* and worker slots.                                                        *)
EXTENDS Registration, TLAPS

USE NoUserAssumption, NoAddressAssumption, KeysAssumption

-----------------------------------------------------------------------------
(* Requests. *)

LEMMA IdleType ==
    /\ Idle \in Request /\ Idle.pc = "idle" /\ ~Idle.first
    /\ Idle.user = NoUser /\ Idle.address = NoAddress
BY DEF Idle, Request, Pcs, Emails, Standings

(* The records a request starts with. *)
LEMMA ConsumeType ==
    ASSUME NEW st \in States,
           NEW q, q = [Idle EXCEPT !.pc = "consume", !.state = st]
    PROVE  q \in Request /\ q.pc = "consume" /\ ~q.first
BY DEF Idle, Request, Pcs, Emails, Standings

LEMMA MailType ==
    ASSUME NEW u \in Users,
           NEW q, q = [Idle EXCEPT !.pc = "mail", !.user = u, !.alone = FALSE]
    PROVE  q \in Request /\ q.pc = "mail" /\ q.user = u /\ ~q.first /\ ~q.alone
BY DEF Idle, Request, Pcs, Emails, Standings

(* The records it continues with. *)
LEMMA PcType ==
    ASSUME NEW p \in Request, NEW pc \in Pcs,
           NEW q, q = [p EXCEPT !.pc = pc]
    PROVE  /\ q \in Request /\ q.pc = pc /\ q.address = p.address
           /\ q.subject = p.subject /\ q.user = p.user /\ q.first = p.first
           /\ q.alone = p.alone
BY DEF Request

LEMMA PcStateType ==
    ASSUME NEW p \in Request,
           NEW q, q = [p EXCEPT !.pc = "exchange", !.state = NoState]
    PROVE  q \in Request /\ q.pc = "exchange" /\ q.first = p.first
BY DEF Request, Pcs

(* One request goes on. *)
LEMMA GoFacts ==
    ASSUME TypeOK, NEW r \in Requests, NEW q \in Request, Go(r, q)
    PROVE  /\ req' \in [Requests -> Request] /\ req'[r] = q
           /\ \A s \in Requests : s # r => req'[s] = req[s]
BY DEF Go, TypeOK

LEMMA FinishFacts ==
    ASSUME TypeOK, NEW r \in Requests, Finish(r)
    PROVE  /\ req' \in [Requests -> Request] /\ req'[r] = Idle
           /\ \A s \in Requests : s # r => req'[s] = req[s]
BY IdleType DEF Finish, TypeOK

(* What is read of a request stays. *)
Same(s) ==
    /\ req'[s].pc = req[s].pc /\ req'[s].address = req[s].address
    /\ req'[s].subject = req[s].subject /\ req'[s].user = req[s].user
    /\ req'[s].first = req[s].first /\ req'[s].stood = req[s].stood

(* One enters; the others stay as they are, but none is alone. *)
LEMMA EnterFacts ==
    ASSUME TypeOK, NEW r \in Requests, NEW q \in Request, Enter(r, q),
           q.pc # "idle"
    PROVE  /\ req' \in [Requests -> Request]
           /\ req[r].pc = "idle"
           /\ req'[r].pc = q.pc /\ req'[r].address = q.address
           /\ req'[r].subject = q.subject /\ req'[r].user = q.user
           /\ req'[r].first = q.first
           /\ req'[r].alone => q.pc = "look" /\ Busy = {}
           /\ \A s \in Busy : s # r /\ Same(s) /\ ~req'[s].alone
           /\ \A s \in Requests \ Busy : s # r => req'[s] = Idle
<1>1. /\ req[r].pc = "idle"
      /\ req' = [s \in Requests |->
                   CASE s = r ->
                          [q EXCEPT !.alone = q.pc = "look" /\ Busy = {}]
                     [] s \in Busy -> [req[s] EXCEPT !.alone = FALSE]
                     [] OTHER -> Idle]
  BY DEF Enter
<1>2. r \notin Busy /\ Busy \subseteq Requests
  BY <1>1 DEF Busy
<1> DEFINE b == q.pc = "look" /\ Busy = {}
<1>3. b \in BOOLEAN
  OBVIOUS
<1>4. req'[r] = [q EXCEPT !.alone = b]
  <2>1. req'[r] = CASE r = r ->
                         [q EXCEPT !.alone = q.pc = "look" /\ Busy = {}]
                    [] r \in Busy -> [req[r] EXCEPT !.alone = FALSE]
                    [] OTHER -> Idle
    BY <1>1, Zenon
  <2>2. QED
    BY <1>2, <2>1, Zenon
<1>5. \A s \in Busy : req'[s] = [req[s] EXCEPT !.alone = FALSE]
  <2> SUFFICES ASSUME NEW s \in Busy
               PROVE  req'[s] = [req[s] EXCEPT !.alone = FALSE]
    OBVIOUS
  <2>1. s \in Requests /\ s # r
    BY <1>2
  <2>2. QED
    BY <1>1, <2>1
<1>6. \A s \in Requests \ Busy : s # r => req'[s] = Idle
  BY <1>1
<1>7. \A s \in Requests : req[s] \in Request
  BY DEF TypeOK
<1> HIDE DEF b
<1>8. /\ req'[r] \in Request /\ req'[r].pc = q.pc
      /\ req'[r].address = q.address /\ req'[r].subject = q.subject
      /\ req'[r].user = q.user /\ req'[r].first = q.first
      /\ req'[r].alone = b
  BY <1>3, <1>4 DEF Request
<1>9. ASSUME NEW s \in Busy
      PROVE  req'[s] \in Request /\ Same(s) /\ req'[s].alone = FALSE
  <2>1. req'[s] = [req[s] EXCEPT !.alone = FALSE] /\ req[s] \in Request
    BY <1>2, <1>5, <1>7
  <2>2. QED
    BY <2>1 DEF Request, Same
<1>10. req' \in [Requests -> Request]
  <2>1. \A s \in Requests : req'[s] \in Request
    BY <1>2, <1>6, <1>8, <1>9, IdleType
  <2>2. QED
    BY <1>1, <2>1
<1>11. QED
  BY <1>1, <1>2, <1>6, <1>8, <1>9, <1>10 DEF b

-----------------------------------------------------------------------------
(* What every step leaves to show of the requests it does not touch. *)

Inv == TypeOK /\ BootstrapInv

(* A request that stays as it is, or ends, stays sound. *)
LEMMA StaysSound ==
    ASSUME Inv, NEW s \in Requests, req'[s] = Idle \/ Same(s)
    PROVE  Sound(s)'
<1>1. CASE req'[s] = Idle
  BY <1>1, IdleType DEF Sound, Registering
<1>2. CASE Same(s)
  BY <1>2 DEF Same, Sound, Registering, Inv, BootstrapInv, LoadedIsSound
<1>3. QED
  BY <1>1, <1>2

(* The account of u is verified, or what would verify it is on its way. *)
Covered(u) ==
    \/ user[u].verified \/ u \in lapsed
    \/ \E a \in Addresses : mailed[u][a] > 0
    \/ \E r \in Requests : req[r].pc = "mail" /\ req[r].user = u

LEMMA CoverIs == UnverifiedIsCovered <=> \A u \in Made : Covered(u)
BY DEF UnverifiedIsCovered, Covered

LEMMA StaysCovered ==
    ASSUME Inv, NEW u \in Made,
           user[u].verified => user'[u].verified,
           u \in lapsed => u \in lapsed',
           \A a \in Addresses : mailed[u][a] > 0 => mailed'[u][a] > 0,
           \A s \in Requests :
              req[s].pc = "mail" /\ req[s].user = u =>
                 req'[s].pc = "mail" /\ req'[s].user = u
    PROVE  Covered(u)'
<1>1. Covered(u)
  BY CoverIs DEF Inv, BootstrapInv
<1>2. QED
  BY <1>1 DEF Covered

(* ... or it is known why not. *)
LEMMA Lapsing ==
    ASSUME Inv, NEW u \in Users, Lapse(u)
    PROVE  /\ lapsed' \in SUBSET Users /\ lapsed \subseteq lapsed'
           /\ u \in Made => \/ user[u].verified \/ u \in lapsed'
                           \/ \E a \in Addresses : mailed'[u][a] > 0
BY DEF Lapse, Inv, TypeOK

(* A step of request r that leaves the users as they are. *)
Quiet(r) ==
    /\ UNCHANGED <<user, mailed, links, standing, bereft>>
    /\ identity' \in [Keys -> Users \union {NoUser}]
    /\ states' \in SUBSET States
    /\ lapsed' \in SUBSET Users /\ lapsed \subseteq lapsed'
    /\ req' \in [Requests -> Request]
    /\ Sound(r)'
    /\ \A s \in Requests \ {r} :
          \/ req'[s] = req[s]
          \/ req'[s] = Idle /\ s \notin Busy
          \/ Same(s) /\ ~req'[s].alone
    /\ (req'[r].alone /\ Registering(r)') =>
          /\ \A s \in Busy : s = r
          /\ req'[r].first => Made = {}
    /\ req'[r].first => Made = {} \/ req[r].first
    /\ Registering(r)' /\ ~req'[r].first =>
          Made # {} \/ (Registering(r) /\ ~req[r].first)
    /\ req[r].pc = "mail" =>
          LET u == req[r].user IN
          u \in Made => \/ user[u].verified \/ u \in lapsed'
                       \/ \E a \in Addresses : mailed[u][a] > 0
    /\ r \in Busy \/ \A s \in Busy : ~req'[s].alone

LEMMA QuietStep ==
    ASSUME Inv, NEW r \in Requests, Quiet(r)
    PROVE  Inv'
<1> USE DEF Quiet
<1>1. Made' = Made /\ NoAdmin' = NoAdmin
  BY DEF Made, NoAdmin
<1>2. TypeOK'
  BY DEF Inv, TypeOK
<1>3. LoadedIsSound'
  <2>1. ASSUME NEW s \in Requests, s # r PROVE Sound(s)'
    <3>1. req'[s] = Idle \/ Same(s)
      BY <2>1 DEF Same
    <3>2. QED
      BY <3>1, StaysSound
  <2>2. QED
    BY <2>1 DEF LoadedIsSound
<1>4. AloneIsAlone'
  <2> SUFFICES ASSUME NEW p \in Requests, Registering(p)', req'[p].alone
               PROVE  /\ \A s \in Busy' : s = p
                      /\ req'[p].first => Made' = {}
    BY DEF AloneIsAlone
  <2>1. CASE p = r
    BY <1>1, <2>1, IdleType DEF Busy, Same
  <2>2. CASE p # r
    <3>1. req'[p] = req[p] /\ Registering(p) /\ p \in Busy
      BY <2>2, IdleType DEF Registering, Busy, Same
    <3>2. \A s \in Busy : s = p
      BY <3>1 DEF Inv, BootstrapInv, AloneIsAlone
    <3>3. \A s \in Busy' : s = p
      BY <2>2, <3>1, <3>2, IdleType DEF Busy, Same
    <3>4. req'[p].first => Made' = {}
      BY <1>1, <3>1 DEF Inv, BootstrapInv, AloneIsAlone
    <3>5. QED
      BY <3>3, <3>4
  <2>3. QED
    BY <2>1, <2>2
<1>5. \A s \in Requests \ {r} : req'[s].first => req[s].first
  BY IdleType DEF Same
<1>6. AloneIsFirst'
  BY <1>1, <1>5 DEF Inv, BootstrapInv, AloneIsFirst
<1>7. NobodyBeforeTheFirst'
  <2> SUFFICES ASSUME NoAdmin, ~bereft, NEW s \in Requests, Registering(s)'
               PROVE  Made = {} /\ req'[s].first
    BY <1>1 DEF NobodyBeforeTheFirst, Inv, BootstrapInv
  <2>1. Made = {} /\ \A p \in Requests : Registering(p) => req[p].first
    BY DEF Inv, BootstrapInv, NobodyBeforeTheFirst
  <2>2. CASE s = r
    BY <2>1, <2>2
  <2>3. CASE s # r
    BY <2>1, <2>3, IdleType DEF Registering, Same
  <2>4. QED
    BY <2>1, <2>2, <2>3
<1>8. VerifiedIsProved' /\ FirstIsAdmin'
  BY <1>1 DEF Inv, BootstrapInv, VerifiedIsProved, FirstIsAdmin
<1>9. UnverifiedIsCovered'
  <2> SUFFICES ASSUME NEW u \in Made PROVE Covered(u)'
    BY <1>1 DEF UnverifiedIsCovered, Covered
  <2>1. CASE req[r].pc = "mail" /\ req[r].user = u
    BY <2>1 DEF Covered
  <2>2. CASE ~(req[r].pc = "mail" /\ req[r].user = u)
    <3>1. \A s \in Requests :
             req[s].pc = "mail" /\ req[s].user = u =>
                req'[s].pc = "mail" /\ req'[s].user = u
      BY <2>2 DEF Busy, Same
    <3>2. QED
      BY <3>1, StaysCovered
  <2>3. QED
    BY <2>1, <2>2
<1>10. QED
  BY <1>2, <1>3, <1>4, <1>6, <1>7, <1>8, <1>9 DEF Inv, BootstrapInv

(* A request enters. *)
Starts(q) ==
    /\ q \in Request
    /\ q.pc \in {"look", "change", "consume"}
    /\ q.pc # "consume" => q.address \in Addresses
    /\ q.pc = "change" => q.user \in Users
    /\ q.first <=> q.pc = "look" /\ Made = {}

LEMMA EnterStep ==
    ASSUME Inv, NEW r \in Requests, NEW q, Starts(q), Enter(r, q),
           UNCHANGED <<tables, history>>
    PROVE  Inv'
<1> USE DEF Starts
<1>1. TypeOK /\ Made' = Made
  BY DEF Inv, Made, tables
<1>2. /\ req' \in [Requests -> Request]
      /\ req[r].pc = "idle"
      /\ req'[r].pc = q.pc /\ req'[r].address = q.address
      /\ req'[r].subject = q.subject /\ req'[r].user = q.user
      /\ req'[r].first = q.first
      /\ req'[r].alone => q.pc = "look" /\ Busy = {}
      /\ \A s \in Busy : s # r /\ Same(s) /\ ~req'[s].alone
      /\ \A s \in Requests \ Busy : s # r => req'[s] = Idle
  BY <1>1, EnterFacts
<1>3. Sound(r)'
  BY <1>1, <1>2 DEF Sound, Registering
<1>4. Quiet(r)
  BY <1>1, <1>2, <1>3, IdleType
     DEF Quiet, tables, history, TypeOK, Registering, Busy, Same
<1>5. QED
  BY <1>4, QuietStep

(* A request that has not touched the accounts goes on, or ends. *)
Continues(r, q) ==
    /\ q \in Request
    /\ q.pc \in {"look", "create", "find", "link", "join", "change"}
         => q.address \in Addresses
    /\ q.pc \in {"find", "link", "join"} => q.subject \in Subjects
    /\ q.pc \in {"mail", "link", "change"} => q.user \in Users
    /\ q.pc = "link" => q.stood # "none"
    /\ q.first => req[r].first /\ q.pc = "create"
    /\ q.pc # "look"
    /\ q.pc = "create" => /\ Registering(r) /\ q.first = req[r].first
                          /\ q.alone = req[r].alone

Leaves(r) ==
    /\ UNCHANGED <<user, mailed, links, standing, bereft>>
    /\ identity' \in [Keys -> Users \union {NoUser}]
    /\ states' \in SUBSET States
    /\ lapsed' \in SUBSET Users /\ lapsed \subseteq lapsed'
    /\ req[r].pc = "mail" =>
          LET u == req[r].user IN
          u \in Made => \/ user[u].verified \/ u \in lapsed'
                       \/ \E a \in Addresses : mailed[u][a] > 0

LEMMA GoStep ==
    ASSUME Inv, NEW r \in Busy, NEW q, Continues(r, q), Go(r, q), Leaves(r)
    PROVE  Inv'
<1> USE DEF Continues, Leaves
<1>1. TypeOK /\ Made' = Made /\ r \in Requests
  BY DEF Inv, Made, Busy
<1>2. /\ req' \in [Requests -> Request] /\ req'[r] = q
      /\ \A s \in Requests : s # r => req'[s] = req[s]
  BY <1>1, GoFacts
<1>3. Sound(r)
  BY <1>1 DEF Inv, BootstrapInv, LoadedIsSound
<1>4. Sound(r)'
  BY <1>1, <1>2, <1>3 DEF Sound, Registering
<1>5. (req'[r].alone /\ Registering(r)') =>
          /\ \A s \in Busy : s = r
          /\ req'[r].first => Made = {}
  BY <1>1, <1>2 DEF Inv, BootstrapInv, AloneIsAlone, Registering
<1>6. /\ req'[r].first => Made = {} \/ req[r].first
      /\ Registering(r)' /\ ~req'[r].first =>
            Made # {} \/ (Registering(r) /\ ~req[r].first)
  BY <1>2 DEF Registering
<1>7. \A s \in Requests \ {r} : req'[s] = req[s]
  BY <1>2
<1>8. \A s \in Requests \ {r} :
         \/ req'[s] = req[s]
         \/ req'[s] = Idle /\ s \notin Busy
         \/ Same(s) /\ ~req'[s].alone
  BY <1>7, Zenon
<1>9. req' \in [Requests -> Request]
  BY <1>2
<1>10. Leaves(r)
  OBVIOUS
<1> HIDE DEF Continues, Leaves
<1>11. Quiet(r)
  BY <1>4, <1>5, <1>6, <1>8, <1>9, <1>10, Zenon DEF Quiet, Leaves
<1>12. QED
  BY <1>1, <1>11, QuietStep

LEMMA FinishStep ==
    ASSUME Inv, NEW r \in Busy, Finish(r), Leaves(r)
    PROVE  Inv'
<1>1. Continues(r, Idle)
  BY IdleType DEF Continues
<1>2. Go(r, Idle)
  BY DEF Finish, Go
<1>3. QED
  BY <1>1, <1>2, GoStep

-----------------------------------------------------------------------------
(* The steps that read and wait. *)

LEMMA BeginFacts ==
    ASSUME Inv, NEW r \in Requests,
           \/ \E a \in Addresses : BeginRegister(r, a)
           \/ \E a \in Addresses, u \in Users : BeginChange(r, u, a)
           \/ \E st \in States : BeginCallback(r, st)
    PROVE  \E q : Starts(q) /\ Enter(r, q) /\ UNCHANGED <<tables, history>>
<1> DEFINE Goal == \E q : /\ Starts(q) /\ Enter(r, q)
                         /\ UNCHANGED <<tables, history>>
<1>1. ASSUME NEW a \in Addresses, BeginRegister(r, a) PROVE Goal
  <2>1. PICK b \in BOOLEAN : b = (Made = {})
    OBVIOUS
  <2>2. PICK q : q = [Idle EXCEPT !.pc = "look", !.address = a, !.first = b]
    OBVIOUS
  <2>3. Enter(r, q) /\ UNCHANGED <<tables, history>>
    BY <1>1, <2>1, <2>2, Zenon DEF BeginRegister
  <2>4. q \in Request /\ q.pc = "look" /\ q.address = a /\ q.first = b
    BY <2>2 DEF Idle, Request, Pcs, Emails, Standings
  <2>5. Starts(q)
    BY <2>1, <2>4 DEF Starts
  <2>6. QED
    BY <2>3, <2>5
<1>2. ASSUME NEW a \in Addresses, NEW u \in Users, BeginChange(r, u, a)
      PROVE  Goal
  <2>1. PICK q : q = [Idle EXCEPT !.pc = "change", !.user = u, !.address = a,
                                  !.held = user[u].email,
                                  !.was = user[u].verified]
    OBVIOUS
  <2>2. Enter(r, q) /\ UNCHANGED <<tables, history>> /\ u \in Made
    BY <1>2, <2>1 DEF BeginChange
  <2>3. user[u].email \in Emails /\ user[u].verified \in BOOLEAN
    BY DEF Inv, TypeOK, User
  <2>4. /\ q \in Request /\ q.pc = "change" /\ q.user = u /\ q.address = a
        /\ ~q.first
    BY <2>1, <2>3 DEF Idle, Request, Pcs, Emails, Standings
  <2>5. Starts(q)
    BY <2>2, <2>4 DEF Starts
  <2>6. QED
    BY <2>2, <2>5
<1>3. ASSUME NEW st \in States, BeginCallback(r, st) PROVE Goal
  <2> DEFINE q == [Idle EXCEPT !.pc = "consume", !.state = st]
  <2>1. Enter(r, q) /\ UNCHANGED <<tables, history>>
    BY <1>3 DEF BeginCallback
  <2>2. q \in Request /\ q.pc = "consume" /\ ~q.first
    BY ConsumeType
  <2> HIDE DEF q
  <2>3. Starts(q)
    BY <2>2 DEF Starts
  <2>4. QED
    BY <2>1, <2>3
<1>4. QED
  BY <1>1, <1>2, <1>3

LEMMA BeginStep ==
    ASSUME Inv, NEW r \in Requests,
           \/ \E a \in Addresses : BeginRegister(r, a)
           \/ \E a \in Addresses, u \in Users : BeginChange(r, u, a)
           \/ \E st \in States : BeginCallback(r, st)
    PROVE  Inv'
BY BeginFacts, EnterStep

LEMMA InFlight ==
    ASSUME Inv, NEW r \in Requests, req[r].pc # "idle"
    PROVE  req[r] \in Request /\ r \in Busy /\ Sound(r)
BY DEF Inv, TypeOK, BootstrapInv, LoadedIsSound, Busy

LEMMA LookStep ==
    ASSUME Inv, NEW r \in Requests, LookAddress(r)
    PROVE  Inv'
<1> DEFINE q == [req[r] EXCEPT !.pc = "create"]
<1>1. req[r].pc = "look" /\ (Go(r, q) \/ Finish(r))
  BY DEF LookAddress
<1>2. req[r] \in Request /\ r \in Busy /\ Sound(r)
  BY <1>1, InFlight
<1>3. /\ q \in Request /\ q.pc = "create" /\ q.address = req[r].address
      /\ q.first = req[r].first /\ q.alone = req[r].alone
  BY <1>2, PcType DEF Pcs
<1>4. Leaves(r)
  BY <1>1 DEF LookAddress, tables, history, Leaves, Inv, TypeOK
<1> HIDE DEF q
<1>5. CASE Go(r, q)
  <2>1. Continues(r, q)
    BY <1>1, <1>2, <1>3 DEF Continues, Sound, Registering
  <2>2. QED
    BY <1>2, <1>4, <1>5, <2>1, GoStep
<1>6. CASE Finish(r)
  BY <1>2, <1>4, <1>6, FinishStep
<1>7. QED
  BY <1>1, <1>5, <1>6

LEMMA ConsumeStep ==
    ASSUME Inv, NEW r \in Requests, ConsumeState(r)
    PROVE  Inv'
<1> DEFINE q == [req[r] EXCEPT !.pc = "exchange", !.state = NoState]
<1>1. req[r].pc = "consume" /\ Go(r, q)
  BY DEF ConsumeState
<1>2. req[r] \in Request /\ r \in Busy /\ Sound(r)
  BY <1>1, InFlight
<1>3. q \in Request /\ q.pc = "exchange" /\ q.first = req[r].first
  BY <1>2, PcStateType
<1>4. Leaves(r)
  BY <1>1 DEF ConsumeState, history, Leaves, Inv, TypeOK
<1> HIDE DEF q
<1>5. Continues(r, q)
  BY <1>1, <1>2, <1>3 DEF Continues, Sound, Registering
<1>6. QED
  BY <1>1, <1>2, <1>4, <1>5, GoStep

LEMMA ExchangeStep ==
    ASSUME Inv, NEW r \in Requests, NEW t \in Subjects, NEW a \in Addresses,
           Exchange(r, t, a)
    PROVE  Inv'
<1> DEFINE q == [req[r] EXCEPT !.pc = "find", !.subject = t, !.address = a]
<1>1. req[r].pc = "exchange" /\ (Go(r, q) \/ Finish(r))
  BY DEF Exchange
<1>2. req[r] \in Request /\ r \in Busy /\ Sound(r)
  BY <1>1, InFlight
<1>3. /\ q \in Request /\ q.pc = "find" /\ q.subject = t /\ q.address = a
      /\ q.first = req[r].first
  BY <1>2 DEF Request, Pcs, Emails
<1>4. Leaves(r)
  BY <1>1 DEF Exchange, tables, history, Leaves, Inv, TypeOK
<1> HIDE DEF q
<1>5. CASE Go(r, q)
  <2>1. Continues(r, q)
    BY <1>1, <1>2, <1>3 DEF Continues, Sound, Registering
  <2>2. QED
    BY <1>2, <1>4, <1>5, <2>1, GoStep
<1>6. CASE Finish(r)
  BY <1>2, <1>4, <1>6, FinishStep
<1>7. QED
  BY <1>1, <1>5, <1>6

(* Who is found verified has a standing: VerifiedIsProved. *)
LEMMA FindStep ==
    ASSUME Inv, NEW r \in Requests, FindAddress(r)
    PROVE  Inv'
<1>1. req[r].pc = "find"
  BY DEF FindAddress
<1>2. req[r] \in Request /\ r \in Busy /\ Sound(r)
  BY <1>1, InFlight
<1>3. /\ req[r].address \in Addresses /\ req[r].subject \in Subjects
      /\ ~req[r].first
  BY <1>1, <1>2 DEF Sound, Registering
<1>4. Leaves(r)
  BY <1>1 DEF FindAddress, tables, history, Leaves, Inv, TypeOK
<1>5. CASE Go(r, [req[r] EXCEPT !.pc = "join"])
  <2> DEFINE q == [req[r] EXCEPT !.pc = "join"]
  <2>1. /\ q \in Request /\ q.pc = "join" /\ q.address = req[r].address
        /\ q.subject = req[r].subject /\ q.first = req[r].first
    BY <1>2, PcType DEF Pcs
  <2>2. Go(r, q)
    BY <1>5
  <2> HIDE DEF q
  <2>3. Continues(r, q)
    BY <1>3, <2>1 DEF Continues
  <2>4. QED
    BY <1>2, <1>4, <2>2, <2>3, GoStep
<1>6. ASSUME NEW u \in Holders(req[r].address), user[u].verified,
             Go(r, [req[r] EXCEPT !.pc = "link", !.user = u,
                                  !.stood = standing[u]])
      PROVE  Inv'
  <2> DEFINE q == [req[r] EXCEPT !.pc = "link", !.user = u,
                                 !.stood = standing[u]]
  <2>1. u \in Users /\ standing[u] \in Standings /\ standing[u] # "none"
    BY <1>3, <1>6
       DEF Holders, Made, Inv, TypeOK, BootstrapInv, VerifiedIsProved
  <2>2. /\ q \in Request /\ q.pc = "link" /\ q.user = u
        /\ q.subject = req[r].subject /\ q.address = req[r].address
        /\ q.first = req[r].first /\ q.stood = standing[u]
    BY <1>2, <2>1 DEF Request, Pcs
  <2>3. Go(r, q)
    BY <1>6
  <2> HIDE DEF q
  <2>4. Continues(r, q)
    BY <1>3, <2>1, <2>2 DEF Continues
  <2>5. QED
    BY <1>2, <1>4, <2>3, <2>4, GoStep
<1>7. CASE Finish(r)
  BY <1>2, <1>4, <1>7, FinishStep
<1>8. QED
  BY <1>5, <1>6, <1>7 DEF FindAddress

LEMMA LinkStep ==
    ASSUME Inv, NEW r \in Requests, Link(r)
    PROVE  Inv'
<1>1. req[r].pc = "link" /\ Finish(r)
  BY DEF Link
<1>2. req[r] \in Request /\ r \in Busy /\ Sound(r)
  BY <1>1, InFlight
<1>3. req[r].user \in Users
  BY <1>1, <1>2 DEF Sound, Made
<1>4. Leaves(r)
  BY <1>1, <1>3 DEF Link, history, Leaves, Inv, TypeOK
<1>5. QED
  BY <1>1, <1>2, <1>4, FinishStep

LEMMA CrashStep ==
    ASSUME Inv, NEW r \in Requests, Crash(r)
    PROVE  Inv'
<1>1. /\ r \in Busy /\ Finish(r)
      /\ UNCHANGED <<user, identity, mailed, links, states, standing, bereft>>
      /\ IF req[r].pc = "mail" THEN Lapse(req[r].user) ELSE UNCHANGED lapsed
  BY DEF Crash, tables
<1>2. req[r].pc = "mail" => req[r].user \in Users
  BY <1>1, InFlight DEF Busy, Sound
<1>3. Leaves(r)
  BY <1>1, <1>2, Lapsing DEF Leaves, Inv, TypeOK
<1>4. QED
  BY <1>1, <1>3, FinishStep

(* Whatever leaves the users, the mails and the requests alone. *)
LEMMA Untouched ==
    ASSUME Inv, TypeOK',
           UNCHANGED <<user, mailed, req, standing, lapsed, bereft>>
    PROVE  Inv'
<1>1. Made' = Made /\ Busy' = Busy /\ NoAdmin' = NoAdmin
  BY DEF Made, Busy, NoAdmin
<1>2. LoadedIsSound' /\ AloneIsAlone' /\ AloneIsFirst' /\ NobodyBeforeTheFirst'
  BY <1>1 DEF Inv, BootstrapInv, LoadedIsSound, AloneIsAlone, AloneIsFirst,
     NobodyBeforeTheFirst, Sound, Registering
<1>3. VerifiedIsProved' /\ FirstIsAdmin' /\ UnverifiedIsCovered'
  BY <1>1 DEF Inv, BootstrapInv, VerifiedIsProved, FirstIsAdmin,
     UnverifiedIsCovered
<1>4. QED
  BY <1>2, <1>3 DEF Inv, BootstrapInv

LEMMA StateStep ==
    ASSUME Inv, \/ StartAndForget
                \/ \E st \in States : StartOAuth(st)
    PROVE  Inv'
<1>1. /\ UNCHANGED <<user, identity, mailed, links, req, standing, lapsed,
                     bereft>>
      /\ states' \in SUBSET States
  BY DEF StartAndForget, StartOAuth, history, Inv, TypeOK
<1>2. TypeOK'
  BY <1>1 DEF Inv, TypeOK
<1>3. QED
  BY <1>1, <1>2, Untouched

LEMMA ExpireLinkStep ==
    ASSUME Inv, NEW u \in Users, NEW a \in Addresses, ExpireLink(u, a)
    PROVE  Inv'
<1>1. /\ UNCHANGED <<user, identity, mailed, states, req, standing, lapsed,
                     bereft>>
      /\ links' = [links EXCEPT ![u] = @ \ {a}]
  BY DEF ExpireLink, history
<1>2. TypeOK'
  BY <1>1 DEF Inv, TypeOK
<1>3. QED
  BY <1>1, <1>2, Untouched

-----------------------------------------------------------------------------
(* The steps that change users. *)

(* The requests after a step of r that ends it or leaves a mail to send. *)
LEMMA OthersStay ==
    ASSUME Inv, NEW r \in Busy, NEW q \in Request, Go(r, q),
           q.pc \in {"mail", "idle"}, ~q.first,
           q.pc = "mail" => q.user \in Users
    PROVE  /\ req' \in [Requests -> Request] /\ req'[r] = q
           /\ LoadedIsSound' /\ AloneIsAlone'
           /\ \A s \in Requests : s # r => req'[s] = req[s]
           /\ \A s \in Requests : req'[s].first => req[s].first /\ s # r
           /\ \A s \in Requests : Registering(s)' => Registering(s) /\ s # r
<1>1. TypeOK /\ r \in Requests
  BY DEF Inv, Busy
<1>2. /\ req' \in [Requests -> Request] /\ req'[r] = q
      /\ \A s \in Requests : s # r => req'[s] = req[s]
  BY <1>1, GoFacts
<1>3. \A s \in Requests : Registering(s)' => Registering(s) /\ s # r
  BY <1>2 DEF Registering
<1>4. LoadedIsSound'
  <2>1. Sound(r)'
    BY <1>2 DEF Sound, Registering
  <2>2. ASSUME NEW s \in Requests, s # r PROVE Sound(s)'
    BY <1>2, <2>2, StaysSound DEF Same
  <2>3. QED
    BY <2>1, <2>2 DEF LoadedIsSound
<1>5. ASSUME NEW p \in Requests, Registering(p)', req'[p].alone PROVE FALSE
  <2>1. p # r /\ req'[p] = req[p] /\ Registering(p) /\ req[p].alone
    BY <1>2, <1>3, <1>5
  <2>2. \A s \in Busy : s = p
    BY <2>1 DEF Inv, BootstrapInv, AloneIsAlone
  <2>3. QED
    BY <2>1, <2>2
<1>6. AloneIsAlone'
  BY <1>5 DEF AloneIsAlone
<1>7. QED
  BY <1>2, <1>3, <1>4, <1>6

(* ... and after a step that is no request's. *)
LEMMA NobodyMoves ==
    ASSUME Inv, req' = req, Made' \subseteq Made
    PROVE  LoadedIsSound' /\ AloneIsAlone'
<1>1. LoadedIsSound'
  BY DEF Inv, BootstrapInv, LoadedIsSound, Sound, Registering
<1>2. AloneIsAlone'
  BY DEF Inv, BootstrapInv, AloneIsAlone, Registering, Busy
<1>3. QED
  BY <1>1, <1>2

(* Administrators, when no account is made or deleted. *)
LEMMA RolesStay ==
    ASSUME Inv, Made' = Made, bereft' = bereft,
           \A u \in Users : /\ user'[u].admin = user[u].admin
                            /\ user'[u].alone = user[u].alone,
           \A s \in Requests : req'[s].first => req[s].first,
           \A s \in Requests : Registering(s)' =>
              Registering(s) /\ req'[s].first = req[s].first
    PROVE  AloneIsFirst' /\ FirstIsAdmin' /\ NobodyBeforeTheFirst'
<1>1. Made \subseteq Users
  BY DEF Made
<1>2. AloneIsFirst'
  BY <1>1 DEF Inv, BootstrapInv, AloneIsFirst
<1>3. /\ {u \in Made : user[u].admin}' = {u \in Made : user[u].admin}
      /\ NoAdmin' = NoAdmin
  BY <1>1 DEF NoAdmin
<1>4. FirstIsAdmin'
  <2>1. FirstIsAdmin
    BY DEF Inv, BootstrapInv
  <2>2. QED
    BY <1>1, <1>3, <2>1 DEF FirstIsAdmin
<1>5. NobodyBeforeTheFirst'
  BY <1>3 DEF Inv, BootstrapInv, NobodyBeforeTheFirst
<1>6. QED
  BY <1>2, <1>4, <1>5

LEMMA MailStep ==
    ASSUME Inv, NEW r \in Requests, MailToken(r)
    PROVE  Inv'
<1> DEFINE u == req[r].user
           a == user[u].email
<1>1. /\ req[r].pc = "mail" /\ Finish(r)
      /\ UNCHANGED <<user, identity, links, states, standing, bereft>>
  BY DEF MailToken
<1>2. req[r] \in Request /\ r \in Busy /\ Sound(r)
  BY <1>1, InFlight
<1>3. u \in Users /\ Made' = Made
  BY <1>1, <1>2 DEF Sound, Made
<1> HIDE DEF u
<1>4. CASE UNCHANGED mailed /\ Lapse(u)
  <2>1. Leaves(r)
    BY <1>1, <1>3, <1>4, Lapsing DEF Leaves, Inv, TypeOK, u
  <2>2. QED
    BY <1>1, <1>2, <2>1, FinishStep
<1>5. CASE /\ u \in Made
           /\ mailed' = [mailed EXCEPT ![u][a] = @ + 1]
           /\ lapsed' = lapsed \ {u}
  <2>1. a \in Addresses /\ mailed \in [Users -> [Addresses -> Nat]]
    BY <1>3, <1>5 DEF Made, Inv, TypeOK, User, Emails
  <2> HIDE DEF a
  <2>2. /\ mailed' \in [Users -> [Addresses -> Nat]]
        /\ mailed'[u][a] > 0
        /\ \A v \in Users, b \in Addresses :
              mailed[v][b] > 0 => mailed'[v][b] > 0
    BY <1>3, <1>5, <2>1
  <2>3. Go(r, Idle)
    BY <1>1 DEF Go, Finish
  <2>4. /\ req' \in [Requests -> Request]
        /\ LoadedIsSound' /\ AloneIsAlone'
        /\ \A s \in Requests : s # r => req'[s] = req[s]
        /\ \A s \in Requests : req'[s].first => req[s].first /\ s # r
        /\ \A s \in Requests : Registering(s)' => Registering(s) /\ s # r
    BY <1>2, <2>3, IdleType, OthersStay
  <2>5. TypeOK'
    BY <1>1, <1>5, <2>2, <2>4 DEF Inv, TypeOK
  <2>6. AloneIsFirst' /\ FirstIsAdmin' /\ NobodyBeforeTheFirst'
    BY <1>1, <1>3, <2>4, RolesStay
  <2>7. VerifiedIsProved'
    BY <1>1, <1>3 DEF Inv, BootstrapInv, VerifiedIsProved
  <2>8. UnverifiedIsCovered'
    <3> SUFFICES ASSUME NEW v \in Made PROVE Covered(v)'
      BY <1>3 DEF UnverifiedIsCovered, Covered
    <3>1. CASE v = u
      BY <2>1, <2>2, <3>1 DEF Covered
    <3>2. CASE v # u
      <4>1. v \in Users
        BY DEF Made
      <4>2. \A s \in Requests :
               req[s].pc = "mail" /\ req[s].user = v =>
                  req'[s].pc = "mail" /\ req'[s].user = v
        BY <2>4, <3>2 DEF u
      <4>3. /\ user[v].verified => user'[v].verified
            /\ v \in lapsed => v \in lapsed'
            /\ \A b \in Addresses : mailed[v][b] > 0 => mailed'[v][b] > 0
        BY <1>1, <1>5, <2>2, <3>2, <4>1
      <4>4. QED
        BY <4>2, <4>3, StaysCovered
    <3>3. QED
      BY <3>1, <3>2
  <2>9. QED
    BY <2>4, <2>5, <2>6, <2>7, <2>8 DEF Inv, BootstrapInv
<1>6. QED
  BY <1>4, <1>5 DEF MailToken, u

(* A user who proves to receive mail is verified, and has a standing: where *)
(* it is kept the account was verified before.                              *)
LEMMA ProofStep ==
    ASSUME Inv, NEW u \in Made, NEW a, Proves(u, a),
           mailed' \in [Users -> [Addresses -> Nat]],
           links' \in [Users -> SUBSET Addresses],
           \A v \in Users \ {u} : mailed'[v] = mailed[v],
           UNCHANGED <<identity, states, req, bereft>>
    PROVE  Inv'
<1>1. /\ u \in Users /\ user \in [Users -> User]
      /\ standing \in [Users -> Standings]
  BY DEF Made, Inv, TypeOK
<1>2. /\ user' \in [Users -> User] /\ user'[u].verified
      /\ \A v \in Users : /\ user'[v].email = user[v].email
                          /\ user'[v].admin = user[v].admin
                          /\ user'[v].alone = user[v].alone
                          /\ v # u => user'[v] = user[v]
  <2> DEFINE row == [user[u] EXCEPT !.verified = TRUE]
  <2>1. user' = [user EXCEPT ![u] = row] /\ user[u] \in User
    BY <1>1 DEF Proves
  <2>2. /\ row \in User /\ row.verified /\ row.email = user[u].email
        /\ row.admin = user[u].admin /\ row.alone = user[u].alone
    BY <2>1 DEF User
  <2> HIDE DEF row
  <2>3. QED
    BY <1>1, <2>1, <2>2
<1>3. /\ standing' \in [Users -> Standings] /\ standing'[u] # "none"
      /\ \A v \in Users : v # u => standing'[v] = standing[v]
  <2>1. user[u].verified => standing[u] # "none"
    BY DEF Inv, BootstrapInv, VerifiedIsProved
  <2>2. PICK s \in Standings : s # "none"
                               /\ standing' = [standing EXCEPT ![u] = s]
    <3>1. CASE a = user[u].email
      BY <3>1 DEF Proves, Standings
    <3>2. CASE a # user[u].email /\ user[u].verified
      BY <1>1, <2>1, <3>2 DEF Proves, Standings
    <3>3. CASE a # user[u].email /\ ~user[u].verified
      BY <3>3 DEF Proves, Standings
    <3>4. QED
      BY <3>1, <3>2, <3>3
  <2>3. QED
    BY <1>1, <2>2
<1>4. lapsed' = lapsed \ {u}
  BY DEF Proves
<1>5. Made' = Made
  BY <1>2 DEF Made
<1>6. TypeOK'
  BY <1>2, <1>3, <1>4 DEF Inv, TypeOK
<1>7. LoadedIsSound' /\ AloneIsAlone'
  BY <1>5, NobodyMoves
<1>8. AloneIsFirst' /\ FirstIsAdmin' /\ NobodyBeforeTheFirst'
  BY <1>2, <1>5, RolesStay DEF Registering
<1>9. VerifiedIsProved'
  BY <1>1, <1>2, <1>3, <1>5 DEF Inv, BootstrapInv, VerifiedIsProved, Made
<1>10. UnverifiedIsCovered'
  <2> SUFFICES ASSUME NEW v \in Made PROVE Covered(v)'
    BY <1>5 DEF UnverifiedIsCovered, Covered
  <2>1. CASE v = u
    BY <1>2, <2>1 DEF Covered
  <2>2. CASE v # u
    <3>1. v \in Users
      BY DEF Made
    <3>2. QED
      BY <1>2, <1>4, <2>2, <3>1, StaysCovered
  <2>3. QED
    BY <2>1, <2>2
<1>11. QED
  BY <1>6, <1>7, <1>8, <1>9, <1>10 DEF Inv, BootstrapInv

(* A token that was out is not any more. *)
LEMMA Spend ==
    ASSUME Inv, NEW u \in Users, NEW a \in Addresses, mailed[u][a] > 0,
           mailed' = [mailed EXCEPT ![u][a] = @ - 1]
    PROVE  /\ mailed' \in [Users -> [Addresses -> Nat]]
           /\ \A v \in Users \ {u} : mailed'[v] = mailed[v]
<1>1. mailed \in [Users -> [Addresses -> Nat]]
  BY DEF Inv, TypeOK
<1>2. mailed[u][a] - 1 \in Nat
  BY <1>1
<1>3. QED
  BY <1>1, <1>2

LEMMA VerifyStep ==
    ASSUME Inv, NEW u \in Users, NEW a \in Addresses, Verify(u, a)
    PROVE  Inv'
<1>1. /\ u \in Made /\ mailed[u][a] > 0 /\ Proves(u, a)
      /\ mailed' = [mailed EXCEPT ![u][a] = @ - 1]
      /\ UNCHANGED <<identity, links, states, req, bereft>>
  BY DEF Verify
<1>2. /\ mailed' \in [Users -> [Addresses -> Nat]]
      /\ \A v \in Users \ {u} : mailed'[v] = mailed[v]
  BY <1>1, Spend
<1>3. links' \in [Users -> SUBSET Addresses]
  BY <1>1 DEF Inv, TypeOK
<1>4. QED
  BY <1>1, <1>2, <1>3, ProofStep

LEMMA SignInStep ==
    ASSUME Inv, NEW u \in Users, NEW a \in Addresses, SignInByMail(u, a)
    PROVE  Inv'
<1>1. /\ u \in Made /\ Proves(u, a)
      /\ links' = [links EXCEPT ![u] = @ \ {a}]
      /\ UNCHANGED <<identity, mailed, states, req, bereft>>
  BY DEF SignInByMail
<1>2. /\ mailed' \in [Users -> [Addresses -> Nat]]
      /\ \A v \in Users \ {u} : mailed'[v] = mailed[v]
      /\ links' \in [Users -> SUBSET Addresses]
  BY <1>1 DEF Inv, TypeOK
<1>3. QED
  BY <1>1, <1>2, ProofStep

(* The last token of an unverified account does not expire unnoticed. *)
LEMMA ExpireTokenStep ==
    ASSUME Inv, NEW u \in Users, NEW a \in Addresses, ExpireToken(u, a)
    PROVE  Inv'
<1>1. /\ mailed[u][a] > 0 /\ Lapse(u)
      /\ mailed' = [mailed EXCEPT ![u][a] = @ - 1]
      /\ UNCHANGED <<user, identity, links, states, req, standing, bereft>>
  BY DEF ExpireToken
<1>2. /\ mailed' \in [Users -> [Addresses -> Nat]]
      /\ \A v \in Users \ {u} : mailed'[v] = mailed[v]
  BY <1>1, Spend
<1>3. /\ lapsed' \in SUBSET Users /\ lapsed \subseteq lapsed'
      /\ u \in Made => \/ user[u].verified \/ u \in lapsed'
                       \/ \E b \in Addresses : mailed'[u][b] > 0
  BY <1>1, Lapsing
<1>4. Made' = Made
  BY <1>1 DEF Made
<1>5. TypeOK'
  BY <1>1, <1>2, <1>3 DEF Inv, TypeOK
<1>6. LoadedIsSound' /\ AloneIsAlone'
  BY <1>1, <1>4, NobodyMoves
<1>7. AloneIsFirst' /\ FirstIsAdmin' /\ NobodyBeforeTheFirst'
  BY <1>1, <1>4, RolesStay DEF Registering
<1>8. VerifiedIsProved'
  BY <1>1, <1>4 DEF Inv, BootstrapInv, VerifiedIsProved
<1>9. UnverifiedIsCovered'
  <2> SUFFICES ASSUME NEW v \in Made PROVE Covered(v)'
    BY <1>4 DEF UnverifiedIsCovered, Covered
  <2>1. CASE v = u
    BY <1>1, <1>3, <2>1 DEF Covered
  <2>2. CASE v # u
    <3>1. v \in Users
      BY DEF Made
    <3>2. QED
      BY <1>1, <1>2, <1>3, <2>2, <3>1, StaysCovered
  <2>3. QED
    BY <2>1, <2>2
<1>10. QED
  BY <1>5, <1>6, <1>7, <1>8, <1>9 DEF Inv, BootstrapInv

LEMMA AskLinkStep ==
    ASSUME Inv, NEW u \in Users, AskLink(u)
    PROVE  Inv'
<1>1. /\ u \in Made
      /\ links' = [links EXCEPT ![u] = @ \union {user[u].email}]
      /\ user' = [user EXCEPT ![u].asked = TRUE]
      /\ UNCHANGED <<identity, mailed, states, req, standing, lapsed, bereft>>
  BY DEF AskLink, history
<1>2. /\ user \in [Users -> User] /\ links \in [Users -> SUBSET Addresses]
      /\ user[u].email \in Addresses
  BY <1>1 DEF Inv, TypeOK, User, Emails, Made
<1>3. /\ user' \in [Users -> User]
      /\ \A v \in Users : /\ user'[v].email = user[v].email
                          /\ user'[v].verified = user[v].verified
                          /\ user'[v].admin = user[v].admin
                          /\ user'[v].alone = user[v].alone
  <2> DEFINE row == [user[u] EXCEPT !.asked = TRUE]
  <2>1. user' = [user EXCEPT ![u] = row] /\ user[u] \in User
    BY <1>1, <1>2
  <2>2. /\ row \in User /\ row.verified = user[u].verified
        /\ row.email = user[u].email
        /\ row.admin = user[u].admin /\ row.alone = user[u].alone
    BY <2>1 DEF User
  <2> HIDE DEF row
  <2>3. QED
    BY <1>2, <2>1, <2>2
<1>4. Made' = Made
  BY <1>3 DEF Made
<1>5. TypeOK'
  BY <1>1, <1>2, <1>3 DEF Inv, TypeOK
<1>6. LoadedIsSound' /\ AloneIsAlone'
  BY <1>1, <1>4, NobodyMoves
<1>7. AloneIsFirst' /\ FirstIsAdmin' /\ NobodyBeforeTheFirst'
  BY <1>1, <1>3, <1>4, RolesStay DEF Registering
<1>8. VerifiedIsProved'
  BY <1>1, <1>3, <1>4 DEF Inv, BootstrapInv, VerifiedIsProved, Made
<1>9. UnverifiedIsCovered'
  BY <1>1, <1>3, <1>4
     DEF Inv, BootstrapInv, UnverifiedIsCovered, Made
<1>10. QED
  BY <1>5, <1>6, <1>7, <1>8, <1>9 DEF Inv, BootstrapInv

(* Unless verified_at was loaded as NULL and is not any longer, a change of *)
(* address resets it.                                                       *)
LEMMA ChangeStep ==
    ASSUME Inv, NEW r \in Requests, Change(r)
    PROVE  Inv'
<1> DEFINE q == req[r]
           u == q.user
           moves == q.address # q.held
           stays == user[u].verified /\ ~q.was
           m == [Idle EXCEPT !.pc = "mail", !.user = u, !.alone = FALSE]
<1>1. /\ q.pc = "change"
      /\ UNCHANGED <<identity, mailed, links, states, lapsed, bereft>>
  BY DEF Change
<1>2. req[r] \in Request /\ r \in Busy /\ Sound(r)
  BY <1>1, InFlight
<1>3. u \in Users /\ q.address \in Addresses /\ q.was \in BOOLEAN
  BY <1>1, <1>2 DEF Sound, Request
<1>4. user \in [Users -> User] /\ standing \in [Users -> Standings]
  BY DEF Inv, TypeOK
<1>5. /\ m \in Request /\ m.pc = "mail" /\ m.user = u /\ ~m.first
  BY <1>3, MailType
<1>6. CASE u \notin Made \/ (moves /\ Holders(q.address) \ {u} # {})
  <2>1. Finish(r) /\ UNCHANGED <<user, standing>>
    BY <1>6 DEF Change
  <2>2. Leaves(r)
    BY <1>1, <2>1 DEF Leaves, Inv, TypeOK
  <2>3. QED
    BY <1>2, <2>1, <2>2, FinishStep
<1>7. CASE ~(u \notin Made \/ (moves /\ Holders(q.address) \ {u} # {}))
  <2>1. /\ user' = IF moves
                   THEN [user EXCEPT ![u] =
                           [@ EXCEPT !.email = q.address, !.verified = stays]]
                   ELSE user
        /\ standing' = IF moves /\ q.address # user[u].email
                       THEN [standing EXCEPT
                               ![u] = IF stays THEN "carried" ELSE "none"]
                       ELSE standing
        /\ IF user'[u].email # q.held THEN Go(r, m) ELSE Finish(r)
    BY <1>7 DEF Change, GoMail
  <2>2. u \in Made /\ user[u] \in User /\ user[u].email \in Addresses
    BY <1>3, <1>4, <1>7 DEF User, Emails, Made
  <2>3. /\ user' \in [Users -> User]
        /\ \A v \in Users : /\ user'[v].admin = user[v].admin
                            /\ user'[v].alone = user[v].alone
                            /\ v # u => user'[v] = user[v]
        /\ user'[u].email = IF moves THEN q.address ELSE user[u].email
        /\ user'[u].verified <=> user[u].verified /\ (moves => ~q.was)
    <3>1. CASE moves
      <4>1. stays \in BOOLEAN
        OBVIOUS
      <4> HIDE DEF stays
      <4> DEFINE row == [user[u] EXCEPT !.email = q.address, !.verified = stays]
      <4>2. user' = [user EXCEPT ![u] = row]
        BY <1>3, <1>4, <2>1, <3>1
      <4>3. /\ row \in User /\ row.email = q.address /\ row.verified = stays
            /\ row.admin = user[u].admin /\ row.alone = user[u].alone
        BY <1>3, <2>2, <4>1 DEF User, Emails
      <4> HIDE DEF row
      <4>4. /\ user' \in [Users -> User] /\ user'[u] = row
            /\ \A v \in Users : v # u => user'[v] = user[v]
        BY <1>3, <1>4, <4>2, <4>3
      <4>5. user'[u].verified <=> user[u].verified /\ (moves => ~q.was)
        BY <3>1, <4>3, <4>4, Zenon DEF stays
      <4>6. user'[u].email = IF moves THEN q.address ELSE user[u].email
        BY <3>1, <4>3, <4>4
      <4>7. \A v \in Users : /\ user'[v].admin = user[v].admin
                             /\ user'[v].alone = user[v].alone
        BY <4>3, <4>4
      <4>8. QED
        BY <4>4, <4>5, <4>6, <4>7
    <3>2. CASE ~moves
      BY <1>4, <2>1, <3>2
    <3>3. QED
      BY <3>1, <3>2
  <2>4. Made' = Made
    <3>1. \A v \in Users :
             user'[v].email # NoAddress <=> user[v].email # NoAddress
      BY <1>3, <2>2, <2>3
    <3>2. QED
      BY <3>1 DEF Made
  <2>5. /\ standing' \in [Users -> Standings]
        /\ \A v \in Users : v # u => standing'[v] = standing[v]
        /\ standing'[u] = standing[u] \/ (stays => standing'[u] = "carried")
        /\ ~moves => standing'[u] = standing[u]
    <3>1. CASE moves /\ q.address # user[u].email
      <4>1. PICK s \in Standings : s = IF stays THEN "carried" ELSE "none"
        BY DEF Standings
      <4>2. standing' = [standing EXCEPT ![u] = s]
        BY <2>1, <3>1, <4>1
      <4>3. QED
        BY <1>3, <1>4, <3>1, <4>1, <4>2
    <3>2. CASE ~(moves /\ q.address # user[u].email)
      BY <1>4, <2>1, <3>2
    <3>3. QED
      BY <3>1, <3>2
  <2>6. PICK p \in {m, Idle} : Go(r, p) /\ (user'[u].email # q.held => p = m)
    BY <2>1, Zenon DEF Go, Finish
  <2>7. p \in Request /\ p.pc \in {"mail", "idle"} /\ ~p.first
        /\ (p.pc = "mail" => p.user = u)
    BY <1>5, <2>6, IdleType
  <2> HIDE DEF m
  <2>8. /\ req' \in [Requests -> Request] /\ req'[r] = p
        /\ LoadedIsSound' /\ AloneIsAlone'
        /\ \A s \in Requests : s # r => req'[s] = req[s]
        /\ \A s \in Requests : req'[s].first => req[s].first /\ s # r
        /\ \A s \in Requests : Registering(s)' => Registering(s) /\ s # r
    BY <1>2, <1>3, <2>6, <2>7, OthersStay
  <2>9. AloneIsFirst' /\ FirstIsAdmin' /\ NobodyBeforeTheFirst'
    BY <1>1, <2>3, <2>4, <2>8, RolesStay
  <2>10. VerifiedIsProved'
    <3>1. ASSUME NEW v \in Made, user'[v].verified
          PROVE  standing'[v] # "none"
      <4>1. v \in Users /\ (user[v].verified => standing[v] # "none")
        BY DEF Made, Inv, BootstrapInv, VerifiedIsProved
      <4>2. CASE v # u
        BY <2>3, <2>5, <3>1, <4>1, <4>2
      <4>3. CASE v = u
        <5>1. user[u].verified /\ (moves => stays)
          BY <1>3, <2>3, <3>1, <4>3
        <5>2. QED
          BY <2>5, <4>1, <4>3, <5>1
      <4>4. QED
        BY <4>2, <4>3
    <3>2. QED
      BY <2>4, <3>1 DEF VerifiedIsProved
  <2>11. UnverifiedIsCovered'
    <3> SUFFICES ASSUME NEW v \in Made PROVE Covered(v)'
      BY <2>4 DEF UnverifiedIsCovered, Covered
    <3>1. CASE user[v].verified /\ ~user'[v].verified
      <4>1. v = u /\ moves
        BY <2>3, <3>1 DEF Made
      <4>2. user'[u].email # q.held
        BY <2>3, <4>1
      <4>3. p.pc = "mail" /\ p.user = v /\ r \in Requests
        BY <1>5, <2>6, <4>1, <4>2
      <4>4. QED
        BY <2>8, <4>3 DEF Covered
    <3>2. CASE user[v].verified => user'[v].verified
      <4>1. \A s \in Requests :
               req[s].pc = "mail" /\ req[s].user = v =>
                  req'[s].pc = "mail" /\ req'[s].user = v
        BY <1>1, <2>8
      <4>2. QED
        BY <1>1, <3>2, <4>1, StaysCovered
    <3>3. QED
      BY <3>1, <3>2
  <2>12. TypeOK'
    BY <1>1, <2>3, <2>5, <2>8 DEF Inv, TypeOK
  <2>13. QED
    BY <2>8, <2>9, <2>10, <2>11, <2>12 DEF Inv, BootstrapInv
<1>8. QED
  BY <1>6, <1>7

(* An account goes.  If it was the last, and no registration has counted it *)
(* or any other, all is as it was at first; else, if it was the last        *)
(* administrator, the rest is bereft.                                       *)
LEMMA DeleteStep ==
    ASSUME Inv, NEW u \in Users, Delete(u)
    PROVE  Inv'
<1> DEFINE others == Made \ {u}
<1>1. /\ u \in Made
      /\ user' = [user EXCEPT ![u] = NoRow]
      /\ bereft' = /\ others # {} \/ \E r \in Requests : Registering(r)
                   /\ \/ bereft
                      \/ user[u].admin /\ \A v \in others : ~user[v].admin
      /\ identity' = [k \in Keys |->
                        IF identity[k] = u THEN NoUser ELSE identity[k]]
      /\ mailed' = [mailed EXCEPT ![u] = [a \in Addresses |-> 0]]
      /\ standing' = [standing EXCEPT ![u] = "none"]
      /\ lapsed' = lapsed \ {u}
      /\ UNCHANGED <<links, states, req>>
  BY DEF Delete
<1>2. NoRow \in User /\ NoRow.email = NoAddress
  BY DEF NoRow, User, Emails
<1>3. TypeOK
  BY DEF Inv
<1>4. TypeOK'
  <2>1. user' \in [Users -> User]
    BY <1>1, <1>2, <1>3 DEF TypeOK
  <2>2. identity' \in [Keys -> Users \union {NoUser}]
    BY <1>1, <1>3 DEF TypeOK
  <2>3. mailed' \in [Users -> [Addresses -> Nat]]
    BY <1>1, <1>3 DEF TypeOK
  <2>4. standing' \in [Users -> Standings] /\ lapsed' \in SUBSET Users
    BY <1>1, <1>3 DEF TypeOK, Standings
  <2>5. bereft' \in BOOLEAN
    BY <1>1
  <2>6. QED
    BY <1>1, <1>3, <2>1, <2>2, <2>3, <2>4, <2>5 DEF TypeOK
<1>5. /\ \A v \in Users : v # u => user'[v] = user[v]
      /\ user'[u].email = NoAddress
  BY <1>1, <1>2, <1>3 DEF TypeOK
<1>6. Made' = others /\ \A v \in others : user'[v] = user[v] /\ v \in Users
  BY <1>5 DEF Made
<1>7. LoadedIsSound' /\ AloneIsAlone'
  BY <1>1, <1>6, NobodyMoves
<1>8. AloneIsFirst'
  BY <1>1, <1>6 DEF Inv, BootstrapInv, AloneIsFirst
<1>9. NobodyBeforeTheFirst'
  <2> SUFFICES ASSUME NoAdmin', ~bereft'
               PROVE  /\ Made' = {}
                      /\ \A r \in Requests : Registering(r)' => req'[r].first
    BY DEF NobodyBeforeTheFirst
  <2>1. \A v \in others : ~user[v].admin
    BY <1>6 DEF NoAdmin
  <2>2. CASE others # {} \/ \E r \in Requests : Registering(r)
    <3>1. ~bereft /\ ~user[u].admin
      BY <1>1, <2>1, <2>2
    <3>2. NoAdmin
      BY <2>1, <3>1 DEF NoAdmin
    <3>3. QED
      BY <1>1, <3>1, <3>2 DEF Inv, BootstrapInv, NobodyBeforeTheFirst
  <2>3. CASE others = {} /\ \A r \in Requests : ~Registering(r)
    BY <1>1, <1>6, <2>3 DEF Registering
  <2>4. QED
    BY <2>2, <2>3
<1>10. FirstIsAdmin'
  <2>1. Made' # {} /\ ~bereft' => \E v \in Made' : user'[v].admin
    BY <1>9 DEF NobodyBeforeTheFirst, NoAdmin
  <2>2. ASSUME NEW v \in Made', NEW w \in Made', v # w,
               user'[v].admin, user'[w].admin
        PROVE  ~user'[v].alone
    BY <1>6, <2>2 DEF Inv, BootstrapInv, FirstIsAdmin
  <2>3. QED
    BY <2>1, <2>2 DEF FirstIsAdmin
<1>11. VerifiedIsProved'
  BY <1>1, <1>3, <1>6 DEF Inv, BootstrapInv, VerifiedIsProved, TypeOK
<1>12. UnverifiedIsCovered'
  <2> SUFFICES ASSUME NEW v \in others PROVE Covered(v)'
    BY <1>6 DEF UnverifiedIsCovered, Covered
  <2>1. v \in Made /\ v \in Users /\ v # u
    BY <1>6
  <2>2. mailed'[v] = mailed[v]
    BY <1>1, <1>3, <2>1 DEF TypeOK
  <2>3. QED
    BY <1>1, <1>6, <2>1, <2>2, StaysCovered
<1>13. QED
  BY <1>4, <1>7, <1>8, <1>9, <1>10, <1>11, <1>12 DEF Inv, BootstrapInv

(* The rows of a new account. *)
LEMMA InsertFacts ==
    ASSUME Inv, NEW u \in Users, NEW k \in Keys, NEW row \in User,
           row.email \in Addresses, Insert(u, k, row)
    PROVE  /\ user' \in [Users -> User] /\ u \notin Made
           /\ identity' \in [Keys -> Users \union {NoUser}]
           /\ user'[u] = row
           /\ \A v \in Users : v # u => user'[v] = user[v]
           /\ Made' = Made \union {u}
<1>1. /\ user \in [Users -> User] /\ u \notin Made
      /\ identity \in [Keys -> Users \union {NoUser}]
      /\ user' = [user EXCEPT ![u] = row]
      /\ identity' = [identity EXCEPT ![k] = u]
  BY DEF Inv, TypeOK, Insert
<1>2. /\ user' \in [Users -> User] /\ user'[u] = row
      /\ \A v \in Users : v # u => user'[v] = user[v]
      /\ identity' \in [Keys -> Users \union {NoUser}]
  BY <1>1
<1>3. Made' = Made \union {u}
  BY <1>2 DEF Made
<1>4. QED
  BY <1>1, <1>2, <1>3

(* Only registration makes administrators: of the first to come, so the     *)
(* account is the only one if no other request was in flight.               *)
LEMMA CreateStep ==
    ASSUME Inv, NEW r \in Requests, CreateUser(r)
    PROVE  Inv'
<1> DEFINE q == req[r]
<1>1. /\ q.pc = "create"
      /\ UNCHANGED <<mailed, links, states, standing, lapsed>>
  BY DEF CreateUser
<1>2. q \in Request /\ r \in Busy /\ Sound(r)
  BY <1>1, InFlight
<1>3. /\ q.address \in Addresses /\ q.first \in BOOLEAN /\ q.alone \in BOOLEAN
      /\ Registering(r)
  BY <1>1, <1>2 DEF Sound, Request, Registering
<1>4. CASE Conflicts(q, q.address)
  <2>1. Finish(r) /\ UNCHANGED <<user, identity, bereft>>
    BY <1>4 DEF CreateUser
  <2>2. Leaves(r)
    BY <1>1, <2>1 DEF Leaves, Inv, TypeOK
  <2>3. QED
    BY <1>2, <2>1, <2>2, FinishStep
<1>5. CASE ~Conflicts(q, q.address)
  <2> DEFINE only == q.first /\ q.alone
             row == [NoRow EXCEPT !.email = q.address, !.admin = q.first,
                                  !.alone = only]
  <2>1. PICK u \in Users : /\ Insert(u, q.address, row) /\ GoMail(r, u)
                           /\ bereft' = (bereft /\ ~q.first)
    BY <1>5, Zenon DEF CreateUser
  <2>2. only \in BOOLEAN
    OBVIOUS
  <2> HIDE DEF only
  <2>3. /\ row \in User /\ row.email = q.address /\ ~row.verified
        /\ row.admin = q.first /\ row.alone = only
    BY <1>3, <2>2 DEF NoRow, User, Emails
  <2> HIDE DEF row
  <2>4. q.address \in Keys
    BY <1>3 DEF Keys
  <2>5. /\ user' \in [Users -> User] /\ u \notin Made
        /\ identity' \in [Keys -> Users \union {NoUser}]
        /\ user'[u] = row
        /\ \A v \in Users : v # u => user'[v] = user[v]
        /\ Made' = Made \union {u}
    BY <1>3, <2>1, <2>3, <2>4, InsertFacts
  <2> DEFINE m == [Idle EXCEPT !.pc = "mail", !.user = u, !.alone = FALSE]
  <2>6. m \in Request /\ m.pc = "mail" /\ m.user = u /\ ~m.first
    BY MailType
  <2>7. Go(r, m)
    BY <2>1 DEF GoMail
  <2> HIDE DEF m
  <2>8. /\ req' \in [Requests -> Request] /\ req'[r] = m
        /\ LoadedIsSound' /\ AloneIsAlone'
        /\ \A s \in Requests : s # r => req'[s] = req[s]
        /\ \A s \in Requests : req'[s].first => req[s].first /\ s # r
    BY <1>2, <2>6, <2>7, OthersStay
  <2>9. only => Made = {} /\ \A s \in Requests : s # r => ~req[s].first
    <3> SUFFICES ASSUME only
                 PROVE  Made = {} /\ \A s \in Requests : s # r => ~req[s].first
      OBVIOUS
    <3>1. q.first /\ q.alone
      BY DEF only
    <3>2. Made = {} /\ \A s \in Busy : s = r
      BY <1>2, <1>3, <3>1 DEF Inv, BootstrapInv, AloneIsAlone, Busy
    <3>3. \A s \in Requests : Sound(s)
      BY DEF Inv, BootstrapInv, LoadedIsSound
    <3>4. QED
      BY <3>2, <3>3 DEF Sound, Registering, Busy
  <2>10. \A v \in Made : user'[v] = user[v] /\ v \in Users
    BY <2>5 DEF Made
  <2>11. AloneIsFirst'
    <3>1. ASSUME NEW v \in Made', user'[v].alone
          PROVE  user'[v].admin /\ \A s \in Requests : ~req'[s].first
      <4>1. CASE v = u
        BY <1>3, <2>3, <2>5, <2>8, <2>9, <3>1, <4>1 DEF only
      <4>2. CASE v # u
        BY <2>5, <2>8, <2>10, <3>1, <4>2 DEF Inv, BootstrapInv, AloneIsFirst
      <4>3. QED
        BY <4>1, <4>2
    <3>2. QED
      BY <3>1 DEF AloneIsFirst
  <2>12. bereft' \/ \E v \in Made' : user'[v].admin
    <3>1. CASE q.first
      BY <2>3, <2>5, <3>1
    <3>2. CASE ~q.first
      <4>1. bereft \/ ~NoAdmin
        BY <1>2, <1>3, <3>2 DEF Inv, BootstrapInv, NobodyBeforeTheFirst, Busy
      <4>2. QED
        BY <2>1, <2>5, <2>10, <3>2, <4>1 DEF NoAdmin
    <3>3. QED
      BY <3>1, <3>2
  <2>13. NobodyBeforeTheFirst'
    BY <2>12 DEF NobodyBeforeTheFirst, NoAdmin
  <2>14. FirstIsAdmin'
    <3>1. ASSUME NEW v \in Made', NEW w \in Made', user'[v].admin,
                 user'[w].admin, v # w, user'[v].alone
          PROVE  FALSE
      <4>1. CASE v = u
        BY <2>3, <2>5, <2>9, <3>1, <4>1
      <4>2. CASE v # u
        <5>1. v \in Made /\ user[v].alone /\ user[v].admin
          BY <2>5, <2>10, <3>1, <4>2
        <5>2. r \in Requests /\ ~q.first
          BY <1>2, <5>1 DEF Inv, BootstrapInv, AloneIsFirst, Busy
        <5>3. w \in Made /\ user[w].admin
          BY <2>3, <2>5, <2>10, <3>1, <5>2
        <5>4. QED
          BY <3>1, <5>1, <5>3 DEF Inv, BootstrapInv, FirstIsAdmin
      <4>3. QED
        BY <4>1, <4>2
    <3>2. QED
      BY <2>12, <3>1 DEF FirstIsAdmin
  <2>15. VerifiedIsProved'
    BY <1>1, <2>3, <2>5, <2>10 DEF Inv, BootstrapInv, VerifiedIsProved
  <2>16. UnverifiedIsCovered'
    <3> SUFFICES ASSUME NEW v \in Made' PROVE Covered(v)'
      BY DEF UnverifiedIsCovered, Covered
    <3>1. CASE v = u
      BY <1>2, <2>6, <2>8, <3>1 DEF Covered, Busy
    <3>2. CASE v # u
      <4>1. v \in Made /\ user'[v] = user[v]
        BY <2>5, <2>10, <3>2
      <4>2. \A s \in Requests :
               req[s].pc = "mail" /\ req[s].user = v =>
                  req'[s].pc = "mail" /\ req'[s].user = v
        BY <1>1, <2>8
      <4>3. QED
        BY <1>1, <4>1, <4>2, StaysCovered
    <3>3. QED
      BY <3>1, <3>2
  <2>17. TypeOK'
    BY <1>1, <2>1, <2>5, <2>8 DEF Inv, TypeOK
  <2>18. QED
    BY <2>8, <2>11, <2>13, <2>14, <2>15, <2>16, <2>17 DEF Inv, BootstrapInv
<1>6. QED
  BY <1>4, <1>5

(* OAuth makes none, so who comes by it first leaves none to come. *)
LEMMA JoinStep ==
    ASSUME Inv, NEW r \in Requests, Join(r)
    PROVE  Inv'
<1> DEFINE q == req[r]
<1>1. /\ q.pc = "join" /\ Finish(r)
      /\ UNCHANGED <<mailed, links, states, lapsed>>
  BY DEF Join
<1>2. q \in Request /\ r \in Busy /\ Sound(r)
  BY <1>1, InFlight
<1>3. q.address \in Addresses /\ q.subject \in Subjects
  BY <1>1, <1>2 DEF Sound
<1>4. CASE Conflicts(q, q.subject)
  <2>1. UNCHANGED <<user, identity, standing, bereft>>
    BY <1>4 DEF Join
  <2>2. Leaves(r)
    BY <1>1, <2>1 DEF Leaves, Inv, TypeOK
  <2>3. QED
    BY <1>1, <1>2, <2>2, FinishStep
<1>5. CASE ~Conflicts(q, q.subject)
  <2> DEFINE row == [NoRow EXCEPT !.email = q.address, !.verified = TRUE]
  <2>1. PICK u \in Users :
             /\ Insert(u, q.subject, row)
             /\ standing' = [standing EXCEPT ![u] = "proved"]
             /\ bereft' = (bereft \/ NoAdmin)
    BY <1>5, Zenon DEF Join
  <2>2. /\ row \in User /\ row.email = q.address /\ row.verified
        /\ ~row.admin /\ ~row.alone
    BY <1>3 DEF NoRow, User, Emails
  <2> HIDE DEF row
  <2>3. q.subject \in Keys
    BY <1>3 DEF Keys
  <2>4. /\ user' \in [Users -> User] /\ u \notin Made
        /\ identity' \in [Keys -> Users \union {NoUser}]
        /\ user'[u] = row
        /\ \A v \in Users : v # u => user'[v] = user[v]
        /\ Made' = Made \union {u}
    BY <1>3, <2>1, <2>2, <2>3, InsertFacts
  <2>5. /\ standing' \in [Users -> Standings] /\ standing'[u] = "proved"
        /\ \A v \in Users : v # u => standing'[v] = standing[v]
    BY <2>1 DEF Inv, TypeOK, Standings
  <2>6. Go(r, Idle)
    BY <1>1 DEF Finish, Go
  <2>7. /\ req' \in [Requests -> Request]
        /\ LoadedIsSound' /\ AloneIsAlone'
        /\ \A s \in Requests : s # r => req'[s] = req[s]
        /\ \A s \in Requests : req'[s].first => req[s].first /\ s # r
    BY <1>2, <2>6, IdleType, OthersStay
  <2>8. \A v \in Made : user'[v] = user[v] /\ v \in Users /\ v # u
    BY <2>4 DEF Made
  <2>9. AloneIsFirst'
    BY <2>2, <2>4, <2>7, <2>8 DEF Inv, BootstrapInv, AloneIsFirst
  <2>10. bereft' \/ \E v \in Made' : user'[v].admin
    BY <2>1, <2>4, <2>8 DEF NoAdmin
  <2>11. NobodyBeforeTheFirst'
    BY <2>10 DEF NobodyBeforeTheFirst, NoAdmin
  <2>12. FirstIsAdmin'
    <3>1. {v \in Made : user[v].admin}' = {v \in Made : user[v].admin}
      BY <2>2, <2>4, <2>8
    <3>2. \A v \in {w \in Made : user[w].admin} : user'[v].alone = user[v].alone
      BY <2>8
    <3>3. QED
      BY <2>10, <3>1, <3>2 DEF Inv, BootstrapInv, FirstIsAdmin
  <2>13. VerifiedIsProved'
    BY <2>4, <2>5, <2>8 DEF Inv, BootstrapInv, VerifiedIsProved
  <2>14. UnverifiedIsCovered'
    <3> SUFFICES ASSUME NEW v \in Made' PROVE Covered(v)'
      BY DEF UnverifiedIsCovered, Covered
    <3>1. CASE v = u
      BY <2>2, <2>4, <3>1 DEF Covered
    <3>2. CASE v # u
      <4>1. v \in Made /\ user'[v] = user[v]
        BY <2>4, <2>8, <3>2
      <4>2. \A s \in Requests :
               req[s].pc = "mail" /\ req[s].user = v =>
                  req'[s].pc = "mail" /\ req'[s].user = v
        BY <1>1, <2>7
      <4>3. QED
        BY <1>1, <4>1, <4>2, StaysCovered
    <3>3. QED
      BY <3>1, <3>2
  <2>15. TypeOK'
    BY <1>1, <2>1, <2>4, <2>5, <2>7 DEF Inv, TypeOK
  <2>16. QED
    BY <2>7, <2>9, <2>11, <2>12, <2>13, <2>14, <2>15 DEF Inv, BootstrapInv
<1>6. QED
  BY <1>4, <1>5

-----------------------------------------------------------------------------
(* Theorems. *)

LEMMA InitInv == Init => Inv
<1> SUFFICES ASSUME Init
             PROVE  Inv
  OBVIOUS
<1>1. Made = {} /\ Busy = {}
  BY IdleType DEF Init, Made, Busy, NoRow
<1>2. TypeOK
  BY IdleType DEF Init, TypeOK, NoRow, User, Emails, Standings
<1>3. \A r \in Requests : req[r] = Idle
  BY DEF Init
<1>4. LoadedIsSound
  BY <1>3, IdleType DEF LoadedIsSound, Sound, Registering
<1>5. AloneIsAlone
  BY <1>3, IdleType DEF AloneIsAlone, Registering
<1>6. NobodyBeforeTheFirst
  BY <1>1, <1>3, IdleType DEF NobodyBeforeTheFirst, Registering
<1>7. AloneIsFirst /\ VerifiedIsProved /\ FirstIsAdmin /\ UnverifiedIsCovered
  BY <1>1 DEF AloneIsFirst, VerifiedIsProved, FirstIsAdmin, UnverifiedIsCovered
<1>8. QED
  BY <1>2, <1>4, <1>5, <1>6, <1>7 DEF Inv, BootstrapInv

LEMMA StepInv == Inv /\ [Next]_vars => Inv'
<1> SUFFICES ASSUME Inv, [Next]_vars
             PROVE  Inv'
  OBVIOUS
<1>1. CASE UNCHANGED vars
  <2>1. TypeOK'
    BY <1>1 DEF vars, tables, history, Inv, TypeOK
  <2>2. QED
    BY <1>1, <2>1, Untouched DEF vars, tables, history
<1>2. ASSUME NEW r \in Requests, NEW a \in Addresses,
             \/ BeginRegister(r, a)
             \/ \E u \in Users : BeginChange(r, u, a)
             \/ \E s \in Subjects : Exchange(r, s, a)
      PROVE  Inv'
  BY <1>2, BeginStep, ExchangeStep
<1>3. ASSUME NEW r \in Requests,
             \/ LookAddress(r) \/ CreateUser(r) \/ MailToken(r) \/ Change(r)
             \/ \E st \in States : BeginCallback(r, st)
             \/ ConsumeState(r) \/ FindAddress(r) \/ Link(r) \/ Join(r)
             \/ Crash(r)
      PROVE  Inv'
  BY <1>3, LookStep, CreateStep, MailStep, ChangeStep, BeginStep, ConsumeStep,
     FindStep, LinkStep, JoinStep, CrashStep
<1>4. ASSUME NEW u \in Users, NEW a \in Addresses,
             \/ Verify(u, a) \/ ExpireToken(u, a)
             \/ SignInByMail(u, a) \/ ExpireLink(u, a)
      PROVE  Inv'
  BY <1>4, VerifyStep, ExpireTokenStep, SignInStep, ExpireLinkStep
<1>5. ASSUME NEW u \in Users, AskLink(u) \/ Delete(u)
      PROVE  Inv'
  BY <1>5, AskLinkStep, DeleteStep
<1>6. CASE StartAndForget \/ \E st \in States : StartOAuth(st)
  BY <1>6, StateStep
<1>7. QED
  BY <1>1, <1>2, <1>3, <1>4, <1>5, <1>6 DEF Next

LEMMA InvAlways == Spec => []Inv
BY InitInv, StepInv, PTL DEF Spec

-----------------------------------------------------------------------------
(* Refusals. *)

(* While r goes on no other request is alone. *)
LEMMA GoingIsFree ==
    ASSUME Inv, NEW r \in Busy, req'[r].pc # "create",
           \A s \in Requests : s # r => req'[s] = req[s]
    PROVE  FreeIfAlone'
<1> SUFFICES ASSUME NEW s \in Requests, req'[s].pc = "create", req'[s].alone
             PROVE  FALSE
  BY DEF FreeIfAlone
<1>1. s # r /\ req'[s] = req[s]
  OBVIOUS
<1>2. Registering(s) /\ req[s].alone
  BY <1>1 DEF Registering
<1>3. QED
  BY <1>1, <1>2 DEF Inv, BootstrapInv, AloneIsAlone

LEMMA KeysStay ==
    ASSUME KeysAreMade, Made \subseteq Made',
           \A k \in Keys : identity'[k] = identity[k] \/ identity'[k] \in Made'
    PROVE  KeysAreMade'
BY DEF KeysAreMade

LEMMA FreeBegin ==
    ASSUME Inv, NEW r \in Requests,
           \/ \E a \in Addresses : BeginRegister(r, a)
           \/ \E a \in Addresses, u \in Users : BeginChange(r, u, a)
           \/ \E st \in States : BeginCallback(r, st)
    PROVE  FreeIfAlone' /\ UNCHANGED <<user, identity>>
<1>1. PICK q : Starts(q) /\ Enter(r, q) /\ UNCHANGED <<tables, history>>
  BY BeginFacts
<1>2. q \in Request /\ q.pc \in {"look", "change", "consume"}
  BY <1>1 DEF Starts
<1>3. /\ req'[r].pc # "create"
      /\ \A s \in Busy : ~req'[s].alone
      /\ \A s \in Requests \ Busy : s # r => req'[s].pc = "idle"
  BY <1>1, <1>2, EnterFacts, IdleType DEF Inv
<1>4. FreeIfAlone'
  BY <1>3 DEF FreeIfAlone
<1>5. QED
  BY <1>1, <1>4 DEF tables

(* What the other handlers do, up to their commits.                         *)
LEMMA FreeLook ==
    ASSUME Inv, RefusalInv, NEW r \in Requests, LookAddress(r)
    PROVE  FreeIfAlone' /\ UNCHANGED <<user, identity>>
<1> DEFINE q == [req[r] EXCEPT !.pc = "create"]
<1>1. /\ req[r].pc = "look" /\ UNCHANGED <<user, identity>>
      /\ \/ Go(r, q) /\ Holders(req[r].address) = {}
         \/ Finish(r)
  BY DEF LookAddress, tables
<1>2. req[r] \in Request /\ r \in Busy
  BY <1>1, InFlight
<1>3. q \in Request /\ q.address = req[r].address
  BY <1>2, PcType DEF Pcs
<1> HIDE DEF q
<1>4. CASE Finish(r)
  BY <1>1, <1>2, <1>4, FinishFacts, IdleType, GoingIsFree DEF Inv
<1>5. CASE Go(r, q) /\ Holders(req[r].address) = {}
  <2>1. req'[r] = q /\ \A s \in Requests : s # r => req'[s] = req[s]
    BY <1>3, <1>5, GoFacts DEF Inv
  <2>2. \A a : Holders(a)' = Holders(a)
    BY <1>1 DEF Holders
  <2>3. QED
    BY <1>1, <1>3, <1>5, <2>1, <2>2 DEF RefusalInv, FreeIfAlone
<1>6. QED
  BY <1>1, <1>4, <1>5

(* The step of a request that is in flight and does not look an address up. *)
LEMMA GoesOn ==
    ASSUME Inv, NEW r \in Requests,
           \/ \E s \in Subjects, a \in Addresses : Exchange(r, s, a)
           \/ CreateUser(r) \/ MailToken(r) \/ Change(r) \/ ConsumeState(r)
           \/ FindAddress(r) \/ Link(r) \/ Join(r) \/ Crash(r)
    PROVE  /\ r \in Busy /\ req'[r].pc # "create"
           /\ \A s \in Requests : s # r => req'[s] = req[s]
<1>1. r \in Busy /\ req[r] \in Request
  BY DEF Exchange, CreateUser, MailToken, Change, ConsumeState, FindAddress,
     Link, Join, Crash, Busy, Inv, TypeOK
<1>2. ASSUME NEW q, q.pc # "create", Go(r, q)
      PROVE  /\ req'[r].pc # "create"
             /\ \A s \in Requests : s # r => req'[s] = req[s]
  BY <1>2 DEF Go, Inv, TypeOK
<1>3. ASSUME Finish(r)
      PROVE  /\ req'[r].pc # "create"
             /\ \A s \in Requests : s # r => req'[s] = req[s]
  BY <1>3, FinishFacts, IdleType DEF Inv
<1>4. ASSUME NEW u \in Users, GoMail(r, u)
      PROVE  /\ req'[r].pc # "create"
             /\ \A s \in Requests : s # r => req'[s] = req[s]
  <2>1. PICK q : q = [Idle EXCEPT !.pc = "mail", !.user = u, !.alone = FALSE]
    OBVIOUS
  <2>2. q.pc # "create" /\ Go(r, q)
    BY <1>4, <2>1, MailType DEF GoMail
  <2>3. QED
    BY <1>2, <2>2
<1>5. ASSUME NEW s \in Subjects, NEW a \in Addresses, Exchange(r, s, a)
      PROVE  \/ Finish(r)
             \/ \E q : q.pc # "create" /\ Go(r, q)
  <2>1. PICK q : q = [req[r] EXCEPT !.pc = "find", !.subject = s, !.address = a]
    OBVIOUS
  <2>2. q.pc = "find"
    BY <1>1, <2>1 DEF Request
  <2>3. Finish(r) \/ Go(r, q)
    BY <1>5, <2>1 DEF Exchange
  <2>4. QED
    BY <2>2, <2>3
<1>6. ASSUME ConsumeState(r)
      PROVE  \E q : q.pc # "create" /\ Go(r, q)
  <2>1. PICK q : q = [req[r] EXCEPT !.pc = "exchange", !.state = NoState]
    OBVIOUS
  <2>2. q.pc # "create" /\ Go(r, q)
    BY <1>1, <1>6, <2>1, PcStateType DEF ConsumeState
  <2>3. QED
    BY <2>2
<1>7. ASSUME FindAddress(r)
      PROVE  \/ Finish(r)
             \/ \E q : q.pc # "create" /\ Go(r, q)
  <2>1. \/ Finish(r)
        \/ Go(r, [req[r] EXCEPT !.pc = "join"])
        \/ \E u \in Users : Go(r, [req[r] EXCEPT !.pc = "link", !.user = u,
                                                !.stood = standing[u]])
    BY <1>7 DEF FindAddress, Holders
  <2>2. [req[r] EXCEPT !.pc = "join"].pc = "join"
    BY <1>1 DEF Request
  <2>3. \A u, t : [req[r] EXCEPT !.pc = "link", !.user = u,
                                 !.stood = t].pc = "link"
    BY <1>1 DEF Request
  <2>4. CASE Go(r, [req[r] EXCEPT !.pc = "join"])
    BY <2>2, <2>4
  <2>5. CASE \E u \in Users : Go(r, [req[r] EXCEPT !.pc = "link", !.user = u,
                                                 !.stood = standing[u]])
    <3>1. PICK u \in Users : Go(r, [req[r] EXCEPT !.pc = "link", !.user = u,
                                                 !.stood = standing[u]])
      BY <2>5
    <3>2. PICK q : q = [req[r] EXCEPT !.pc = "link", !.user = u,
                                      !.stood = standing[u]]
      OBVIOUS
    <3>3. q.pc # "create" /\ Go(r, q)
      BY <2>3, <3>1, <3>2
    <3>4. QED
      BY <3>3
  <2>6. QED
    BY <2>1, <2>4, <2>5
<1>8. CreateUser(r) \/ Change(r) => Finish(r) \/ \E u \in Users : GoMail(r, u)
  <2>1. Change(r) => req[r].user \in Users
    BY <1>1, InFlight DEF Change, Sound
  <2>2. QED
    BY <2>1 DEF CreateUser, Change
<1>9. MailToken(r) \/ Link(r) \/ Join(r) \/ Crash(r) => Finish(r)
  BY DEF MailToken, Link, Join, Crash
<1>10. QED
  BY <1>1, <1>2, <1>3, <1>4, <1>5, <1>6, <1>7, <1>8, <1>9

(* Identities go to users. *)
LEMMA InsertKeys ==
    ASSUME Inv, KeysAreMade, NEW u \in Users, NEW k \in Keys,
           NEW row \in User, row.email \in Addresses, Insert(u, k, row)
    PROVE  KeysAreMade'
<1>1. Made' = Made \union {u}
  BY InsertFacts
<1>2. \A l \in Keys : identity'[l] = identity[l] \/ identity'[l] = u
  BY DEF Insert, Inv, TypeOK
<1>3. QED
  BY <1>1, <1>2, KeysStay

LEMMA RefusalStep ==
    Inv /\ RefusalInv /\ [Next]_vars => RefusalInv'
<1> SUFFICES ASSUME Inv, RefusalInv, [Next]_vars
             PROVE  RefusalInv'
  OBVIOUS
<1>1. KeysAreMade /\ FreeIfAlone
  BY DEF RefusalInv
<1>2. ASSUME UNCHANGED <<user, identity>>
      PROVE  KeysAreMade'
  BY <1>1, <1>2 DEF KeysAreMade, Made
<1>3. ASSUME req' = req, identity' = identity,
             \A u \in Users : user'[u].email = user[u].email
      PROVE  RefusalInv'
  <2>1. Made' = Made /\ \A a : Holders(a)' = Holders(a)
    BY <1>3 DEF Made, Holders
  <2>2. QED
    BY <1>1, <1>3, <2>1 DEF RefusalInv, KeysAreMade, FreeIfAlone
<1>4. CASE UNCHANGED vars
  BY <1>3, <1>4 DEF vars, tables
<1>5. CASE StartAndForget \/ \E st \in States : StartOAuth(st)
  BY <1>3, <1>5 DEF StartAndForget, StartOAuth
<1>6. ASSUME NEW u \in Users,
             \/ \E a \in Addresses : \/ Verify(u, a) \/ ExpireToken(u, a)
                                     \/ SignInByMail(u, a) \/ ExpireLink(u, a)
             \/ AskLink(u)
      PROVE  RefusalInv'
  <2>1. /\ req' = req /\ identity' = identity
        /\ \/ user' = user
           \/ user' = [user EXCEPT ![u].verified = TRUE]
           \/ user' = [user EXCEPT ![u].asked = TRUE]
    BY <1>6 DEF Verify, ExpireToken, SignInByMail, ExpireLink, AskLink, Proves
  <2>2. user \in [Users -> User]
    BY DEF Inv, TypeOK
  <2>3. CASE user' = user
    BY <1>3, <2>1, <2>3
  <2>4. CASE user' = [user EXCEPT ![u].verified = TRUE]
    <3>1. \A v \in Users : user'[v].email = user[v].email
      BY <2>2, <2>4 DEF User
    <3>2. QED
      BY <1>3, <2>1, <3>1
  <2>5. CASE user' = [user EXCEPT ![u].asked = TRUE]
    <3>1. \A v \in Users : user'[v].email = user[v].email
      BY <2>2, <2>5 DEF User
    <3>2. QED
      BY <1>3, <2>1, <3>1
  <2>6. QED
    BY <2>1, <2>3, <2>4, <2>5
<1>7. ASSUME NEW r \in Requests,
             \/ \E a \in Addresses : BeginRegister(r, a)
             \/ \E a \in Addresses, u \in Users : BeginChange(r, u, a)
             \/ \E st \in States : BeginCallback(r, st)
             \/ LookAddress(r)
      PROVE  RefusalInv'
  BY <1>2, <1>7, FreeBegin, FreeLook DEF RefusalInv
<1>8. ASSUME NEW r \in Requests,
             \/ \E s \in Subjects, a \in Addresses : Exchange(r, s, a)
             \/ CreateUser(r) \/ MailToken(r) \/ Change(r) \/ ConsumeState(r)
             \/ FindAddress(r) \/ Link(r) \/ Join(r) \/ Crash(r)
      PROVE  RefusalInv'
  <2>1. FreeIfAlone'
    BY <1>8, GoesOn, GoingIsFree
  <2>2. CASE \/ \E s \in Subjects, a \in Addresses : Exchange(r, s, a)
             \/ MailToken(r) \/ ConsumeState(r) \/ FindAddress(r) \/ Crash(r)
    BY <1>2, <2>1, <2>2 DEF Exchange, MailToken, ConsumeState, FindAddress,
       Crash, tables, RefusalInv
  <2>3. CASE Link(r)
    <3>1. Made' = Made
      BY <2>3 DEF Link, Made
    <3>2. \A k \in Keys : \/ identity'[k] = identity[k]
                          \/ identity'[k] = req[r].user /\ req[r].user \in Made
      BY <2>3 DEF Link, Inv, TypeOK
    <3>3. QED
      BY <1>1, <2>1, <3>1, <3>2, KeysStay DEF RefusalInv
  <2>4. CASE Change(r)
    <3>1. /\ req[r].user \in Users /\ req[r].address \in Addresses
          /\ identity' = identity
      BY <2>4, InFlight DEF Change, Sound
    <3>2. \A u \in Users : user'[u].email \in {user[u].email, req[r].address}
      <4>1. user' = user \/ \E b : user' = [user EXCEPT ![req[r].user] =
                                 [@ EXCEPT !.email = req[r].address,
                                           !.verified = b]]
        BY <2>4 DEF Change
      <4>2. user \in [Users -> User]
        BY DEF Inv, TypeOK
      <4>3. CASE user' = user
        BY <4>3
      <4>4. CASE user' # user
        <5>1. PICK b : user' = [user EXCEPT ![req[r].user] =
                                  [@ EXCEPT !.email = req[r].address,
                                            !.verified = b]]
          BY <4>1, <4>4
        <5>2. PICK row : row = [user[req[r].user] EXCEPT
                                  !.email = req[r].address, !.verified = b]
          OBVIOUS
        <5>3. row.email = req[r].address
          BY <3>1, <4>2, <5>2 DEF User
        <5>4. user' = [user EXCEPT ![req[r].user] = row]
          BY <5>1, <5>2
        <5>5. QED
          BY <3>1, <4>2, <5>3, <5>4
      <4>5. QED
        BY <4>3, <4>4
    <3>3. Made \subseteq Made'
      BY <3>1, <3>2 DEF Made
    <3>4. QED
      BY <1>1, <2>1, <3>1, <3>3, KeysStay DEF RefusalInv
  <2>5. CASE CreateUser(r)
    <3>1. CASE UNCHANGED <<user, identity>>
      BY <1>2, <2>1, <3>1 DEF RefusalInv
    <3>2. CASE ~UNCHANGED <<user, identity>>
      <4> DEFINE only == req[r].first /\ req[r].alone
                 row == [NoRow EXCEPT !.email = req[r].address,
                                      !.admin = req[r].first, !.alone = only]
      <4>1. PICK u \in Users : Insert(u, req[r].address, row)
        BY <2>5, <3>2, Zenon DEF CreateUser
      <4>2. /\ req[r].address \in Addresses /\ req[r].first \in BOOLEAN
            /\ only \in BOOLEAN
        BY <2>5, InFlight DEF CreateUser, Sound, Request
      <4>3. row \in User /\ row.email \in Addresses /\ req[r].address \in Keys
        BY <4>2 DEF NoRow, User, Emails, Keys
      <4> HIDE DEF row
      <4>4. QED
        BY <1>1, <2>1, <4>1, <4>3, InsertKeys DEF RefusalInv
    <3>3. QED
      BY <3>1, <3>2
  <2>6. CASE Join(r)
    <3>1. CASE UNCHANGED <<user, identity>>
      BY <1>2, <2>1, <3>1 DEF RefusalInv
    <3>2. CASE ~UNCHANGED <<user, identity>>
      <4> DEFINE row == [NoRow EXCEPT !.email = req[r].address,
                                      !.verified = TRUE]
      <4>1. PICK u \in Users : Insert(u, req[r].subject, row)
        BY <2>6, <3>2, Zenon DEF Join
      <4>2. req[r].address \in Addresses /\ req[r].subject \in Subjects
        BY <2>6, InFlight DEF Join, Sound
      <4>3. row \in User /\ row.email \in Addresses /\ req[r].subject \in Keys
        BY <4>2 DEF NoRow, User, Emails, Keys
      <4> HIDE DEF row
      <4>4. QED
        BY <1>1, <2>1, <4>1, <4>3, InsertKeys DEF RefusalInv
    <3>3. QED
      BY <3>1, <3>2
  <2>7. QED
    BY <1>8, <2>2, <2>3, <2>4, <2>5, <2>6
<1>9. ASSUME NEW u \in Users, Delete(u)
      PROVE  RefusalInv'
  <2>1. /\ u \in Made /\ req' = req
        /\ user' = [user EXCEPT ![u] = NoRow]
        /\ identity' = [k \in Keys |->
                          IF identity[k] = u THEN NoUser ELSE identity[k]]
    BY <1>9 DEF Delete
  <2>2. \A v \in Users :
           user'[v].email = IF v = u THEN NoAddress ELSE user[v].email
    BY <2>1 DEF Inv, TypeOK, NoRow
  <2>3. Made' = Made \ {u}
    BY <2>2 DEF Made
  <2>4. KeysAreMade'
    BY <1>1, <2>1, <2>3 DEF KeysAreMade
  <2>5. \A a \in Addresses : Holders(a)' \subseteq Holders(a)
    BY <2>2 DEF Holders
  <2>6. \A r \in Requests : req[r].pc = "create" => req[r].address \in Addresses
    BY InFlight DEF Sound
  <2>7. FreeIfAlone'
    BY <1>1, <2>1, <2>5, <2>6 DEF FreeIfAlone
  <2>8. QED
    BY <2>4, <2>7 DEF RefusalInv
<1>10. QED
  BY <1>4, <1>5, <1>6, <1>7, <1>8, <1>9 DEF Next

LEMMA InitRefusal == Init => RefusalInv
<1> SUFFICES ASSUME Init PROVE RefusalInv
  OBVIOUS
<1>1. \A r \in Requests : req[r] = Idle
  BY DEF Init
<1>2. QED
  BY <1>1, IdleType DEF Init, RefusalInv, KeysAreMade, FreeIfAlone

(* Every state is of the types of models.py, and no mail is used up twice. *)
THEOREM TypeCorrect == Spec => []TypeOK
<1>1. Inv => TypeOK
  BY DEF Inv
<1>2. QED
  BY <1>1, InvAlways, PTL

(* Where there are accounts there is an administrator, unless the last left *)
(* behind an account or a registration that had counted it, or somebody     *)
(* came by OAuth before there was one; and there is a second one only if    *)
(* two registrations overlapped.                                            *)
THEOREM BootstrapHolds == Spec => []FirstIsAdmin
<1>1. Inv => FirstIsAdmin
  BY DEF Inv, BootstrapInv
<1>2. QED
  BY <1>1, InvAlways, PTL

(* An unverified account is without a token that is good only if the last   *)
(* one expired, could not be mailed, or was lost with a worker.             *)
THEOREM CoverHolds == Spec => []UnverifiedIsCovered
<1>1. Inv => UnverifiedIsCovered
  BY DEF Inv, BootstrapInv
<1>2. QED
  BY <1>1, InvAlways, PTL

(* An OAuth account comes only into a new account of its address, or into   *)
(* one that was verified when it was found at the address: shown to receive *)
(* mail there, or with verified_at carried over from another address.       *)
THEOREM JoinHolds == Spec => JoinsProvedAccount
<1>1. Inv /\ [Next]_vars =>
        [\A s \in Subjects :
            LET u == identity'[s] IN
            u \notin {identity[s], NoUser} =>
               \E r \in Requests :
                  /\ req[r].subject = s /\ req'[r].pc = "idle"
                  /\ \/ u \notin Made /\ user'[u].email = req[r].address
                     \/ u = req[r].user /\ req[r].stood # "none"]_vars
  <2> SUFFICES ASSUME Inv, Next, NEW s \in Subjects,
                      identity'[s] \notin {identity[s], NoUser}
               PROVE  LET u == identity'[s] IN
                      \E r \in Requests :
                         /\ req[r].subject = s /\ req'[r].pc = "idle"
                         /\ \/ u \notin Made /\ user'[u].email = req[r].address
                            \/ u = req[r].user /\ req[r].stood # "none"
    OBVIOUS
  <2>1. /\ identity \in [Keys -> Users \union {NoUser}]
        /\ user \in [Users -> User]
        /\ req \in [Requests -> Request] /\ s \in Keys
    BY DEF Inv, TypeOK, Keys
  <2>2. ASSUME NEW u \in Users, Delete(u) PROVE FALSE
    BY <2>1, <2>2 DEF Delete
  <2>3. PICK r \in Requests : CreateUser(r) \/ Link(r) \/ Join(r)
    BY <2>2 DEF Next, tables, history, BeginRegister, BeginChange, Exchange,
       LookAddress, MailToken, Change, BeginCallback, ConsumeState,
       FindAddress, Crash, Verify, ExpireToken, SignInByMail, ExpireLink,
       AskLink, StartAndForget, StartOAuth
  <2>4. Sound(r) /\ req[r].pc \in {"create", "link", "join"}
    BY <2>3 DEF CreateUser, Link, Join, Inv, BootstrapInv, LoadedIsSound
  <2>5. CASE CreateUser(r)
    <3>1. req[r].address \in Addresses /\ req[r].address # s
      BY <2>5, InFlight DEF CreateUser, Sound
    <3>2. identity'[s] = identity[s]
      BY <2>1, <2>5, <3>1 DEF CreateUser, Insert
    <3>3. QED
      BY <3>2
  <2>6. CASE Link(r)
    <3>1. /\ identity' = [identity EXCEPT ![req[r].subject] = req[r].user]
          /\ Finish(r) /\ req[r].pc = "link"
      BY <2>1, <2>6 DEF Link
    <3>2. s = req[r].subject /\ identity'[s] = req[r].user
      BY <2>1, <3>1
    <3>3. req'[r].pc = "idle"
      BY <2>1, <3>1, IdleType DEF Finish
    <3>4. QED
      BY <2>4, <3>1, <3>2, <3>3 DEF Sound
  <2>7. CASE Join(r)
    <3> DEFINE row == [NoRow EXCEPT !.email = req[r].address,
                                    !.verified = TRUE]
    <3>1. PICK u \in Users : Insert(u, req[r].subject, row)
      BY <2>1, <2>7, Zenon DEF Join
    <3>2. row.email = req[r].address
      BY DEF NoRow
    <3> HIDE DEF row
    <3>3. /\ u \notin Made /\ user'[u] = row
          /\ identity' = [identity EXCEPT ![req[r].subject] = u]
      BY <2>1, <3>1 DEF Insert
    <3>4. s = req[r].subject /\ identity'[s] = u
      BY <2>1, <3>3
    <3>5. req'[r].pc = "idle"
      BY <2>1, <2>7, IdleType DEF Join, Finish
    <3>6. QED
      BY <3>2, <3>3, <3>4, <3>5
  <2>8. QED
    BY <2>3, <2>5, <2>6, <2>7
<1>2. QED
  BY <1>1, InvAlways, PTL DEF Spec, JoinsProvedAccount

(* A registration beside no other request that finds its address free is    *)
(* refused only over an identity that has kept the address of an account    *)
(* which changed it.                                                        *)
THEOREM RefusalHasCause == Spec => RefusedForCause
<1>1. Inv /\ RefusalInv /\ [Next]_vars =>
        [\A r \in Requests :
            req[r].pc = "create" /\ req[r].alone /\ CreateUser(r)
               /\ req'[r].pc = "idle" =>
               \E u \in Made : /\ identity[req[r].address] = u
                               /\ user[u].email # req[r].address]_vars
  <2> SUFFICES ASSUME Inv, RefusalInv, NEW r \in Requests,
                      req[r].pc = "create", req[r].alone, CreateUser(r),
                      req'[r].pc = "idle"
               PROVE  \E u \in Made : /\ identity[req[r].address] = u
                                      /\ user[u].email # req[r].address
    OBVIOUS
  <2>1. req[r].address \in Keys
    BY InFlight DEF Sound, Keys
  <2>2. Holders(req[r].address) = {}
    BY DEF RefusalInv, FreeIfAlone
  <2>3. Conflicts(req[r], req[r].address)
    <3>1. ASSUME NEW u \in Users, GoMail(r, u) PROVE FALSE
      <4>1. PICK q : q = [Idle EXCEPT !.pc = "mail", !.user = u,
                                      !.alone = FALSE]
        OBVIOUS
      <4>2. q.pc = "mail" /\ req'[r] = q
        BY <3>1, <4>1, MailType DEF GoMail, Go, Inv, TypeOK
      <4>3. QED
        BY <4>2
    <3>2. QED
      BY <3>1, Zenon DEF CreateUser
  <2>4. identity[req[r].address] # NoUser
    BY <2>2, <2>3 DEF Conflicts
  <2>5. identity[req[r].address] \in Made
    BY <2>1, <2>4 DEF RefusalInv, KeysAreMade
  <2>6. user[identity[req[r].address]].email # req[r].address
    BY <2>2, <2>5 DEF Holders, Made
  <2>7. QED
    BY <2>5, <2>6
<1>2. QED
  BY <1>1, InitInv, StepInv, InitRefusal, RefusalStep, PTL
     DEF Spec, RefusedForCause
=============================================================================
