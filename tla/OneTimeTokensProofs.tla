------------------------- MODULE OneTimeTokensProofs -------------------------
(* Theorems about OneTimeTokens, for any finite number of rows, any worker  *)
(* slots, any addresses and any limit of attempts.                          *)
EXTENDS OneTimeTokens, FiniteSetTheorems, TLAPS

USE NoTokenAssumption, MaxAttemptsAssumption

Inv == TypeOK /\ HoldsIssued /\ RowsAreCounted /\ AddressInv

-----------------------------------------------------------------------------
(* Requests and rows. *)

LEMMA IdleType ==
    /\ Idle \in Request /\ Idle.pc = "idle" /\ Idle.token = NoToken
    /\ Idle.alone = FALSE
BY DEF Idle, Request, Pcs

(* What is known of every request and of the row it holds.                  *)
LEMMA Loaded ==
    ASSUME Inv, NEW r \in Requests
    PROVE  /\ req[r] \in Request
           /\ req[r].token \in Tokens \union {NoToken}
           /\ req[r].token = NoToken <=> req[r].pc \in {"idle", "change"}
           /\ req[r].token # NoToken =>
                 /\ req[r].token \in Tokens /\ req[r].token \in Issued
                 /\ token[req[r].token] \in Row
BY DEF Inv, TypeOK, HoldsIssued, Request

(* The request r becomes q. *)
Becomes(r, q) ==
    /\ q \in Request
    /\ req' \in [Requests -> Request]
    /\ req'[r] = q
    /\ \A s \in Requests : s # r => req'[s] = req[s]

LEMMA Replaced ==
    ASSUME TypeOK, NEW r \in Requests, NEW q \in Request,
           req' = [req EXCEPT ![r] = q]
    PROVE  Becomes(r, q)
BY DEF Becomes, TypeOK

LEMMA Finished ==
    ASSUME TypeOK, NEW r \in Requests, Finish(r)
    PROVE  Becomes(r, Idle)
BY Replaced, IdleType DEF Finish

LEMMA Gone ==
    ASSUME TypeOK, NEW r \in Requests, NEW pc \in Pcs, Go(r, pc)
    PROVE  \E q \in Request :
              /\ Becomes(r, q)
              /\ q.pc = pc /\ q.token = req[r].token
              /\ q.attempts = req[r].attempts
              /\ q.wasVerified = req[r].wasVerified
              /\ q.alone = req[r].alone
<1> DEFINE q == [req[r] EXCEPT !.pc = pc]
<1>1. req[r] \in Request
  BY DEF TypeOK
<1>2. /\ q \in Request /\ q.pc = pc /\ q.token = req[r].token
      /\ q.attempts = req[r].attempts
      /\ q.wasVerified = req[r].wasVerified /\ q.alone = req[r].alone
  BY <1>1 DEF Request
<1>3. req' = [req EXCEPT ![r] = q]
  BY DEF Go
<1> HIDE DEF q
<1>4. Becomes(r, q)
  BY <1>2, <1>3, Replaced
<1>5. QED
  BY <1>2, <1>4

(* A row that a step leaves alone stays counted. *)
Untouched(t) ==
    /\ token'[t].used = token[t].used
    /\ token'[t].attempts_count = token[t].attempts_count
    /\ uses'[t] = uses[t] /\ guesses'[t] = guesses[t]
    /\ t \in unmarked => t \in unmarked'
    /\ Holders(t)' = Holders(t)
    /\ \A r \in Holders(t) :
          req'[r].pc = req[r].pc /\ req'[r].attempts = req[r].attempts

LEMMA StaysCounted ==
    ASSUME NEW t, Counted(t), Untouched(t)
    PROVE  Counted(t)'
BY DEF Counted, Untouched

(* Nothing that could verify the account comes up, and no change of the     *)
(* address begins.                                                          *)
Calm ==
    /\ UNCHANGED <<email, verified, settled>>
    /\ proved \subseteq proved'
    /\ Outstanding' \subseteq Outstanding
    /\ \A t \in Tokens : token'[t].address = token[t].address
    /\ \A r \in Requests :
          req'[r].alone =>
              /\ req[r].alone /\ req'[r].pc = req[r].pc
              /\ req'[r].wasVerified = req[r].wasVerified

LEMMA CalmStep ==
    ASSUME AddressInv, TypeOK, NoToken \notin Tokens, Calm, HoldsIssued
    PROVE  AddressInv'
<1>1. Outstanding \subseteq Tokens
  BY DEF Outstanding, Usable, Issued, Held, HoldsIssued
<1>2. AloneIsQuiet'
  BY DEF AddressInv, AloneIsQuiet, Calm
<1>3. OutstandingIsCurrent'
  BY <1>1 DEF AddressInv, OutstandingIsCurrent, Calm
<1>4. ReverifiedIfSettled'
  BY DEF AddressInv, ReverifiedIfSettled, Calm
<1>5. QED
  BY <1>2, <1>3, <1>4 DEF AddressInv

-----------------------------------------------------------------------------
(* The steps of rows that no request makes. *)

LEMMA ExpireStep ==
    ASSUME Inv, NEW t \in Tokens, Expire(t)
    PROVE  Inv'
<1>1. /\ token' = [token EXCEPT ![t].expired = TRUE]
      /\ UNCHANGED <<email, verified, req, history>>
  BY DEF Expire
<1>2. UNCHANGED <<uses, guesses, unmarked, disturbed, proved, settled>>
  BY <1>1 DEF history
<1>3. /\ token' \in [Tokens -> Row]
      /\ \A s \in Tokens :
            /\ token'[s].used = token[s].used
            /\ token'[s].kind = token[s].kind
            /\ token'[s].attempts_count = token[s].attempts_count
            /\ token'[s].address = token[s].address
            /\ token[s].expired => token'[s].expired
  <2>1. token \in [Tokens -> Row]
    BY DEF Inv, TypeOK
  <2>2. token' = [token EXCEPT ![t] = [token[t] EXCEPT !.expired = TRUE]]
    BY <1>1
  <2>3. [token[t] EXCEPT !.expired = TRUE] \in Row
    BY <2>1 DEF Row
  <2>4. QED
    BY <2>1, <2>2, <2>3 DEF Row
<1>4. TypeOK'
  BY <1>1, <1>2, <1>3 DEF Inv, TypeOK
<1>5. Issued' = Issued /\ Usable' \subseteq Usable
  BY <1>3 DEF Issued, Usable, Kind
<1>6. HoldsIssued'
  BY <1>1, <1>5 DEF Inv, HoldsIssued
<1>7. RowsAreCounted'
  <2> SUFFICES ASSUME NEW s \in Tokens \ disturbed PROVE Counted(s)'
    BY <1>2 DEF RowsAreCounted
  <2>1. Untouched(s)
    BY <1>1, <1>2, <1>3 DEF Untouched, Holders
  <2>2. QED
    BY <2>1, StaysCounted DEF Inv, RowsAreCounted
<1>8. AddressInv'
  <2>1. Held' = Held
    BY <1>1 DEF Held
  <2>2. Outstanding' \subseteq Outstanding
    <3>1. Held \subseteq Tokens \union {NoToken}
      BY Loaded DEF Held
    <3>2. \A s \in Tokens : Kind(s)' = Kind(s)
      BY <1>3 DEF Kind
    <3>3. QED
      BY <1>5, <2>1, <3>1, <3>2 DEF Outstanding, Usable, Issued
  <2>3. Calm
    BY <1>1, <1>2, <1>3, <2>2 DEF Calm
  <2>4. QED
    BY <2>3, CalmStep DEF Inv
<1>9. QED
  BY <1>4, <1>6, <1>7, <1>8 DEF Inv

(* A token that could verify the account takes from every change that it    *)
(* was alone; its mail goes to the address of the moment.                   *)
LEMMA CreateStep ==
    ASSUME Inv, NEW t \in Tokens, NEW kind \in Kinds, Create(t, kind)
    PROVE  Inv'
<1>1. /\ t \notin Issued
      /\ UNCHANGED <<email, verified, uses, guesses, unmarked, disturbed,
                     proved, settled>>
  BY DEF Create, history
<1>2. Cardinality(Issued) + 1 \in Nat
  <2>1. Issued \subseteq Tokens
    BY DEF Issued
  <2>2. IsFiniteSet(Issued)
    BY <2>1, TokensAssumption, FS_Subset
  <2>3. QED
    BY <2>2, FS_CardinalityType
<1>3. /\ token' \in [Tokens -> Row]
      /\ token'[t].kind = kind /\ token'[t].address = email
      /\ token'[t].used = token[t].used
      /\ token'[t].attempts_count = token[t].attempts_count
      /\ \A s \in Tokens : s # t => token'[s] = token[s]
  <2> DEFINE row == [token[t] EXCEPT !.kind = kind, !.address = email,
                                     !.issued = Cardinality(Issued) + 1]
  <2>1. token \in [Tokens -> Row] /\ email \in Addresses
    BY DEF Inv, TypeOK
  <2>2. token' = [token EXCEPT ![t] = row]
    BY DEF Create
  <2>3. /\ row \in Row /\ row.kind = kind /\ row.address = email
        /\ row.used = token[t].used
        /\ row.attempts_count = token[t].attempts_count
    BY <1>2, <2>1 DEF Row
  <2> HIDE DEF row
  <2>4. QED
    BY <2>1, <2>2, <2>3
<1>4. \A r \in Requests :
         req'[r] = IF kind # "reset" THEN [req[r] EXCEPT !.alone = FALSE]
                                     ELSE req[r]
  BY DEF Create
<1>5. \A r \in Requests :
         /\ req'[r] \in Request
         /\ req'[r].pc = req[r].pc /\ req'[r].token = req[r].token
         /\ req'[r].attempts = req[r].attempts
         /\ req'[r].wasVerified = req[r].wasVerified
         /\ req'[r].alone => req[r].alone /\ kind = "reset"
  <2> SUFFICES ASSUME NEW r \in Requests
               PROVE  /\ req'[r] \in Request
                      /\ req'[r].pc = req[r].pc /\ req'[r].token = req[r].token
                      /\ req'[r].attempts = req[r].attempts
                      /\ req'[r].wasVerified = req[r].wasVerified
                      /\ req'[r].alone => req[r].alone /\ kind = "reset"
    OBVIOUS
  <2>1. req[r] \in Request
    BY DEF Inv, TypeOK
  <2>2. CASE kind = "reset"
    BY <1>4, <2>1, <2>2
  <2>3. CASE kind # "reset"
    <3>1. req'[r] = [req[r] EXCEPT !.alone = FALSE]
      BY <1>4, <2>3
    <3>2. QED
      BY <2>1, <3>1 DEF Request
  <2>4. QED
    BY <2>2, <2>3
<1>6. req' \in [Requests -> Request]
  <2>1. req' = [r \in Requests |-> req'[r]]
    BY DEF Create
  <2>2. QED
    BY <1>5, <2>1
<1>7. TypeOK'
  BY <1>1, <1>3, <1>6 DEF Inv, TypeOK
<1>8. Issued' = Issued \union {t}
  BY <1>3 DEF Issued, Kind, Kinds
<1>9. HoldsIssued'
  BY <1>5, <1>8 DEF Inv, HoldsIssued
<1>10. RowsAreCounted'
  <2> SUFFICES ASSUME NEW s \in Tokens \ disturbed PROVE Counted(s)'
    BY <1>1 DEF RowsAreCounted
  <2>1. Untouched(s)
    BY <1>1, <1>3, <1>5 DEF Untouched, Holders
  <2>2. QED
    BY <2>1, StaysCounted DEF Inv, RowsAreCounted
<1>11. Held' = Held
  BY <1>5 DEF Held
<1>12. Outstanding' \subseteq Outstanding \union {t}
  <2>1. Held \subseteq Tokens \union {NoToken}
    BY Loaded DEF Held
  <2>2. Usable' \subseteq Usable \union {t}
    BY <1>3, <1>8 DEF Usable, Issued
  <2>3. \A s \in Tokens : s # t => Kind(s)' = Kind(s)
    BY <1>3 DEF Kind
  <2>4. QED
    BY <1>11, <2>1, <2>2, <2>3 DEF Outstanding, Usable, Issued
<1>13. AddressInv'
  <2>1. CASE kind = "reset"
    <3>1. Outstanding' \subseteq Outstanding
      BY <1>3, <1>12, <2>1 DEF Outstanding, Kind
    <3>2. AloneIsQuiet'
      BY <1>1, <1>5, <3>1 DEF Inv, AddressInv, AloneIsQuiet
    <3>3. \A s \in Outstanding' : s \in Outstanding /\ s \in Tokens /\ s # t
      BY <1>1, <1>3, <2>1, <3>1, Loaded
         DEF Outstanding, Kind, Usable, Issued, Held
    <3>4. OutstandingIsCurrent'
      BY <1>1, <1>3, <3>3 DEF Inv, AddressInv, OutstandingIsCurrent
    <3>5. ReverifiedIfSettled'
      BY <1>1 DEF Inv, AddressInv, ReverifiedIfSettled
    <3>6. QED
      BY <3>2, <3>4, <3>5 DEF AddressInv
  <2>2. CASE kind # "reset"
    <3>1. AloneIsQuiet'
      BY <1>5, <2>2 DEF AloneIsQuiet
    <3>2. \A s \in Outstanding : s \in Tokens
      BY Loaded DEF Outstanding, Usable, Issued, Held
    <3>3. OutstandingIsCurrent'
      BY <1>1, <1>3, <1>12, <3>2
         DEF Inv, AddressInv, OutstandingIsCurrent
    <3>4. ReverifiedIfSettled'
      BY <1>1 DEF Inv, AddressInv, ReverifiedIfSettled
    <3>5. QED
      BY <3>1, <3>3, <3>4 DEF AddressInv
  <2>3. QED
    BY <2>1, <2>2
<1>14. QED
  BY <1>7, <1>9, <1>10, <1>13 DEF Inv

-----------------------------------------------------------------------------
(* The steps of a request. *)

(* A request that moves on with its row, or lets go of it, and does not     *)
(* count anything.                                                          *)
Passes(r, q) ==
    /\ Becomes(r, q)
    /\ q.token = NoToken <=> q.pc \in {"idle", "change"}
    /\ q.token \in {NoToken, req[r].token}
    /\ ~q.alone
    /\ UNCHANGED <<email, verified, settled, disturbed>>

LEMMA PassesFacts ==
    ASSUME Inv, NEW r \in Requests, NEW q, Passes(r, q),
           proved \subseteq proved',
           \A s \in Tokens : /\ token'[s].kind = token[s].kind
                             /\ token'[s].address = token[s].address
                             /\ token[s].used => token'[s].used
                             /\ token'[s].expired = token[s].expired
    PROVE  /\ HoldsIssued' /\ AddressInv'
           /\ \A s \in Tokens : s # req[r].token =>
                 /\ Holders(s)' = Holders(s)
                 /\ \A h \in Holders(s) : h # r /\ req'[h] = req[h]
           /\ \A s \in Tokens : Holders(s)' \subseteq Holders(s)
<1>1. /\ req'[r] = q /\ \A s \in Requests : s # r => req'[s] = req[s]
      /\ q.token = NoToken <=> q.pc \in {"idle", "change"}
      /\ q.token \in {NoToken, req[r].token} /\ ~q.alone
      /\ UNCHANGED <<email, verified, settled, disturbed>>
  BY DEF Passes, Becomes
<1>2. Issued' = Issued /\ Usable' \subseteq Usable
  BY DEF Issued, Usable, Kind
<1>3. HoldsIssued'
  BY <1>1, <1>2, Loaded DEF HoldsIssued
<1>4. Held' \subseteq Held \union {NoToken}
  BY <1>1 DEF Held
<1>5. Outstanding' \subseteq Outstanding
  <2>1. \A s \in Tokens : Kind(s)' = Kind(s)
    BY DEF Kind
  <2>2. Held \subseteq Tokens \union {NoToken}
    BY Loaded DEF Held
  <2>3. QED
    BY <1>2, <1>4, <2>1, <2>2 DEF Outstanding, Usable, Issued
<1>6. Calm
  BY <1>1, <1>5 DEF Calm
<1>7. AddressInv'
  BY <1>6, CalmStep DEF Inv
<1>8. ASSUME NEW s \in Tokens
      PROVE  /\ Holders(s)' \subseteq Holders(s)
             /\ s # req[r].token =>
                   /\ Holders(s)' = Holders(s)
                   /\ \A h \in Holders(s) : h # r /\ req'[h] = req[h]
  BY <1>1 DEF Holders
<1>9. QED
  BY <1>3, <1>7, <1>8

(* To read a row makes its reader the only holder, or disturbs it. *)
LEMMA TakeStep ==
    ASSUME Inv, NEW r \in Requests, NEW t \in Tokens,
           NEW pc \in {"consume", "exhaust", "count"},
           pc = "count" => token[t].attempts_count < MaxAttempts,
           Take(r, t, pc)
    PROVE  Inv'
<1> DEFINE was == pc = "consume" /\ Kind(t) = "magic" /\ verified
           q == [Idle EXCEPT
                   !.pc = pc, !.token = t,
                   !.attempts = IF pc = "count" THEN token[t].attempts_count
                                ELSE 0,
                   !.wasVerified = was]
<1>1. /\ req[r] = Idle /\ t \in Usable /\ req' = [req EXCEPT ![r] = q]
      /\ UNCHANGED <<token, email, verified, unmarked, proved, settled>>
  BY DEF Take, rows
<1>2. was \in BOOLEAN
  BY DEF Inv, TypeOK
<1>3. token[t] \in Row /\ t \in Issued /\ ~token[t].used
  BY <1>1 DEF Inv, TypeOK, Usable
<1> HIDE DEF was
<1>4. /\ q \in Request /\ q.pc = pc /\ q.token = t /\ q.alone = FALSE
      /\ pc = "count" => q.attempts = token[t].attempts_count
  BY <1>2, <1>3 DEF Idle, Request, Pcs, Row
<1> HIDE DEF q
<1>5. /\ req' \in [Requests -> Request] /\ req'[r] = q
      /\ \A s \in Requests : s # r => req'[s] = req[s]
  BY <1>1, <1>4, Replaced DEF Becomes, Inv
<1>6. req[r].token = NoToken
  BY <1>1, IdleType
<1>7. \A s \in Tokens : s # t => Holders(s)' = Holders(s)
  BY <1>4, <1>5, <1>6 DEF Holders
<1>8. \A s \in Tokens : \A h \in Holders(s) : h # r /\ req'[h] = req[h]
  BY <1>5, <1>6 DEF Holders
<1>9. \A s \in Tokens \ {t} : uses'[s] = uses[s] /\ guesses'[s] = guesses[s]
  BY DEF Take, Disturb, Inv, TypeOK
<1>10. /\ uses' \in [Tokens -> 0..2] /\ disturbed' \in SUBSET Tokens
       /\ guesses' \in [Tokens -> 0..MaxAttempts + 1]
       /\ disturbed \subseteq disturbed'
  <2>1. CASE Disturb(t)
    BY <2>1 DEF Disturb, Inv, TypeOK
  <2>2. CASE UNCHANGED <<uses, guesses, disturbed>>
    BY <2>2 DEF Inv, TypeOK
  <2>3. QED
    BY <2>1, <2>2 DEF Take
<1>11. TypeOK'
  BY <1>1, <1>5, <1>10 DEF Inv, TypeOK
<1>12. HoldsIssued'
  <2>1. Issued' = Issued
    BY <1>1 DEF Issued, Kind
  <2>2. QED
    BY <1>3, <1>4, <1>5, <2>1 DEF Inv, HoldsIssued
<1>13. RowsAreCounted'
  <2> SUFFICES ASSUME NEW s \in Tokens, s \notin disturbed' PROVE Counted(s)'
    BY DEF RowsAreCounted
  <2>1. Counted(s)
    BY <1>10 DEF Inv, RowsAreCounted
  <2>2. CASE s # t
    <3>1. Untouched(s)
      BY <1>1, <1>7, <1>8, <1>9, <2>2 DEF Untouched
    <3>2. QED
      BY <2>1, <3>1, StaysCounted
  <2>3. CASE s = t
    <3>1. t \notin Held /\ UNCHANGED <<uses, guesses, disturbed>>
      BY <2>3 DEF Take, Disturb
    <3>2. Holders(t) = {}
      BY <3>1 DEF Holders, Held
    <3>3. Holders(t)' = {r}
      BY <1>4, <1>5, <3>2 DEF Holders
    <3>4. /\ uses[t] = 0 /\ guesses[t] = token[t].attempts_count
          /\ token[t].attempts_count <= MaxAttempts
          /\ token[t].attempts_count = MaxAttempts => t \in unmarked
          /\ token[t].attempts_count \in Nat
      BY <1>3, <2>1, <2>3, <3>2 DEF Counted, Row
    <3>5. QED
      BY <1>1, <1>4, <1>5, <2>3, <3>1, <3>3, <3>4 DEF Counted
  <2>4. QED
    BY <2>2, <2>3
<1>14. AddressInv'
  <2>1. Outstanding' \subseteq Outstanding
    <3>1. Held' \subseteq Held \union {t} /\ Usable' = Usable
      BY <1>1, <1>4, <1>5 DEF Held, Usable, Issued, Kind
    <3>2. QED
      BY <1>1, <3>1 DEF Outstanding, Kind
  <2>2. Calm
    BY <1>1, <1>4, <1>5, <2>1 DEF Calm
  <2>3. QED
    BY <2>2, CalmStep DEF Inv
<1>15. QED
  BY <1>11, <1>12, <1>13, <1>14 DEF Inv

LEMMA BeginStep ==
    ASSUME Inv, NEW r \in Requests, NEW t \in Tokens, NEW right \in BOOLEAN,
           BeginConsume(r, t) \/ BeginOtp(r, t, right)
    PROVE  Inv'
<1>1. CASE BeginConsume(r, t)
  BY <1>1, TakeStep DEF BeginConsume
<1>2. CASE BeginOtp(r, t, right)
  <2>1. token[t].attempts_count \in Nat
    BY DEF Inv, TypeOK, Row
  <2>2. PICK pc : pc = IF token[t].attempts_count >= MaxAttempts THEN "exhaust"
                       ELSE IF right THEN "consume" ELSE "count"
    OBVIOUS
  <2>3. /\ pc \in {"consume", "exhaust", "count"}
        /\ pc = "count" => token[t].attempts_count < MaxAttempts
    BY <2>1, <2>2
  <2>4. Take(r, t, pc)
    BY <1>2, <2>2 DEF BeginOtp
  <2>5. QED
    BY <2>3, <2>4, TakeStep
<1>3. QED
  BY <1>1, <1>2

(* A request ends, or goes on to another step, and the row stays as it is:  *)
(* what is asked of the row is still there.                                 *)
LEMMA PassStep ==
    ASSUME Inv, NEW r \in Requests, NEW q, Passes(r, q),
           UNCHANGED <<token, proved, guesses, uses>>,
           unmarked \subseteq unmarked', unmarked' \subseteq Tokens,
           q.pc = "idle" \/ q.pc = "exhaust",
           q.pc = "exhaust" => q.token = req[r].token,
           req[r].pc \in {"recount", "exhaust"} =>
              \/ q.pc = "exhaust"
              \/ token[req[r].token].attempts_count < MaxAttempts
              \/ req[r].token \in unmarked'
    PROVE  Inv'
<1>1. /\ HoldsIssued' /\ AddressInv'
      /\ \A s \in Tokens : s # req[r].token =>
            /\ Holders(s)' = Holders(s)
            /\ \A h \in Holders(s) : h # r /\ req'[h] = req[h]
      /\ \A s \in Tokens : Holders(s)' \subseteq Holders(s)
  BY PassesFacts
<1>2. /\ req'[r] = q /\ \A s \in Requests : s # r => req'[s] = req[s]
      /\ q \in Request /\ req' \in [Requests -> Request]
      /\ UNCHANGED <<email, verified, settled, disturbed>>
  BY DEF Passes, Becomes
<1>3. TypeOK'
  BY <1>2 DEF Inv, TypeOK
<1>4. RowsAreCounted'
  <2> SUFFICES ASSUME NEW s \in Tokens \ disturbed PROVE Counted(s)'
    BY <1>2 DEF RowsAreCounted
  <2>1. Counted(s)
    BY DEF Inv, RowsAreCounted
  <2>2. CASE s # req[r].token
    <3>1. Untouched(s)
      BY <1>1, <2>2 DEF Untouched
    <3>2. QED
      BY <2>1, <3>1, StaysCounted
  <2>3. CASE s = req[r].token
    <3>1. Holders(s) = {r}
      BY <2>1, <2>3 DEF Counted, Holders
    <3>2. Holders(s)' \subseteq {r} /\ (q.pc = "exhaust" => r \in Holders(s)')
      BY <1>1, <1>2, <2>3, <3>1 DEF Holders
    <3>3. q.pc # "count" /\ q.pc # "use"
      OBVIOUS
    <3>4. /\ guesses[s] = token[s].attempts_count /\ uses[s] = 0
          /\ token[s].attempts_count <= MaxAttempts
      BY <2>1, <3>1 DEF Counted
    <3>5. token[s].attempts_count = MaxAttempts =>
             \/ token[s].used \/ s \in unmarked'
             \/ q.pc = "exhaust" /\ r \in Holders(s)'
      <4>1. token[s].attempts_count = MaxAttempts =>
               \/ token[s].used \/ s \in unmarked
               \/ req[r].pc \in {"recount", "exhaust"}
        BY <2>1, <3>1 DEF Counted
      <4>2. QED
        BY <2>3, <3>2, <4>1
    <3>6. QED
      BY <1>2, <3>2, <3>3, <3>4, <3>5 DEF Counted
  <2>4. QED
    BY <2>2, <2>3
<1>5. QED
  BY <1>1, <1>3, <1>4 DEF Inv

LEMMA RefuseStep ==
    ASSUME Inv, NEW r \in Requests, RefusePassword(r)
    PROVE  Inv'
<1>1. req[r].pc = "use" /\ Finish(r) /\ UNCHANGED <<rows, history>>
  BY DEF RefusePassword
<1>2. UNCHANGED <<token, email, verified, uses, guesses, unmarked, disturbed,
                  proved, settled>>
  BY <1>1 DEF rows, history
<1>3. Passes(r, Idle)
  BY <1>1, <1>2, Finished, IdleType DEF Passes, Inv
<1>4. QED
  BY <1>1, <1>2, <1>3, IdleType, PassStep DEF Inv, TypeOK

LEMMA RecountStep ==
    ASSUME Inv, NEW r \in Requests, Recount(r)
    PROVE  Inv'
<1>1. req[r].pc = "recount" /\ UNCHANGED <<rows, history>>
  BY DEF Recount
<1>2. UNCHANGED <<token, email, verified, uses, guesses, unmarked, disturbed,
                  proved, settled>>
  BY <1>1 DEF rows, history
<1>3. /\ req[r].token \in Tokens /\ ~req[r].alone
      /\ token[req[r].token].attempts_count \in Nat
  BY <1>1, Loaded DEF Inv, AddressInv, AloneIsQuiet, Row
<1>4. CASE token[req[r].token].attempts_count >= MaxAttempts
  <2>1. "exhaust" \in Pcs /\ Go(r, "exhaust")
    BY <1>4 DEF Recount, Pcs
  <2>2. PICK q \in Request : /\ Becomes(r, q)
                             /\ q.pc = "exhaust" /\ q.token = req[r].token
                             /\ q.alone = req[r].alone
    BY <2>1, Gone DEF Inv
  <2>3. Passes(r, q)
    BY <1>2, <1>3, <2>2 DEF Passes
  <2>4. QED
    BY <1>1, <1>2, <2>2, <2>3, PassStep DEF Inv, TypeOK
<1>5. CASE ~(token[req[r].token].attempts_count >= MaxAttempts)
  <2>1. Finish(r)
    BY <1>5 DEF Recount
  <2>2. Passes(r, Idle)
    BY <1>2, <2>1, Finished, IdleType DEF Passes, Inv
  <2>3. token[req[r].token].attempts_count < MaxAttempts
    BY <1>3, <1>5
  <2>4. QED
    BY <1>1, <1>2, <2>2, <2>3, IdleType, PassStep DEF Inv, TypeOK
<1>6. QED
  BY <1>4, <1>5

(* The use of a row that is spent. *)
LEMMA UseStep ==
    ASSUME Inv, NEW r \in Requests, Use(r)
    PROVE  Inv'
<1>1. PICK t : t = req[r].token
  OBVIOUS
<1>2. /\ req[r].pc = "use" /\ Used(t) /\ Finish(r)
      /\ UNCHANGED <<token, email, verified, guesses, unmarked, disturbed,
                     proved, settled>>
  BY <1>1 DEF Use, rows
<1>3. t \in Tokens
  BY <1>1, <1>2, Loaded
<1>4. Passes(r, Idle)
  BY <1>2, Finished, IdleType DEF Passes, Inv
<1>5. /\ HoldsIssued' /\ AddressInv'
      /\ \A s \in Tokens : s # t =>
            /\ Holders(s)' = Holders(s)
            /\ \A h \in Holders(s) : h # r /\ req'[h] = req[h]
      /\ \A s \in Tokens : Holders(s)' \subseteq Holders(s)
  BY <1>1, <1>2, <1>4, PassesFacts
<1>6. req' \in [Requests -> Request] /\ req'[r] = Idle
  BY <1>4 DEF Passes, Becomes
<1>7. /\ uses' \in [Tokens -> 0..2]
      /\ \A s \in Tokens : s # t => uses'[s] = uses[s]
      /\ t \notin disturbed /\ uses[t] = 0 => uses'[t] = 1
  <2>1. UpTo(2, uses[t]) \in 0..2 /\ (uses[t] = 0 => UpTo(2, uses[t]) = 1)
    BY <1>3 DEF UpTo, Inv, TypeOK
  <2>2. QED
    BY <1>2, <1>3, <2>1 DEF Used, Inv, TypeOK
<1>8. TypeOK'
  BY <1>2, <1>6, <1>7 DEF Inv, TypeOK
<1>9. RowsAreCounted'
  <2> SUFFICES ASSUME NEW s \in Tokens \ disturbed PROVE Counted(s)'
    BY <1>2 DEF RowsAreCounted
  <2>1. Counted(s)
    BY DEF Inv, RowsAreCounted
  <2>2. CASE s # t
    <3>1. Untouched(s)
      BY <1>2, <1>5, <1>7, <2>2 DEF Untouched
    <3>2. QED
      BY <2>1, <3>1, StaysCounted
  <2>3. CASE s = t
    <3>1. Holders(s) = {r}
      BY <1>1, <2>1, <2>3 DEF Counted, Holders
    <3>2. Holders(s)' = {}
      BY <1>3, <1>5, <1>6, <2>3, <3>1, IdleType DEF Holders
    <3>3. /\ uses[s] = 0 /\ token[s].used
          /\ guesses[s] = token[s].attempts_count
          /\ token[s].attempts_count <= MaxAttempts
      BY <1>2, <2>1, <3>1 DEF Counted
    <3>4. QED
      BY <1>2, <1>7, <2>3, <3>2, <3>3 DEF Counted
  <2>4. QED
    BY <2>2, <2>3
<1>10. QED
  BY <1>5, <1>8, <1>9 DEF Inv

(* A worker that dies leaves the row as it is. *)
LEMMA CrashStep ==
    ASSUME Inv, NEW r \in Requests, Crash(r)
    PROVE  Inv'
<1>1. PICK t : t = req[r].token
  OBVIOUS
<1>2. /\ Finish(r)
      /\ UNCHANGED <<token, email, verified, uses, guesses, disturbed, proved,
                     settled>>
      /\ unmarked' = IF /\ req[r].pc \in {"recount", "exhaust"}
                        /\ token[t].attempts_count >= MaxAttempts
                     THEN unmarked \union {t} ELSE unmarked
  BY <1>1 DEF Crash, rows
<1>3. /\ unmarked \in SUBSET Tokens
      /\ req[r].pc \in {"recount", "exhaust"} =>
            t \in Tokens /\ token[t].attempts_count \in Nat
  BY <1>1, Loaded DEF Inv, TypeOK, Row
<1>4. /\ unmarked \subseteq unmarked' /\ unmarked' \subseteq Tokens
      /\ req[r].pc \in {"recount", "exhaust"} =>
            token[t].attempts_count < MaxAttempts \/ t \in unmarked'
  BY <1>2, <1>3
<1>5. Passes(r, Idle)
  BY <1>2, Finished, IdleType DEF Passes, Inv
<1>6. QED
  BY <1>1, <1>2, <1>4, <1>5, IdleType, PassStep

(* The count that was read is the row's, if nobody disturbed it. *)
LEMMA CountStep ==
    ASSUME Inv, NEW r \in Requests, Count(r)
    PROVE  Inv'
<1>1. PICK t, n : t = req[r].token /\ n = req[r].attempts
  OBVIOUS
<1>2. /\ req[r].pc = "count" /\ Go(r, "recount")
      /\ token' = [token EXCEPT ![t].attempts_count = n + 1]
      /\ guesses' = Guessed(t)
      /\ UNCHANGED <<email, verified, uses, unmarked, disturbed, proved,
                     settled>>
  BY <1>1 DEF Count
<1>3. t \in Tokens /\ n \in Nat /\ token \in [Tokens -> Row] /\ ~req[r].alone
  BY <1>1, <1>2, Loaded DEF Inv, TypeOK, Request, AddressInv, AloneIsQuiet
<1>4. /\ token' \in [Tokens -> Row] /\ token'[t].attempts_count = n + 1
      /\ token'[t].used = token[t].used
      /\ \A s \in Tokens : /\ token'[s].kind = token[s].kind
                           /\ token'[s].address = token[s].address
                           /\ token'[s].used = token[s].used
                           /\ token'[s].expired = token[s].expired
                           /\ s # t => token'[s] = token[s]
  <2>1. token' = [token EXCEPT
                    ![t] = [token[t] EXCEPT !.attempts_count = n + 1]]
    BY <1>2
  <2>2. [token[t] EXCEPT !.attempts_count = n + 1] \in Row
    BY <1>3 DEF Row
  <2>3. QED
    BY <1>3, <2>1, <2>2 DEF Row
<1>5. PICK q \in Request : /\ Becomes(r, q)
                           /\ q.pc = "recount" /\ q.token = t
                           /\ q.alone = req[r].alone
  BY <1>1, <1>2, Gone DEF Inv, Pcs
<1>6. Passes(r, q)
  BY <1>1, <1>2, <1>3, <1>5 DEF Passes
<1>7. /\ HoldsIssued' /\ AddressInv'
      /\ \A s \in Tokens : s # t =>
            /\ Holders(s)' = Holders(s)
            /\ \A h \in Holders(s) : h # r /\ req'[h] = req[h]
      /\ \A s \in Tokens : Holders(s)' \subseteq Holders(s)
  BY <1>1, <1>2, <1>4, <1>6, PassesFacts
<1>8. req' \in [Requests -> Request] /\ req'[r] = q
  BY <1>5 DEF Becomes
<1>9. /\ guesses' \in [Tokens -> 0..MaxAttempts + 1]
      /\ \A s \in Tokens : s # t => guesses'[s] = guesses[s]
      /\ t \notin disturbed /\ guesses[t] < MaxAttempts =>
            guesses'[t] = guesses[t] + 1
  <2>1. /\ UpTo(MaxAttempts + 1, guesses[t]) \in 0..MaxAttempts + 1
        /\ guesses[t] < MaxAttempts =>
              UpTo(MaxAttempts + 1, guesses[t]) = guesses[t] + 1
    BY <1>3 DEF UpTo, Inv, TypeOK
  <2>2. QED
    BY <1>2, <1>3, <2>1 DEF Guessed, Inv, TypeOK
<1>10. TypeOK'
  BY <1>2, <1>4, <1>8, <1>9 DEF Inv, TypeOK
<1>11. RowsAreCounted'
  <2> SUFFICES ASSUME NEW s \in Tokens \ disturbed PROVE Counted(s)'
    BY <1>2 DEF RowsAreCounted
  <2>1. Counted(s)
    BY DEF Inv, RowsAreCounted
  <2>2. CASE s # t
    <3>1. Untouched(s)
      BY <1>2, <1>4, <1>7, <1>9, <2>2 DEF Untouched
    <3>2. QED
      BY <2>1, <3>1, StaysCounted
  <2>3. CASE s = t
    <3>1. Holders(s) = {r}
      BY <1>1, <2>1, <2>3 DEF Counted, Holders
    <3>2. Holders(s)' = {r}
      BY <1>5, <1>7, <1>8, <2>3, <3>1 DEF Holders
    <3>3. /\ uses[s] = 0 /\ n = token[s].attempts_count /\ n < MaxAttempts
          /\ guesses[s] = n
      BY <1>1, <1>2, <2>1, <3>1 DEF Counted
    <3>4. guesses'[s] = n + 1
      BY <1>9, <2>3, <3>3
    <3>5. QED
      BY <1>2, <1>3, <1>4, <1>5, <1>8, <2>3, <3>2, <3>3, <3>4 DEF Counted
  <2>4. QED
    BY <2>2, <2>3
<1>12. QED
  BY <1>7, <1>10, <1>11 DEF Inv

LEMMA ExhaustStep ==
    ASSUME Inv, NEW r \in Requests, Exhaust(r)
    PROVE  Inv'
<1>1. PICK t : t = req[r].token
  OBVIOUS
<1>2. /\ req[r].pc = "exhaust" /\ Finish(r)
      /\ token' = [token EXCEPT ![t].used = TRUE]
      /\ UNCHANGED <<email, verified, uses, guesses, unmarked, disturbed,
                     proved, settled>>
  BY <1>1 DEF Exhaust, history
<1>3. t \in Tokens /\ token \in [Tokens -> Row]
  BY <1>1, <1>2, Loaded DEF Inv, TypeOK
<1>4. /\ token' \in [Tokens -> Row] /\ token'[t].used
      /\ token'[t].attempts_count = token[t].attempts_count
      /\ \A s \in Tokens : /\ token'[s].kind = token[s].kind
                           /\ token'[s].address = token[s].address
                           /\ token[s].used => token'[s].used
                           /\ token'[s].expired = token[s].expired
                           /\ s # t => token'[s] = token[s]
  BY <1>2, <1>3 DEF Row
<1>5. Passes(r, Idle)
  BY <1>2, Finished, IdleType DEF Passes, Inv
<1>6. /\ HoldsIssued' /\ AddressInv'
      /\ \A s \in Tokens : s # t =>
            /\ Holders(s)' = Holders(s)
            /\ \A h \in Holders(s) : h # r /\ req'[h] = req[h]
      /\ \A s \in Tokens : Holders(s)' \subseteq Holders(s)
  BY <1>1, <1>2, <1>4, <1>5, PassesFacts
<1>7. req' \in [Requests -> Request] /\ req'[r] = Idle
  BY <1>5 DEF Passes, Becomes
<1>8. TypeOK'
  BY <1>2, <1>4, <1>7 DEF Inv, TypeOK
<1>9. RowsAreCounted'
  <2> SUFFICES ASSUME NEW s \in Tokens \ disturbed PROVE Counted(s)'
    BY <1>2 DEF RowsAreCounted
  <2>1. Counted(s)
    BY DEF Inv, RowsAreCounted
  <2>2. CASE s # t
    <3>1. Untouched(s)
      BY <1>2, <1>4, <1>6, <2>2 DEF Untouched
    <3>2. QED
      BY <2>1, <3>1, StaysCounted
  <2>3. CASE s = t
    <3>1. Holders(s) = {r}
      BY <1>1, <2>1, <2>3 DEF Counted, Holders
    <3>2. Holders(s)' = {}
      BY <1>3, <1>6, <1>7, <2>3, <3>1, IdleType DEF Holders
    <3>3. /\ uses[s] = 0 /\ guesses[s] = token[s].attempts_count
          /\ token[s].attempts_count <= MaxAttempts
      BY <1>2, <2>1, <3>1 DEF Counted
    <3>4. QED
      BY <1>2, <1>4, <2>3, <3>2, <3>3 DEF Counted
  <2>4. QED
    BY <2>2, <2>3
<1>10. QED
  BY <1>6, <1>8, <1>9 DEF Inv

(* A row is spent, and may verify the account: it was outstanding, so that  *)
(* no change is alone, and if the address is settled its mail went there.   *)
LEMMA ConsumeStep ==
    ASSUME Inv, NEW r \in Requests, Consume(r)
    PROVE  Inv'
<1>1. PICK t : t = req[r].token
  OBVIOUS
<1>2. /\ req[r].pc = "consume"
      /\ token' = [token EXCEPT ![t].used = TRUE]
      /\ proved' = proved \union {token[t].address}
      /\ UNCHANGED <<email, guesses, unmarked, disturbed, settled>>
      /\ IF Kind(t) = "verify" THEN Finish(r) /\ Used(t)
                               ELSE Go(r, "use") /\ UNCHANGED uses
  BY <1>1 DEF Consume
<1>3. /\ t \in Tokens /\ token \in [Tokens -> Row] /\ t \in Held
      /\ t # NoToken /\ ~req[r].alone
  BY <1>1, <1>2, Loaded DEF Inv, TypeOK, AddressInv, AloneIsQuiet, Held
<1>4. /\ token' \in [Tokens -> Row] /\ token'[t].used
      /\ \A s \in Tokens : /\ token'[s].kind = token[s].kind
                           /\ token'[s].address = token[s].address
                           /\ token'[s].attempts_count = token[s].attempts_count
                           /\ token[s].used => token'[s].used
                           /\ token'[s].expired = token[s].expired
                           /\ s # t => token'[s] = token[s]
  BY <1>2, <1>3 DEF Row
<1>5. /\ verified' \in BOOLEAN /\ (verified => verified')
      /\ verified' # verified => Kind(t) # "reset"
  <2>1. verified \in BOOLEAN
    BY DEF Inv, TypeOK
  <2>2. verified' = CASE Kind(t) = "verify"                        -> TRUE
                      [] Kind(t) = "magic" /\ ~req[r].wasVerified -> TRUE
                      [] OTHER                                    -> verified
    BY <1>1 DEF Consume
  <2>3. QED
    BY <2>1, <2>2
<1>6. PICK q \in Request :
           /\ Becomes(r, q) /\ q.alone = FALSE
           /\ \/ /\ q.pc = "idle" /\ q.token = NoToken /\ Used(t)
              \/ /\ q.pc = "use" /\ q.token = t /\ UNCHANGED uses
  <2>1. CASE Kind(t) = "verify"
    BY <1>2, <2>1, Finished, IdleType DEF Inv
  <2>2. CASE Kind(t) # "verify"
    <3>1. "use" \in Pcs /\ Go(r, "use") /\ UNCHANGED uses
      BY <1>2, <2>2 DEF Pcs
    <3>2. PICK q \in Request : /\ Becomes(r, q)
                               /\ q.pc = "use" /\ q.token = req[r].token
                               /\ q.alone = req[r].alone
      BY <3>1, Gone DEF Inv
    <3>3. q.alone = FALSE
      BY <1>3, <3>2 DEF Request
    <3>4. QED
      BY <1>1, <3>1, <3>2, <3>3
  <2>3. QED
    BY <2>1, <2>2
<1>7. /\ req'[r] = q /\ \A s \in Requests : s # r => req'[s] = req[s]
      /\ req' \in [Requests -> Request]
  BY <1>6 DEF Becomes
<1>8. /\ uses' \in [Tokens -> 0..2]
      /\ \A s \in Tokens : s # t => uses'[s] = uses[s]
      /\ Used(t) /\ t \notin disturbed /\ uses[t] = 0 => uses'[t] = 1
  <2>1. UpTo(2, uses[t]) \in 0..2 /\ (uses[t] = 0 => UpTo(2, uses[t]) = 1)
    BY <1>3 DEF UpTo, Inv, TypeOK
  <2>2. QED
    BY <1>3, <1>6, <2>1 DEF Used, Inv, TypeOK
<1>9. TypeOK'
  <2>1. token[t].address \in Addresses
    BY <1>3 DEF Row
  <2>2. QED
    BY <1>2, <1>4, <1>5, <1>7, <1>8, <2>1 DEF Inv, TypeOK
<1>10. Issued' = Issued /\ Usable' \subseteq Usable
  BY <1>4 DEF Issued, Usable, Kind
<1>11. HoldsIssued'
  <2> SUFFICES ASSUME NEW p \in Requests
               PROVE  /\ req'[p].token = NoToken <=>
                            req'[p].pc \in {"idle", "change"}
                      /\ req'[p].token # NoToken => req'[p].token \in Issued'
    BY DEF HoldsIssued
  <2>1. CASE p = r
    <3>1. t \in Issued
      BY <1>1, <1>3, Loaded
    <3>2. QED
      BY <1>3, <1>6, <1>7, <1>10, <2>1, <3>1
  <2>2. CASE p # r
    BY <1>7, <1>10, <2>2, Loaded
  <2>3. QED
    BY <2>1, <2>2
<1>12. RowsAreCounted'
  <2> SUFFICES ASSUME NEW s \in Tokens \ disturbed PROVE Counted(s)'
    BY <1>2 DEF RowsAreCounted
  <2>1. Counted(s)
    BY DEF Inv, RowsAreCounted
  <2>2. CASE s # t
    <3>1. Holders(s)' = Holders(s) /\ \A h \in Holders(s) : h # r
      BY <1>1, <1>3, <1>6, <1>7, <2>2 DEF Holders
    <3>2. Untouched(s)
      BY <1>2, <1>4, <1>7, <1>8, <2>2, <3>1 DEF Untouched, Holders
    <3>3. QED
      BY <2>1, <3>2, StaysCounted
  <2>3. CASE s = t
    <3>1. Holders(s) = {r}
      BY <1>1, <2>1, <2>3 DEF Counted, Holders
    <3>2. /\ uses[s] = 0 /\ guesses[s] = token[s].attempts_count
          /\ token[s].attempts_count <= MaxAttempts
      BY <1>2, <2>1, <3>1 DEF Counted
    <3>3. CASE q.pc = "idle"
      <4>1. Holders(s)' = {}
        BY <1>3, <1>6, <1>7, <2>3, <3>1, <3>3 DEF Holders
      <4>2. uses'[s] = 1
        BY <1>6, <1>8, <2>3, <3>2, <3>3
      <4>3. QED
        BY <1>2, <1>4, <2>3, <3>2, <4>1, <4>2 DEF Counted
    <3>4. CASE q.pc = "use"
      <4>1. Holders(s)' = {r} /\ uses' = uses
        BY <1>3, <1>6, <1>7, <2>3, <3>1, <3>4 DEF Holders
      <4>2. QED
        BY <1>2, <1>4, <1>7, <2>3, <3>2, <3>4, <4>1 DEF Counted
    <3>5. QED
      BY <1>6, <3>3, <3>4
  <2>4. QED
    BY <2>2, <2>3
<1>13. Outstanding \subseteq Tokens /\ Outstanding' \subseteq Outstanding
  <2>1. Held \subseteq Tokens \union {NoToken}
    BY Loaded DEF Held
  <2>2. Held' \subseteq Held \union {NoToken}
    BY <1>1, <1>6, <1>7 DEF Held
  <2>3. \A s \in Tokens : Kind(s)' = Kind(s)
    BY <1>4 DEF Kind
  <2>4. QED
    BY <1>10, <2>1, <2>2, <2>3 DEF Outstanding, Usable, Issued
<1>14. verified' # verified => t \in Outstanding
  BY <1>3, <1>5 DEF Outstanding
<1>15. AddressInv'
  <2>1. AloneIsQuiet'
    <3> SUFFICES ASSUME NEW p \in Requests, req'[p].alone
                 PROVE  /\ req'[p].pc = "change" /\ Outstanding' = {}
                        /\ verified' => req'[p].wasVerified
      BY DEF AloneIsQuiet
    <3>1. req'[p] = req[p]
      BY <1>6, <1>7
    <3>2. /\ req[p].pc = "change" /\ Outstanding = {}
          /\ verified => req[p].wasVerified
      BY <3>1 DEF Inv, AddressInv, AloneIsQuiet
    <3>3. verified' = verified
      BY <1>14, <3>2
    <3>4. QED
      BY <1>13, <3>1, <3>2, <3>3
  <2>2. OutstandingIsCurrent'
    BY <1>2, <1>4, <1>13 DEF Inv, AddressInv, OutstandingIsCurrent
  <2>3. ReverifiedIfSettled'
    <3> SUFFICES ASSUME verified', settled PROVE email \in proved'
      BY <1>2 DEF ReverifiedIfSettled
    <3>1. CASE verified
      BY <1>2, <3>1 DEF Inv, AddressInv, ReverifiedIfSettled
    <3>2. CASE ~verified
      <4>1. t \in Outstanding
        BY <1>14, <3>2
      <4>2. token[t].address = email
        BY <4>1 DEF Inv, AddressInv, OutstandingIsCurrent
      <4>3. QED
        BY <1>2, <4>2
    <3>3. QED
      BY <3>1, <3>2
  <2>4. QED
    BY <2>1, <2>2, <2>3 DEF AddressInv
<1>16. QED
  BY <1>9, <1>11, <1>12, <1>15 DEF Inv

-----------------------------------------------------------------------------
(* The steps of a change of address. *)

LEMMA ChangeFacts ==
    ASSUME Inv, NEW r \in Requests, NEW q \in Request, Becomes(r, q),
           req[r].token = NoToken, q.token = NoToken,
           q.pc \in {"idle", "change"},
           UNCHANGED <<token, uses, guesses, unmarked, disturbed>>
    PROVE  HoldsIssued' /\ RowsAreCounted' /\ Outstanding' \subseteq Outstanding
<1>1. /\ req'[r] = q /\ \A s \in Requests : s # r => req'[s] = req[s]
  BY DEF Becomes
<1>2. Issued' = Issued /\ Usable' = Usable
  BY DEF Issued, Usable, Kind
<1>3. HoldsIssued'
  BY <1>1, <1>2 DEF Inv, HoldsIssued
<1>4. RowsAreCounted'
  <2> SUFFICES ASSUME NEW s \in Tokens \ disturbed PROVE Counted(s)'
    BY DEF RowsAreCounted
  <2>1. Untouched(s)
    BY <1>1 DEF Untouched, Holders
  <2>2. QED
    BY <2>1, StaysCounted DEF Inv, RowsAreCounted
<1>5. Outstanding' \subseteq Outstanding
  <2>1. Held' \subseteq Held
    BY <1>1 DEF Held
  <2>2. QED
    BY <1>2, <2>1 DEF Outstanding, Kind
<1>6. QED
  BY <1>3, <1>4, <1>5

LEMMA BeginChangeStep ==
    ASSUME Inv, NEW r \in Requests, BeginChange(r)
    PROVE  Inv'
<1> DEFINE quiet == Outstanding = {}
           q == [Idle EXCEPT !.pc = "change", !.wasVerified = verified,
                             !.was = email, !.alone = quiet]
<1>1. /\ req[r] = Idle /\ req' = [req EXCEPT ![r] = q]
      /\ UNCHANGED <<token, email, verified, uses, guesses, unmarked,
                     disturbed, proved, settled>>
  BY DEF BeginChange, rows, history
<1>2. verified \in BOOLEAN /\ email \in Addresses /\ quiet \in BOOLEAN
  BY DEF Inv, TypeOK
<1>3. quiet => Outstanding = {}
  OBVIOUS
<1> HIDE DEF quiet
<1>4. /\ q \in Request /\ q.pc = "change" /\ q.token = NoToken
      /\ q.wasVerified = verified /\ q.alone = quiet
  BY <1>2 DEF Idle, Request, Pcs
<1> HIDE DEF q
<1>5. Becomes(r, q)
  BY <1>1, <1>4, Replaced DEF Inv
<1>6. HoldsIssued' /\ RowsAreCounted' /\ Outstanding' \subseteq Outstanding
  BY <1>1, <1>4, <1>5, IdleType, ChangeFacts
<1>7. TypeOK'
  BY <1>1, <1>5 DEF Becomes, Inv, TypeOK
<1>8. AddressInv'
  <2>1. AloneIsQuiet'
    BY <1>1, <1>3, <1>4, <1>5, <1>6
       DEF Becomes, Inv, AddressInv, AloneIsQuiet
  <2>2. OutstandingIsCurrent' /\ ReverifiedIfSettled'
    BY <1>1, <1>6
       DEF Inv, AddressInv, OutstandingIsCurrent, ReverifiedIfSettled
  <2>3. QED
    BY <2>1, <2>2 DEF AddressInv
<1>9. QED
  BY <1>6, <1>7, <1>8 DEF Inv

(* The address is settled by a change that was alone: nothing is            *)
(* outstanding, and what verified the account before it began is undone.    *)
LEMMA ChangeStep ==
    ASSUME Inv, NEW r \in Requests, NEW a \in Addresses, Change(r, a)
    PROVE  Inv'
<1>1. PICK q : q = req[r]
  OBVIOUS
<1>2. /\ q.pc = "change" /\ email' = a /\ settled' = q.alone /\ Finish(r)
      /\ verified' = IF q.wasVerified THEN FALSE ELSE verified
      /\ UNCHANGED <<token, uses, guesses, unmarked, disturbed, proved>>
  BY <1>1 DEF Change
<1>3. q \in Request /\ q.token = NoToken
  BY <1>1, <1>2, Loaded
<1>4. Becomes(r, Idle)
  BY <1>2, Finished DEF Inv
<1>5. HoldsIssued' /\ RowsAreCounted' /\ Outstanding' \subseteq Outstanding
  BY <1>1, <1>2, <1>3, <1>4, IdleType, ChangeFacts
<1>6. verified' \in BOOLEAN /\ (verified' => verified) /\ settled' \in BOOLEAN
  BY <1>2, <1>3 DEF Inv, TypeOK, Request
<1>7. TypeOK'
  BY <1>2, <1>4, <1>6 DEF Becomes, Inv, TypeOK
<1>8. AddressInv'
  <2>1. AloneIsQuiet'
    BY <1>4, <1>5, <1>6, IdleType DEF Becomes, Inv, AddressInv, AloneIsQuiet
  <2>2. settled' => Outstanding = {} /\ ~verified'
    BY <1>1, <1>2 DEF Inv, AddressInv, AloneIsQuiet
  <2>3. OutstandingIsCurrent' /\ ReverifiedIfSettled'
    BY <1>5, <2>2 DEF OutstandingIsCurrent, ReverifiedIfSettled
  <2>4. QED
    BY <2>1, <2>3 DEF AddressInv
<1>9. QED
  BY <1>5, <1>7, <1>8 DEF Inv

-----------------------------------------------------------------------------
(* The invariant. *)

LEMMA InitInv == Init => Inv
<1> SUFFICES ASSUME Init PROVE Inv
  OBVIOUS
<1>1. TypeOK
  <2> DEFINE row == [kind |-> "none", issued |-> 0, used |-> FALSE,
                     expired |-> FALSE, attempts_count |-> 0,
                     address |-> email]
  <2>1. email \in Addresses /\ token = [t \in Tokens |-> row]
    BY DEF Init
  <2>2. row \in Row
    BY <2>1 DEF Row
  <2> HIDE DEF row
  <2>3. token \in [Tokens -> Row]
    BY <2>1, <2>2
  <2>4. /\ uses \in [Tokens -> 0..2]
        /\ guesses \in [Tokens -> 0..MaxAttempts + 1]
    <3>1. 0 \in 0..2 /\ 0 \in 0..MaxAttempts + 1
      OBVIOUS
    <3>2. QED
      BY <3>1 DEF Init
  <2>5. req \in [Requests -> Request]
    BY IdleType DEF Init
  <2>6. /\ verified \in BOOLEAN /\ disturbed \in SUBSET Tokens
        /\ unmarked \in SUBSET Tokens
        /\ proved \in SUBSET Addresses /\ settled \in BOOLEAN
    BY DEF Init
  <2>7. QED
    BY <2>1, <2>3, <2>4, <2>5, <2>6 DEF TypeOK
<1>2. /\ \A r \in Requests : req[r] = Idle
      /\ \A t \in Tokens : Kind(t) = "none" /\ token[t].attempts_count = 0
      /\ \A t \in Tokens : uses[t] = 0 /\ guesses[t] = 0
      /\ verified = FALSE
  BY DEF Init, Kind
<1>3. HoldsIssued
  BY <1>2, IdleType DEF HoldsIssued
<1>4. \A t \in Tokens : Holders(t) = {}
  BY <1>2, IdleType DEF Holders
<1>5. RowsAreCounted
  BY <1>2, <1>4 DEF RowsAreCounted, Counted
<1>6. Outstanding = {}
  BY <1>2, IdleType DEF Outstanding, Usable, Issued, Held
<1>7. AddressInv
  BY <1>2, <1>6, IdleType
     DEF AddressInv, AloneIsQuiet, OutstandingIsCurrent, ReverifiedIfSettled
<1>8. QED
  BY <1>1, <1>3, <1>5, <1>7 DEF Inv

LEMMA StutterStep ==
    ASSUME Inv, UNCHANGED vars
    PROVE  Inv'
<1>1. UNCHANGED <<token, email, verified, req, uses, guesses, unmarked,
                  disturbed, proved, settled>>
  BY DEF vars, rows, history
<1>2. TypeOK'
  BY <1>1 DEF Inv, TypeOK
<1>3. HoldsIssued'
  BY <1>1 DEF Inv, HoldsIssued, Issued, Kind
<1>4. RowsAreCounted'
  <2> SUFFICES ASSUME NEW s \in Tokens \ disturbed PROVE Counted(s)'
    BY <1>1 DEF RowsAreCounted
  <2>1. Untouched(s)
    BY <1>1 DEF Untouched, Holders
  <2>2. QED
    BY <2>1, StaysCounted DEF Inv, RowsAreCounted
<1>5. Calm
  BY <1>1 DEF Calm, Outstanding, Usable, Issued, Held, Kind
<1>6. QED
  BY <1>2, <1>3, <1>4, <1>5, CalmStep DEF Inv

LEMMA StepInv == Inv /\ [Next]_vars => Inv'
<1> SUFFICES ASSUME Inv, [Next]_vars PROVE Inv'
  OBVIOUS
<1>1. ASSUME NEW t \in Tokens, Expire(t) PROVE Inv'
  BY <1>1, ExpireStep
<1>2. ASSUME NEW t \in Tokens, NEW kind \in Kinds, Create(t, kind) PROVE Inv'
  BY <1>2, CreateStep
<1>3. ASSUME NEW r \in Requests, NEW t \in Tokens, NEW right \in BOOLEAN,
             BeginConsume(r, t) \/ BeginOtp(r, t, right)
      PROVE  Inv'
  BY <1>3, BeginStep
<1>4. ASSUME NEW r \in Requests, Consume(r) \/ Use(r) PROVE Inv'
  BY <1>4, ConsumeStep, UseStep
<1>5. ASSUME NEW r \in Requests, RefusePassword(r) \/ Crash(r) PROVE Inv'
  BY <1>5, RefuseStep, CrashStep
<1>6. ASSUME NEW r \in Requests, Count(r) \/ Recount(r) \/ Exhaust(r)
      PROVE  Inv'
  BY <1>6, CountStep, RecountStep, ExhaustStep
<1>7. ASSUME NEW r \in Requests, BeginChange(r) PROVE Inv'
  BY <1>7, BeginChangeStep
<1>8. ASSUME NEW r \in Requests, NEW a \in Addresses, Change(r, a) PROVE Inv'
  BY <1>8, ChangeStep
<1>9. CASE UNCHANGED vars
  BY <1>9, StutterStep
<1>10. QED
  BY <1>1, <1>2, <1>3, <1>4, <1>5, <1>6, <1>7, <1>8, <1>9 DEF Next

LEMMA InvAlways == Spec => []Inv
BY InitInv, StepInv, PTL DEF Spec

-----------------------------------------------------------------------------

(* Every variable keeps its type: no request writes to a row that is not    *)
(* there.                                                                   *)
THEOREM TypeCorrect == Spec => []TypeOK
<1>1. Inv => TypeOK
  BY DEF Inv
<1>2. QED
  BY <1>1, InvAlways, PTL

(* No token gives a second session, password or verification, whenever a    *)
(* worker dies, unless two requests held its row at once.                   *)
THEOREM SingleUse == Spec => []UsedOnce
<1>1. Inv => UsedOnce
  <2> SUFFICES ASSUME Inv, NEW t \in Tokens \ disturbed,
                      NEW using,
                      using = {r \in Requests :
                                 req[r].token = t /\ req[r].pc = "use"}
               PROVE  uses[t] + Cardinality(using) <= 1
    BY DEF UsedOnce
  <2>1. Counted(t) /\ uses[t] \in 0..1
    BY DEF Inv, RowsAreCounted, Counted
  <2>2. CASE using = {}
    <3>1. Cardinality(using) = 0
      BY <2>2, FS_EmptySet
    <3>2. QED
      BY <2>1, <3>1
  <2>3. ASSUME NEW r \in using PROVE uses[t] + Cardinality(using) <= 1
    <3>1. using = {r} /\ uses[t] = 0
      BY <2>1, <2>3 DEF Counted, Holders
    <3>2. Cardinality(using) = 1
      BY <3>1, FS_Singleton
    <3>3. QED
      BY <3>1, <3>2
  <2>4. QED
    BY <2>2, <2>3
<1>2. QED
  BY <1>1, InvAlways, PTL

(* No more than MaxAttempts wrong guesses are refused for a passcode, even  *)
(* if workers die, and its row is used up after them unless one died just   *)
(* before it would have marked it.                                          *)
THEOREM CutOff == Spec => []CodeIsCutOff
<1>1. Inv => CodeIsCutOff
  <2> SUFFICES ASSUME Inv, NEW t \in Tokens \ disturbed
               PROVE  /\ guesses[t] <= MaxAttempts
                      /\ guesses[t] = MaxAttempts =>
                            \/ token[t].used \/ t \in unmarked
                            \/ \E r \in Requests :
                                 /\ req[r].token = t
                                 /\ req[r].pc \in {"recount", "exhaust"}
    BY DEF CodeIsCutOff
  <2>1. Counted(t)
    BY DEF Inv, RowsAreCounted
  <2>2. QED
    BY <2>1 DEF Counted, Holders
<1>2. QED
  BY <1>1, InvAlways, PTL

(* The address of a verified account was proved, if no token was            *)
(* outstanding while it was last being changed.                             *)
THEOREM ReverificationHolds == Spec => []ReverifiedIfSettled
<1>1. Inv => ReverifiedIfSettled
  BY DEF Inv, AddressInv
<1>2. QED
  BY <1>1, InvAlways, PTL
=============================================================================
