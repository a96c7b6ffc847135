-------------------------- MODULE PortalClientProofs --------------------------
(* Theorems about PortalClient, for any set of calls, any of them switches, *)
(* and any number of token pairs.                                           *)
EXTENDS PortalClient, FiniteSetTheorems, TLAPS

USE SwitchesAssumption, MaxPairsAssumption

Inv == TypeOK /\ PortalInv

-----------------------------------------------------------------------------
(* Calls. *)

(* The call c stands at pc, with the pair p, and got on its way to it.       *)
Turns(c, pc, p, got) ==
    /\ call' \in [Calls -> Call]
    /\ call'[c].pc = pc /\ call'[c].token = p /\ call'[c].got = got
    /\ \A d \in Calls : d # c => call'[d] = call[d]

LEMMA TurnsTo ==
    ASSUME TypeOK, NEW c \in Calls, NEW q \in Call, Become(c, q)
    PROVE  Turns(c, q.pc, q.token, q.got)
BY DEF Turns, Become, TypeOK

LEMMA SendsWith ==
    ASSUME TypeOK, NEW c \in Calls, NEW pc \in Pcs,
           NEW p \in Pairs \union {NoPair}, Become(c, Sent(pc, p))
    PROVE  Turns(c, pc, p, NoPair)
<1>1. /\ Sent(pc, p) \in Call /\ Sent(pc, p).pc = pc
      /\ Sent(pc, p).token = p /\ Sent(pc, p).got = NoPair
  BY DEF Sent, Call, NoPair
<1>2. QED
  BY <1>1, TurnsTo

LEMMA Drops ==
    ASSUME TypeOK, NEW c \in Calls, NEW pc \in Pcs, Drop(c, pc)
    PROVE  Turns(c, pc, NoPair, NoPair)
BY SendsWith DEF Drop

LEMMA IsAnswered ==
    ASSUME TypeOK, NEW c \in Calls, NEW pc \in Pcs, NEW p \in Pairs,
           Become(c, [Sent(pc, NoPair) EXCEPT !.got = p])
    PROVE  Turns(c, pc, NoPair, p)
<1> DEFINE q == [Sent(pc, NoPair) EXCEPT !.got = p]
<1>1. q \in Call /\ q.pc = pc /\ q.token = NoPair /\ q.got = p
  BY DEF Sent, Call, NoPair, Pairs
<1>2. Become(c, q)
  OBVIOUS
<1> HIDE DEF q
<1>3. QED
  BY <1>1, <1>2, TurnsTo

(* The server has issued a pair, and revoked those in ended. *)
Issued(ended) ==
    /\ issued + 1 \in Pairs /\ issued + 1 # NoPair
    /\ issued \in Nat /\ issued' = issued + 1 /\ issued' \in 0..MaxPairs
    /\ live' \in SUBSET Pairs /\ fresh' \in SUBSET Pairs
    /\ issued + 1 \in live'
    /\ \A p \in live : p \in ended \/ p \in live'

LEMMA IssueType ==
    ASSUME TypeOK, NEW ended, Issue(ended)
    PROVE  Issued(ended)
<1>1. /\ issued + 1 \in Pairs /\ issued + 1 # NoPair
      /\ issued \in Nat /\ issued' = issued + 1 /\ issued' \in 0..MaxPairs
  BY DEF TypeOK, Issue, Pairs, NoPair
<1>2. /\ live' = (live \ ended) \union {issued + 1}
      /\ fresh' = fresh \union {issued + 1}
      /\ live \in SUBSET Pairs /\ fresh \in SUBSET Pairs
  BY DEF TypeOK, Issue
<1>3. QED
  BY <1>1, <1>2 DEF Issued

-----------------------------------------------------------------------------

(* The parts of Accept, Answer and ServerRefresh: a switch is answered, a   *)
(* call is done, a refresh token is exchanged or is not accepted.           *)
Switched(c) ==
    /\ c \in Switches /\ call[c].pc \in {"sent", "retrying"}
    /\ Issue({})
    /\ Become(c, [Sent("switched", NoPair) EXCEPT !.got = issued + 1])
    /\ UNCHANGED <<client, logout, history>>

Settled(c) ==
    /\ call[c].pc \in {"sent", "retrying"}
    /\ Settle(c)
    /\ UNCHANGED <<client, logout, server, history>>

Refreshed(c) ==
    /\ call[c].pc = "refreshing" /\ call[c].token \in live
    /\ Issue({call[c].token})
    /\ Become(c, [Sent("refreshed", NoPair) EXCEPT !.got = issued + 1])
    /\ UNCHANGED <<client, logout, history>>

TurnedAway(c) ==
    /\ call[c].pc = "refreshing" /\ call[c].token \notin live
    /\ Drop(c, "refused")
    /\ UNCHANGED <<client, logout, server, history>>

-----------------------------------------------------------------------------
(* Nothing in flight can take the pair of an undisturbed sign-in away.      *)
LEMMA LoginStep ==
    ASSUME Inv, Login
    PROVE  Inv'
<1>1. Issued({})
  BY IssueType DEF Login, Inv
<1>2. TypeOK'
  BY <1>1 DEF Inv, PortalInv, Issued, Login, TypeOK, TokensInFlight
<1>3. OneRefresh'
  BY <1>1 DEF Inv, PortalInv, Issued, Login, OneRefresh, Refreshers
<1>4. SubscribersWait'
  BY <1>1 DEF Inv, PortalInv, Issued, Login, TypeOK, SubscribersWait
<1>5. PairsAreOwn'
  BY <1>1 DEF Inv, PortalInv, Issued, Login, TypeOK, PairsAreOwn, Call,
     NoPair, Pairs
<1>6. SessionIsLive'
  <2>1. CASE raced'
    BY <2>1 DEF SessionIsLive
  <2>2. CASE ~raced'
    <3>1. \A d \in Calls : call[d].pc \notin {"refreshing", "refreshed",
                                             "refused", "switched"}
      BY <2>2 DEF Login, TokensInFlight
    <3>2. \A d \in Calls : call[d].got = NoPair
      BY <3>1 DEF Inv, PortalInv, PairsAreOwn
    <3>3. QED
      BY <1>1, <3>1, <3>2 DEF Issued, Login, SessionIsLive
  <2>3. QED
    BY <2>1, <2>2
<1>7. NobodyIsIn'
  BY <1>1 DEF Inv, PortalInv, Issued, Login, NobodyIsIn, TokensInFlight
<1>8. QED
  BY <1>2, <1>3, <1>4, <1>5, <1>6, <1>7 DEF Inv, PortalInv

LEMMA BeginLogoutStep ==
    ASSUME Inv, BeginLogout
    PROVE  Inv'
<1>1. TypeOK'
  BY DEF Inv, PortalInv, BeginLogout, client, server, history, TypeOK
<1>2. OneRefresh'
  BY DEF Inv, PortalInv, BeginLogout, client, server, history, OneRefresh,
     Refreshers
<1>3. SubscribersWait'
  BY DEF Inv, PortalInv, BeginLogout, client, server, history, TypeOK,
     SubscribersWait
<1>4. PairsAreOwn'
  BY DEF Inv, PortalInv, BeginLogout, client, server, history, TypeOK,
     PairsAreOwn, Call, NoPair, Pairs
<1>5. SessionIsLive'
  BY DEF Inv, PortalInv, BeginLogout, client, server, history, TypeOK,
     SessionIsLive, OneRefresh, Refreshers, PairsAreOwn
<1>6. NobodyIsIn'
  BY DEF Inv, PortalInv, BeginLogout, client, server, history, NobodyIsIn,
     TokensInFlight
<1>7. QED
  BY <1>1, <1>2, <1>3, <1>4, <1>5, <1>6 DEF Inv, PortalInv

LEMMA ServerLogoutStep ==
    ASSUME Inv, ServerLogout
    PROVE  Inv'
<1>1. TypeOK'
  BY DEF Inv, PortalInv, ServerLogout, client, server, history, TypeOK
<1>2. OneRefresh'
  BY DEF Inv, PortalInv, ServerLogout, client, server, history, OneRefresh,
     Refreshers
<1>3. SubscribersWait'
  BY DEF Inv, PortalInv, ServerLogout, client, server, history, TypeOK,
     SubscribersWait
<1>4. PairsAreOwn'
  BY DEF Inv, PortalInv, ServerLogout, client, server, history, TypeOK,
     PairsAreOwn, Call, NoPair, Pairs
<1>5. SessionIsLive'
  BY DEF Inv, PortalInv, ServerLogout, client, server, history, TypeOK,
     SessionIsLive, OneRefresh, Refreshers, PairsAreOwn
<1>6. NobodyIsIn'
  BY DEF Inv, PortalInv, ServerLogout, client, server, history, NobodyIsIn,
     TokensInFlight
<1>7. QED
  BY <1>1, <1>2, <1>3, <1>4, <1>5, <1>6 DEF Inv, PortalInv

(* The tokens are cleared; what is in flight and stores others has raced it. *)
LEMMA OnLogoutStep ==
    ASSUME Inv, OnLogout
    PROVE  Inv'
<1>1. TypeOK'
  BY DEF Inv, PortalInv, OnLogout, client, server, history, TypeOK,
     TokensInFlight
<1>2. OneRefresh'
  BY DEF Inv, PortalInv, OnLogout, client, server, history, OneRefresh,
     Refreshers
<1>3. SubscribersWait'
  BY DEF Inv, PortalInv, OnLogout, client, server, history, TypeOK,
     SubscribersWait
<1>4. PairsAreOwn'
  BY DEF Inv, PortalInv, OnLogout, client, server, history, TypeOK,
     PairsAreOwn, Call, NoPair, Pairs
<1>5. SessionIsLive'
  BY DEF Inv, PortalInv, OnLogout, client, server, history, TypeOK,
     SessionIsLive, OneRefresh, Refreshers, PairsAreOwn
<1>6. NobodyIsIn'
  BY DEF Inv, PortalInv, OnLogout, client, server, history, NobodyIsIn,
     TokensInFlight
<1>7. QED
  BY <1>1, <1>2, <1>3, <1>4, <1>5, <1>6 DEF Inv, PortalInv

LEMMA SendStep ==
    ASSUME Inv, NEW c \in Calls, Send(c)
    PROVE  Inv'
<1>1. Turns(c, "sent", stored, NoPair)
  BY SendsWith DEF Send, Pcs, Inv, TypeOK
<1>2. TypeOK'
  BY <1>1 DEF Inv, PortalInv, Turns, Send, client, server, history, TypeOK
<1>3. OneRefresh'
  BY <1>1 DEF Inv, PortalInv, Turns, Send, client, server, history,
     OneRefresh, Refreshers
<1>4. SubscribersWait'
  BY <1>1 DEF Inv, PortalInv, Turns, Send, client, server, history, TypeOK,
     SubscribersWait
<1>5. PairsAreOwn'
  BY <1>1 DEF Inv, PortalInv, Turns, Send, client, server, history, TypeOK,
     PairsAreOwn, Call, NoPair, Pairs
<1>6. SessionIsLive'
  BY <1>1 DEF Inv, PortalInv, Turns, Send, client, server, history, TypeOK,
     SessionIsLive, OneRefresh, Refreshers, PairsAreOwn
<1>7. NobodyIsIn'
  BY <1>1 DEF Inv, PortalInv, Turns, Send, client, server, history,
     NobodyIsIn, TokensInFlight
<1>8. QED
  BY <1>2, <1>3, <1>4, <1>5, <1>6, <1>7 DEF Inv, PortalInv

LEMMA RejectStep ==
    ASSUME Inv, NEW c \in Calls, Reject(c)
    PROVE  Inv'
<1>1. Turns(c, "unauthorized", NoPair, NoPair)
  BY Drops DEF Reject, Settle, Pcs, Inv
<1>2. TypeOK'
  BY <1>1 DEF Inv, PortalInv, Turns, Reject, client, server, history, TypeOK
<1>3. OneRefresh'
  BY <1>1 DEF Inv, PortalInv, Turns, Reject, client, server, history,
     OneRefresh, Refreshers
<1>4. SubscribersWait'
  BY <1>1 DEF Inv, PortalInv, Turns, Reject, client, server, history, TypeOK,
     SubscribersWait
<1>5. PairsAreOwn'
  BY <1>1 DEF Inv, PortalInv, Turns, Reject, client, server, history, TypeOK,
     PairsAreOwn, Call, NoPair, Pairs
<1>6. SessionIsLive'
  BY <1>1 DEF Inv, PortalInv, Turns, Reject, client, server, history, TypeOK,
     SessionIsLive, OneRefresh, Refreshers, PairsAreOwn
<1>7. NobodyIsIn'
  BY <1>1 DEF Inv, PortalInv, Turns, Reject, client, server, history,
     NobodyIsIn, TokensInFlight
<1>8. QED
  BY <1>2, <1>3, <1>4, <1>5, <1>6, <1>7 DEF Inv, PortalInv

LEMMA FailStep ==
    ASSUME Inv, NEW c \in Calls, Fail(c)
    PROVE  Inv'
<1>1. Turns(c, "settled", NoPair, NoPair)
  BY Drops DEF Fail, Settle, Pcs, Inv
<1>2. TypeOK'
  BY <1>1 DEF Inv, PortalInv, Turns, Fail, client, server, history, TypeOK
<1>3. OneRefresh'
  BY <1>1 DEF Inv, PortalInv, Turns, Fail, client, server, history,
     OneRefresh, Refreshers
<1>4. SubscribersWait'
  BY <1>1 DEF Inv, PortalInv, Turns, Fail, client, server, history, TypeOK,
     SubscribersWait
<1>5. PairsAreOwn'
  BY <1>1 DEF Inv, PortalInv, Turns, Fail, client, server, history, TypeOK,
     PairsAreOwn, Call, NoPair, Pairs
<1>6. SessionIsLive'
  BY <1>1 DEF Inv, PortalInv, Turns, Fail, client, server, history, TypeOK,
     SessionIsLive, OneRefresh, Refreshers, PairsAreOwn
<1>7. NobodyIsIn'
  BY <1>1 DEF Inv, PortalInv, Turns, Fail, client, server, history,
     NobodyIsIn, TokensInFlight
<1>8. QED
  BY <1>2, <1>3, <1>4, <1>5, <1>6, <1>7 DEF Inv, PortalInv

(* What a switch stores was nobody's.                                       *)
LEMMA OnSwitchedStep ==
    ASSUME Inv, NEW c \in Calls, OnSwitched(c)
    PROVE  Inv'
<1>1. call[c].got \in Pairs \union {NoPair}
  BY DEF Inv, TypeOK, Call
<1>2. Turns(c, "settled", NoPair, NoPair)
  BY Drops DEF OnSwitched, Settle, Pcs, Inv
<1>3. TypeOK'
  BY <1>1, <1>2 DEF Inv, PortalInv, Turns, client, server, history,
     OnSwitched, TypeOK
<1>4. OneRefresh'
  BY <1>1, <1>2 DEF Inv, PortalInv, Turns, client, server, history,
     OnSwitched, OneRefresh, Refreshers
<1>5. SubscribersWait'
  BY <1>1, <1>2 DEF Inv, PortalInv, Turns, client, server, history,
     OnSwitched, TypeOK, SubscribersWait
<1>6. PairsAreOwn'
  BY <1>1, <1>2 DEF Inv, PortalInv, Turns, client, server, history,
     OnSwitched, TypeOK, PairsAreOwn, Call, NoPair, Pairs
<1>7. SessionIsLive'
  BY <1>1, <1>2 DEF Inv, PortalInv, Turns, client, server, history,
     OnSwitched, TypeOK, SessionIsLive, OneRefresh, Refreshers, PairsAreOwn
<1>8. NobodyIsIn'
  BY <1>1, <1>2 DEF Inv, PortalInv, Turns, client, server, history,
     OnSwitched, NobodyIsIn, TokensInFlight
<1>9. QED
  BY <1>3, <1>4, <1>5, <1>6, <1>7, <1>8 DEF Inv, PortalInv

LEMMA OnExpiredStep ==
    ASSUME Inv, NEW c \in Calls, OnExpired(c)
    PROVE  Inv'
<1>1. Turns(c, "settled", NoPair, NoPair)
  BY Drops DEF OnExpired, Settle, Pcs, Inv
<1>2. TypeOK'
  BY <1>1 DEF Inv, PortalInv, Turns, OnExpired, client, server, history, TypeOK
<1>3. OneRefresh'
  BY <1>1 DEF Inv, PortalInv, Turns, OnExpired, client, server, history,
     OneRefresh, Refreshers
<1>4. SubscribersWait'
  BY <1>1 DEF Inv, PortalInv, Turns, OnExpired, client, server, history,
     TypeOK, SubscribersWait
<1>5. PairsAreOwn'
  BY <1>1 DEF Inv, PortalInv, Turns, OnExpired, client, server, history,
     TypeOK, PairsAreOwn, Call, NoPair, Pairs
<1>6. SessionIsLive'
  BY <1>1 DEF Inv, PortalInv, Turns, OnExpired, client, server, history,
     TypeOK, SessionIsLive, OneRefresh, Refreshers, PairsAreOwn
<1>7. NobodyIsIn'
  BY <1>1 DEF Inv, PortalInv, Turns, OnExpired, client, server, history,
     NobodyIsIn, TokensInFlight
<1>8. QED
  BY <1>2, <1>3, <1>4, <1>5, <1>6, <1>7 DEF Inv, PortalInv

LEMMA JoinRefreshStep ==
    ASSUME Inv, NEW c \in Calls, JoinRefresh(c)
    PROVE  Inv'
<1>1. Turns(c, "waiting", NoPair, NoPair)
  BY Drops DEF JoinRefresh, Settle, Pcs, Inv
<1>2. TypeOK'
  BY <1>1 DEF Inv, PortalInv, Turns, JoinRefresh, client, server, history,
     TypeOK
<1>3. OneRefresh'
  BY <1>1 DEF Inv, PortalInv, Turns, JoinRefresh, client, server, history,
     OneRefresh, Refreshers
<1>4. SubscribersWait'
  BY <1>1 DEF Inv, PortalInv, Turns, JoinRefresh, client, server, history,
     TypeOK, SubscribersWait
<1>5. PairsAreOwn'
  BY <1>1 DEF Inv, PortalInv, Turns, JoinRefresh, client, server, history,
     TypeOK, PairsAreOwn, Call, NoPair, Pairs
<1>6. SessionIsLive'
  BY <1>1 DEF Inv, PortalInv, Turns, JoinRefresh, client, server, history,
     TypeOK, SessionIsLive, OneRefresh, Refreshers, PairsAreOwn
<1>7. NobodyIsIn'
  BY <1>1 DEF Inv, PortalInv, Turns, JoinRefresh, client, server, history,
     NobodyIsIn, TokensInFlight
<1>8. QED
  BY <1>2, <1>3, <1>4, <1>5, <1>6, <1>7 DEF Inv, PortalInv

LEMMA RefreshLostStep ==
    ASSUME Inv, NEW c \in Calls, RefreshLost(c)
    PROVE  Inv'
<1>1. Turns(c, "refused", NoPair, NoPair)
  BY Drops DEF RefreshLost, Settle, Pcs, Inv
<1>2. TypeOK'
  BY <1>1 DEF Inv, PortalInv, Turns, RefreshLost, client, server, history,
     TypeOK
<1>3. OneRefresh'
  BY <1>1 DEF Inv, PortalInv, Turns, RefreshLost, client, server, history,
     OneRefresh, Refreshers
<1>4. SubscribersWait'
  BY <1>1 DEF Inv, PortalInv, Turns, RefreshLost, client, server, history,
     TypeOK, SubscribersWait
<1>5. PairsAreOwn'
  BY <1>1 DEF Inv, PortalInv, Turns, RefreshLost, client, server, history,
     TypeOK, PairsAreOwn, Call, NoPair, Pairs
<1>6. SessionIsLive'
  BY <1>1 DEF Inv, PortalInv, Turns, RefreshLost, client, server, history,
     TypeOK, SessionIsLive, OneRefresh, Refreshers, PairsAreOwn
<1>7. NobodyIsIn'
  BY <1>1 DEF Inv, PortalInv, Turns, RefreshLost, client, server, history,
     NobodyIsIn, TokensInFlight
<1>8. QED
  BY <1>2, <1>3, <1>4, <1>5, <1>6, <1>7 DEF Inv, PortalInv

(* Only a session that was disturbed is refused.                            *)
LEMMA OnRefusedStep ==
    ASSUME Inv, NEW c \in Calls, OnRefused(c)
    PROVE  Inv'
<1>1. Turns(c, "settled", NoPair, NoPair)
  BY Drops DEF OnRefused, Settle, Pcs, Inv
<1>2. TypeOK'
  BY <1>1 DEF Inv, PortalInv, Turns, OnRefused, client, server, history, TypeOK
<1>3. OneRefresh'
  BY <1>1 DEF Inv, PortalInv, Turns, OnRefused, client, server, history,
     OneRefresh, Refreshers
<1>4. SubscribersWait'
  BY <1>1 DEF Inv, PortalInv, Turns, OnRefused, client, server, history,
     TypeOK, SubscribersWait
<1>5. PairsAreOwn'
  BY <1>1 DEF Inv, PortalInv, Turns, OnRefused, client, server, history,
     TypeOK, PairsAreOwn, Call, NoPair, Pairs
<1>6. SessionIsLive'
  BY <1>1 DEF Inv, PortalInv, Turns, OnRefused, client, server, history,
     TypeOK, SessionIsLive, OneRefresh, Refreshers, PairsAreOwn
<1>7. NobodyIsIn'
  BY <1>1 DEF Inv, PortalInv, Turns, OnRefused, client, server, history,
     NobodyIsIn, TokensInFlight
<1>8. QED
  BY <1>2, <1>3, <1>4, <1>5, <1>6, <1>7 DEF Inv, PortalInv

LEMMA SwitchedStep ==
    ASSUME Inv, NEW c \in Calls, Switched(c)
    PROVE  Inv'
<1>1. Issued({})
  BY IssueType DEF Switched, Inv
<1>2. Turns(c, "switched", NoPair, issued + 1)
  BY <1>1, IsAnswered DEF Switched, Issued, Pcs, Inv
<1>3. TypeOK'
  BY <1>1, <1>2 DEF Inv, PortalInv, Turns, client, server, history, Switched,
     Issued, TypeOK
<1>4. OneRefresh'
  BY <1>1, <1>2 DEF Inv, PortalInv, Turns, client, server, history, Switched,
     Issued, OneRefresh, Refreshers
<1>5. SubscribersWait'
  BY <1>1, <1>2 DEF Inv, PortalInv, Turns, client, server, history, Switched,
     Issued, TypeOK, SubscribersWait
<1>6. PairsAreOwn'
  BY <1>1, <1>2 DEF Inv, PortalInv, Turns, client, server, history, Switched,
     Issued, TypeOK, PairsAreOwn, Call, NoPair, Pairs
<1>7. SessionIsLive'
  BY <1>1, <1>2 DEF Inv, PortalInv, Turns, client, server, history, Switched,
     Issued, TypeOK, SessionIsLive, OneRefresh, Refreshers, PairsAreOwn
<1>8. NobodyIsIn'
  BY <1>1, <1>2 DEF Inv, PortalInv, Turns, client, server, history, Switched,
     Issued, NobodyIsIn, TokensInFlight
<1>9. QED
  BY <1>3, <1>4, <1>5, <1>6, <1>7, <1>8 DEF Inv, PortalInv

LEMMA SettledStep ==
    ASSUME Inv, NEW c \in Calls, Settled(c)
    PROVE  Inv'
<1>1. Turns(c, "settled", NoPair, NoPair)
  BY Drops DEF Settled, Settle, Pcs, Inv
<1>2. TypeOK'
  BY <1>1 DEF Inv, PortalInv, Turns, client, server, history, Settled, TypeOK
<1>3. OneRefresh'
  BY <1>1 DEF Inv, PortalInv, Turns, client, server, history, Settled,
     OneRefresh, Refreshers
<1>4. SubscribersWait'
  BY <1>1 DEF Inv, PortalInv, Turns, client, server, history, Settled, TypeOK,
     SubscribersWait
<1>5. PairsAreOwn'
  BY <1>1 DEF Inv, PortalInv, Turns, client, server, history, Settled, TypeOK,
     PairsAreOwn, Call, NoPair, Pairs
<1>6. SessionIsLive'
  BY <1>1 DEF Inv, PortalInv, Turns, client, server, history, Settled, TypeOK,
     SessionIsLive, OneRefresh, Refreshers, PairsAreOwn
<1>7. NobodyIsIn'
  BY <1>1 DEF Inv, PortalInv, Turns, client, server, history, Settled,
     NobodyIsIn, TokensInFlight
<1>8. QED
  BY <1>2, <1>3, <1>4, <1>5, <1>6, <1>7 DEF Inv, PortalInv

(* Nobody refreshes, so what is stored is live while undisturbed.           *)
LEMMA StartRefreshStep ==
    ASSUME Inv, NEW c \in Calls, StartRefresh(c)
    PROVE  Inv'
<1>1. Turns(c, "refreshing", stored, NoPair)
  <2> DEFINE q == [call[c] EXCEPT !.pc = "refreshing", !.token = stored]
  <2>1. call[c] \in Call /\ stored \in Pairs \union {NoPair}
    BY DEF Inv, TypeOK
  <2>2. call[c].got = NoPair
    BY DEF Inv, PortalInv, PairsAreOwn, StartRefresh
  <2>3. /\ q \in Call
        /\ q.pc = "refreshing" /\ q.token = stored /\ q.got = NoPair
    BY <2>1, <2>2 DEF Call, Pcs
  <2>4. Become(c, q)
    BY DEF StartRefresh
  <2> HIDE DEF q
  <2>5. QED
    BY <2>3, <2>4, TurnsTo DEF Inv
<1>2. TypeOK'
  BY <1>1 DEF Inv, PortalInv, Turns, client, server, history, StartRefresh,
     TypeOK
<1>3. OneRefresh'
  BY <1>1 DEF Inv, PortalInv, Turns, client, server, history, StartRefresh,
     OneRefresh, Refreshers
<1>4. SubscribersWait'
  BY <1>1 DEF Inv, PortalInv, Turns, client, server, history, StartRefresh,
     TypeOK, SubscribersWait
<1>5. PairsAreOwn'
  BY <1>1 DEF Inv, PortalInv, Turns, client, server, history, StartRefresh,
     TypeOK, PairsAreOwn, Call, NoPair, Pairs
<1>6. SessionIsLive'
  BY <1>1 DEF Inv, PortalInv, Turns, client, server, history, StartRefresh,
     TypeOK, SessionIsLive, OneRefresh, Refreshers, PairsAreOwn
<1>7. NobodyIsIn'
  BY <1>1 DEF Inv, PortalInv, Turns, client, server, history, StartRefresh,
     NobodyIsIn, TokensInFlight
<1>8. QED
  BY <1>2, <1>3, <1>4, <1>5, <1>6, <1>7 DEF Inv, PortalInv

(* The token that is spent is presented by this call alone.                 *)
LEMMA RefreshedStep ==
    ASSUME Inv, NEW c \in Calls, Refreshed(c)
    PROVE  Inv'
<1>1. Issued({call[c].token})
  BY IssueType DEF Refreshed, Inv
<1>2. Turns(c, "refreshed", NoPair, issued + 1)
  BY <1>1, IsAnswered DEF Refreshed, Issued, Pcs, Inv
<1>3. TypeOK'
  BY <1>1, <1>2 DEF Inv, PortalInv, Turns, client, server, history, Refreshed,
     Issued, TypeOK
<1>4. OneRefresh'
  BY <1>1, <1>2 DEF Inv, PortalInv, Turns, client, server, history, Refreshed,
     Issued, OneRefresh, Refreshers
<1>5. SubscribersWait'
  BY <1>1, <1>2 DEF Inv, PortalInv, Turns, client, server, history, Refreshed,
     Issued, TypeOK, SubscribersWait
<1>6. PairsAreOwn'
  BY <1>1, <1>2 DEF Inv, PortalInv, Turns, client, server, history, Refreshed,
     Issued, TypeOK, PairsAreOwn, Call, NoPair, Pairs
<1>7. SessionIsLive'
  BY <1>1, <1>2 DEF Inv, PortalInv, Turns, client, server, history, Refreshed,
     Issued, TypeOK, SessionIsLive, OneRefresh, Refreshers, PairsAreOwn
<1>8. NobodyIsIn'
  BY <1>1, <1>2 DEF Inv, PortalInv, Turns, client, server, history, Refreshed,
     Issued, NobodyIsIn, TokensInFlight
<1>9. QED
  BY <1>3, <1>4, <1>5, <1>6, <1>7, <1>8 DEF Inv, PortalInv

LEMMA TurnedAwayStep ==
    ASSUME Inv, NEW c \in Calls, TurnedAway(c)
    PROVE  Inv'
<1>1. Turns(c, "refused", NoPair, NoPair)
  BY Drops DEF TurnedAway, Pcs, Inv
<1>2. TypeOK'
  BY <1>1 DEF Inv, PortalInv, Turns, client, server, history, TurnedAway, TypeOK
<1>3. OneRefresh'
  BY <1>1 DEF Inv, PortalInv, Turns, client, server, history, TurnedAway,
     OneRefresh, Refreshers
<1>4. SubscribersWait'
  BY <1>1 DEF Inv, PortalInv, Turns, client, server, history, TurnedAway,
     TypeOK, SubscribersWait
<1>5. PairsAreOwn'
  BY <1>1 DEF Inv, PortalInv, Turns, client, server, history, TurnedAway,
     TypeOK, PairsAreOwn, Call, NoPair, Pairs
<1>6. SessionIsLive'
  BY <1>1 DEF Inv, PortalInv, Turns, client, server, history, TurnedAway,
     TypeOK, SessionIsLive, OneRefresh, Refreshers, PairsAreOwn
<1>7. NobodyIsIn'
  BY <1>1 DEF Inv, PortalInv, Turns, client, server, history, TurnedAway,
     NobodyIsIn, TokensInFlight
<1>8. QED
  BY <1>2, <1>3, <1>4, <1>5, <1>6, <1>7 DEF Inv, PortalInv

(* The new pair is stored; the subscribers go on with it.                   *)
LEMMA OnRefreshedStep ==
    ASSUME Inv, NEW c \in Calls, OnRefreshed(c)
    PROVE  Inv'
<1>1. /\ call[c].got \in Pairs /\ call[c].got # NoPair
      /\ c \notin refreshSubscribers
      /\ \A d \in Calls : call[d].got \in Pairs \union {NoPair}
  BY DEF Inv, TypeOK, Call, PortalInv, PairsAreOwn, SubscribersWait, OnRefreshed
<1>2. /\ call' \in [Calls -> Call]
      /\ call'[c].pc = "waiting"
      /\ call'[c].token = NoPair /\ call'[c].got = NoPair
      /\ \A d \in refreshSubscribers :
            /\ call'[d].pc = "retrying"
            /\ call'[d].token = call[c].got /\ call'[d].got = NoPair
      /\ \A d \in Calls : d # c /\ d \notin refreshSubscribers
                              => call'[d] = call[d]
  <2> DEFINE p == call[c].got
             F(d) == IF d = c THEN Sent("waiting", NoPair)
                     ELSE IF d \in refreshSubscribers
                     THEN Sent("retrying", p) ELSE call[d]
  <2>1. call' = [d \in Calls |-> F(d)]
    BY DEF OnRefreshed
  <2>2. p \in Pairs /\ c \notin refreshSubscribers
    BY <1>1
  <2>3. call \in [Calls -> Call] /\ refreshSubscribers \subseteq Calls
    BY DEF Inv, TypeOK
  <2> HIDE DEF p
  <2>4. \A d \in Calls : F(d) \in Call
    BY <2>2, <2>3 DEF Sent, Call, Pcs
  <2>5. /\ F(c).pc = "waiting" /\ F(c).token = NoPair /\ F(c).got = NoPair
        /\ \A d \in refreshSubscribers :
              F(d).pc = "retrying" /\ F(d).token = p /\ F(d).got = NoPair
        /\ \A d \in Calls : d # c /\ d \notin refreshSubscribers
                                => F(d) = call[d]
    BY <2>2 DEF Sent
  <2> HIDE DEF F
  <2>6. QED
    BY <2>1, <2>3, <2>4, <2>5 DEF p
<1>3. TypeOK'
  BY <1>1, <1>2 DEF Inv, PortalInv, Turns, client, server, history,
     OnRefreshed, TypeOK
<1>4. OneRefresh'
  BY <1>1, <1>2 DEF Inv, PortalInv, Turns, client, server, history,
     OnRefreshed, OneRefresh, Refreshers
<1>5. SubscribersWait'
  BY <1>1, <1>2 DEF Inv, PortalInv, Turns, client, server, history,
     OnRefreshed, TypeOK, SubscribersWait
<1>6. PairsAreOwn'
  <2>1. \A d \in Calls :
           \/ /\ call'[d].got = NoPair
              /\ call'[d].token \in {NoPair, call[c].got}
              /\ call'[d].pc \in {"waiting", "retrying"}
           \/ d # c /\ call'[d] = call[d]
    BY <1>2
  <2>2. /\ PairsAreOwn /\ issued' = issued /\ stored' = call[c].got
        /\ issued \in Nat
    BY DEF Inv, PortalInv, TypeOK, OnRefreshed, server
  <2>3. \A d \in Calls \ {c} : call[d].got # NoPair
                                  => call[d].got # call[c].got
    BY <2>2 DEF PairsAreOwn
  <2>4. stored' <= issued' /\ NoPair <= issued'
    BY <2>2 DEF PairsAreOwn, NoPair
  <2>5. \A d \in Calls :
           /\ call'[d].token <= issued' /\ call'[d].got <= issued'
           /\ call'[d].got # NoPair
                 <=> call'[d].pc \in {"refreshed", "switched"}
           /\ call'[d].got # NoPair => call'[d].got # stored'
    BY <2>1, <2>2, <2>3, <2>4 DEF PairsAreOwn
  <2>6. \A d, f \in Calls :
           /\ call'[d].got # NoPair /\ call'[d].got = call'[f].got => d = f
           /\ call'[d].got # NoPair /\ call'[f].pc = "refreshing"
                 => call'[d].got # call'[f].token
    BY <2>1, <2>2 DEF PairsAreOwn
  <2>7. QED
    BY <2>4, <2>5, <2>6 DEF PairsAreOwn
<1>7. SessionIsLive'
  BY <1>1, <1>2 DEF Inv, PortalInv, Turns, client, server, history,
     OnRefreshed, TypeOK, SessionIsLive, OneRefresh, Refreshers, PairsAreOwn
<1>8. NobodyIsIn'
  BY <1>1, <1>2 DEF Inv, PortalInv, Turns, client, server, history,
     OnRefreshed, NobodyIsIn, TokensInFlight
<1>9. QED
  BY <1>3, <1>4, <1>5, <1>6, <1>7, <1>8 DEF Inv, PortalInv

LEMMA ExpireStep ==
    ASSUME Inv, NEW p \in Pairs, Expire(p)
    PROVE  Inv'
<1>1. TypeOK'
  BY DEF Inv, PortalInv, Expire, client, server, history, TypeOK
<1>2. OneRefresh'
  BY DEF Inv, PortalInv, Expire, client, server, history, OneRefresh, Refreshers
<1>3. SubscribersWait'
  BY DEF Inv, PortalInv, Expire, client, server, history, TypeOK,
     SubscribersWait
<1>4. PairsAreOwn'
  BY DEF Inv, PortalInv, Expire, client, server, history, TypeOK, PairsAreOwn,
     Call, NoPair, Pairs
<1>5. SessionIsLive'
  BY DEF Inv, PortalInv, Expire, client, server, history, TypeOK,
     SessionIsLive, OneRefresh, Refreshers, PairsAreOwn
<1>6. NobodyIsIn'
  BY DEF Inv, PortalInv, Expire, client, server, history, NobodyIsIn,
     TokensInFlight
<1>7. QED
  BY <1>1, <1>2, <1>3, <1>4, <1>5, <1>6 DEF Inv, PortalInv

LEMMA RevokeStep ==
    ASSUME Inv, NEW p \in Pairs, Revoke(p)
    PROVE  Inv'
<1>1. TypeOK'
  BY DEF Inv, PortalInv, Revoke, client, server, history, TypeOK
<1>2. OneRefresh'
  BY DEF Inv, PortalInv, Revoke, client, server, history, OneRefresh, Refreshers
<1>3. SubscribersWait'
  BY DEF Inv, PortalInv, Revoke, client, server, history, TypeOK,
     SubscribersWait
<1>4. PairsAreOwn'
  BY DEF Inv, PortalInv, Revoke, client, server, history, TypeOK, PairsAreOwn,
     Call, NoPair, Pairs
<1>5. SessionIsLive'
  BY DEF Inv, PortalInv, Revoke, client, server, history, TypeOK,
     SessionIsLive, OneRefresh, Refreshers, PairsAreOwn
<1>6. NobodyIsIn'
  BY DEF Inv, PortalInv, Revoke, client, server, history, NobodyIsIn,
     TokensInFlight
<1>7. QED
  BY <1>1, <1>2, <1>3, <1>4, <1>5, <1>6 DEF Inv, PortalInv

-----------------------------------------------------------------------------
(* The invariant. *)

LEMMA InitInv == Init => Inv
<1> SUFFICES ASSUME Init PROVE Inv
  OBVIOUS
<1>1. /\ Sent("idle", NoPair) \in Call /\ Sent("idle", NoPair).pc = "idle"
      /\ Sent("idle", NoPair).token = NoPair
      /\ Sent("idle", NoPair).got = NoPair
  BY DEF Sent, Call, Pcs
<1>2. /\ call \in [Calls -> Call]
      /\ \A c \in Calls : call[c] = Sent("idle", NoPair)
  BY <1>1 DEF Init
<1>3. TypeOK
  <2>1. /\ logout = [pc |-> "no", token |-> NoPair] /\ issued = 0
        /\ stored = NoPair /\ isRefreshing = FALSE /\ refreshSubscribers = {}
        /\ live = {} /\ fresh = {} /\ person = "none" /\ stranded = {}
        /\ excused = FALSE /\ raced = FALSE
    BY DEF Init
  <2>2. issued \in 0..MaxPairs
    BY <2>1
  <2>3. QED
    BY <1>2, <2>1, <2>2 DEF TypeOK
<1>4. OneRefresh /\ SubscribersWait
  BY <1>1, <1>2 DEF Init, OneRefresh, Refreshers, SubscribersWait
<1>5. PairsAreOwn
  BY <1>1, <1>2 DEF Init, PairsAreOwn, NoPair
<1>6. SessionIsLive /\ NobodyIsIn
  BY DEF Init, SessionIsLive, NobodyIsIn
<1>7. QED
  BY <1>3, <1>4, <1>5, <1>6 DEF Inv, PortalInv

LEMMA HandleStep ==
    ASSUME Inv, NEW c \in Calls, Handle(c)
    PROVE  Inv'
<1>1. CASE Accept(c)
  <2>1. Switched(c) \/ Settled(c)
    BY <1>1 DEF Accept, Switched, Settled, server
  <2>2. QED
    BY <2>1, SwitchedStep, SettledStep
<1>2. CASE Answer(c)
  <2>1. Switched(c) \/ Settled(c)
    BY <1>2 DEF Answer, Switched, Settled, server
  <2>2. QED
    BY <2>1, SwitchedStep, SettledStep
<1>3. CASE ServerRefresh(c)
  <2>1. Refreshed(c) \/ TurnedAway(c)
    BY <1>3 DEF ServerRefresh, Refreshed, TurnedAway, server
  <2>2. QED
    BY <2>1, RefreshedStep, TurnedAwayStep
<1>4. QED
  BY <1>1, <1>2, <1>3, RejectStep, FailStep, OnSwitchedStep, OnExpiredStep,
     StartRefreshStep, JoinRefreshStep, RefreshLostStep, OnRefreshedStep,
     OnRefusedStep DEF Handle

LEMMA StutterStep == ASSUME Inv, UNCHANGED vars PROVE Inv'
<1>1. /\ stored' = stored /\ isRefreshing' = isRefreshing
      /\ refreshSubscribers' = refreshSubscribers
      /\ call' = call /\ logout' = logout /\ issued' = issued /\ live' = live
      /\ fresh' = fresh /\ person' = person /\ stranded' = stranded
      /\ excused' = excused /\ raced' = raced
  BY DEF vars, client, server, history
<1>2. TypeOK'
  BY <1>1 DEF Inv, TypeOK
<1>3. OneRefresh' /\ SubscribersWait' /\ PairsAreOwn'
  BY <1>1 DEF Inv, PortalInv, OneRefresh, Refreshers, SubscribersWait,
     PairsAreOwn
<1>4. SessionIsLive' /\ NobodyIsIn'
  BY <1>1 DEF Inv, PortalInv, SessionIsLive, NobodyIsIn, TokensInFlight
<1>5. QED
  BY <1>2, <1>3, <1>4 DEF Inv, PortalInv

LEMMA StepInv == Inv /\ [Next]_vars => Inv'
<1> SUFFICES ASSUME Inv, [Next]_vars PROVE Inv'
  OBVIOUS
<1>1. CASE Login \/ BeginLogout \/ ServerLogout \/ OnLogout
  BY <1>1, LoginStep, BeginLogoutStep, ServerLogoutStep, OnLogoutStep
<1>2. CASE \E c \in Calls : Send(c) \/ Handle(c)
  BY <1>2, SendStep, HandleStep
<1>3. CASE \E p \in Pairs : Expire(p) \/ Revoke(p)
  BY <1>3, ExpireStep, RevokeStep
<1>4. CASE UNCHANGED vars
  BY <1>4, StutterStep
<1>5. QED
  BY <1>1, <1>2, <1>3, <1>4 DEF Next

LEMMA InvAlways == Spec => []Inv
BY InitInv, StepInv, PTL DEF Spec

-----------------------------------------------------------------------------

(* Every variable keeps its type: the client never stores, and never sends, *)
(* a pair that the server has not issued.                                   *)
THEOREM TypeCorrect == Spec => []TypeOK
<1>1. Inv => TypeOK
  BY DEF Inv
<1>2. QED
  BY <1>1, InvAlways, PTL

(* However answers are ordered, isRefreshing is set exactly while there is  *)
(* a refresh under way, and there is one at most.                           *)
THEOREM RefreshIsShared == Spec => []FlagIsTrue
<1>1. Inv => FlagIsTrue
  <2> SUFFICES ASSUME Inv PROVE FlagIsTrue
    OBVIOUS
  <2>1. OneRefresh /\ isRefreshing \in BOOLEAN
    BY DEF Inv, PortalInv, TypeOK
  <2>2. FlagIsTrue <=> Cardinality(Refreshers) = IF isRefreshing THEN 1 ELSE 0
    BY DEF FlagIsTrue, Refreshers
  <2>3. CASE isRefreshing
    <3>1. PICK c : Refreshers = {c}
      BY <2>1, <2>3 DEF OneRefresh
    <3>2. Cardinality(Refreshers) = 1
      BY <3>1, FS_Singleton
    <3>3. QED
      BY <2>2, <2>3, <3>2
  <2>4. CASE ~isRefreshing
    <3>1. Refreshers = {}
      BY <2>1, <2>4 DEF OneRefresh
    <3>2. Cardinality(Refreshers) = 0
      BY <3>1, FS_EmptySet
    <3>3. QED
      BY <2>2, <2>4, <3>2
  <2>5. QED
    BY <2>1, <2>3, <2>4
<1>2. QED
  BY <1>1, InvAlways, PTL

(* The client never spends the session it holds: it ends only by logout(),  *)
(* or if an answer was lost, the server revoked it, or it began while a     *)
(* refresh or a switch of an earlier one was in flight.                     *)
THEOREM SessionHolds == Spec => []LiveSessionIsKept
<1>1. Inv => LiveSessionIsKept
  BY DEF Inv, PortalInv, SessionIsLive, LiveSessionIsKept
<1>2. QED
  BY <1>1, InvAlways, PTL

(* After a logout() that no refresh or switch raced, nothing stores tokens  *)
(* before the next sign-in.                                                 *)
THEOREM LogoutHolds == Spec => []LogoutSticks
<1>1. Inv => LogoutSticks
  BY DEF Inv, PortalInv, NobodyIsIn, LogoutSticks
<1>2. QED
  BY <1>1, InvAlways, PTL

-----------------------------------------------------------------------------
(* Calls get on. *)

(* The calls but c stay where they are, or are subscribers that c resumes.  *)
Moves(c) ==
    /\ \A d \in Calls \ {c} :
          \/ call'[d].pc = call[d].pc
          \/ call[d].pc = "waiting" /\ call'[d].pc = "retrying"
    /\ <<call[c].pc, call'[c].pc>> \in
          {<<"sent", "settled">>, <<"sent", "switched">>,
           <<"sent", "unauthorized">>, <<"unauthorized", "settled">>,
           <<"unauthorized", "refreshing">>, <<"unauthorized", "waiting">>,
           <<"refreshing", "refreshed">>, <<"refreshing", "refused">>,
           <<"refreshed", "refused">>, <<"refreshed", "waiting">>,
           <<"refused", "settled">>, <<"retrying", "switched">>,
           <<"retrying", "settled">>, <<"switched", "settled">>}

LEMMA HandleMoves ==
    ASSUME Inv, NEW c \in Calls, Handle(c)
    PROVE  Moves(c)
<1>1. CASE Accept(c) \/ Answer(c)
  <2>1. CASE Settled(c)
    <3>1. Turns(c, "settled", NoPair, NoPair)
      BY <2>1, Drops DEF Settled, Settle, Pcs, Inv
    <3>2. QED
      BY <2>1, <3>1 DEF Settled, Turns, Moves
  <2>2. CASE Switched(c)
    <3>1. Turns(c, "switched", NoPair, issued + 1)
      BY <2>2, IssueType, IsAnswered DEF Switched, Issued, Pcs, Inv
    <3>2. QED
      BY <2>2, <3>1 DEF Switched, Turns, Moves
  <2>3. Switched(c) \/ Settled(c)
    BY <1>1 DEF Accept, Answer, Switched, Settled, server
  <2>4. QED
    BY <2>1, <2>2, <2>3
<1>2. CASE Reject(c)
  BY <1>2, Drops DEF Reject, Pcs, Inv, Turns, Moves
<1>3. CASE Fail(c) \/ OnSwitched(c) \/ OnExpired(c) \/ OnRefused(c)
  <2>1. Turns(c, "settled", NoPair, NoPair)
    BY <1>3, Drops DEF Fail, OnSwitched, OnExpired, OnRefused, Settle, Pcs, Inv
  <2>2. QED
    BY <1>3, <2>1 DEF Fail, OnSwitched, OnExpired, OnRefused, Turns, Moves
<1>4. CASE StartRefresh(c)
  <2>1. call'[c].pc = "refreshing" /\ \A d \in Calls \ {c} : call'[d] = call[d]
    BY <1>4 DEF StartRefresh, Become, Inv, TypeOK, Call
  <2>2. QED
    BY <1>4, <2>1 DEF StartRefresh, Moves
<1>5. CASE JoinRefresh(c)
  BY <1>5, Drops DEF JoinRefresh, Pcs, Inv, Turns, Moves
<1>6. CASE ServerRefresh(c)
  <2>1. CASE Refreshed(c)
    <3>1. Turns(c, "refreshed", NoPair, issued + 1)
      BY <2>1, IssueType, IsAnswered DEF Refreshed, Issued, Pcs, Inv
    <3>2. QED
      BY <2>1, <3>1 DEF Refreshed, Turns, Moves
  <2>2. CASE TurnedAway(c)
    BY <2>2, Drops DEF TurnedAway, Pcs, Inv, Turns, Moves
  <2>3. QED
    BY <1>6, <2>1, <2>2 DEF ServerRefresh, Refreshed, TurnedAway, server
<1>7. CASE RefreshLost(c)
  BY <1>7, Drops DEF RefreshLost, Pcs, Inv, Turns, Moves
<1>8. CASE OnRefreshed(c)
  <2>1. \A d \in Calls :
           call'[d].pc = IF d = c THEN "waiting"
                         ELSE IF d \in refreshSubscribers THEN "retrying"
                         ELSE call[d].pc
    BY <1>8 DEF OnRefreshed, Sent
  <2>2. \A d \in refreshSubscribers : call[d].pc = "waiting"
    BY DEF Inv, PortalInv, SubscribersWait
  <2>3. QED
    BY <1>8, <2>1, <2>2 DEF OnRefreshed, Moves
<1>9. QED
  BY <1>1, <1>2, <1>3, <1>4, <1>5, <1>6, <1>7, <1>8 DEF Handle

(* Whatever else happens, only a call that was not sent yet moves.          *)
LEMMA OthersMove ==
    ASSUME Inv, \/ Login \/ BeginLogout \/ ServerLogout \/ OnLogout
                \/ \E c \in Calls : Send(c)
                \/ \E p \in Pairs : Expire(p) \/ Revoke(p)
    PROVE  /\ \A d \in Calls :
                 \/ call'[d].pc = call[d].pc
                 \/ call[d].pc = "idle" /\ call'[d].pc = "sent"
           /\ stranded' = stranded
           /\ UNCHANGED <<isRefreshing, refreshSubscribers>>
<1>1. ASSUME NEW c \in Calls, Send(c)
      PROVE  /\ \A d \in Calls \ {c} : call'[d] = call[d]
             /\ call[c].pc = "idle" /\ call'[c].pc = "sent"
             /\ stranded' = stranded
             /\ UNCHANGED <<isRefreshing, refreshSubscribers>>
  <2>1. Turns(c, "sent", stored, NoPair)
    BY <1>1, SendsWith DEF Send, Pcs, Inv, TypeOK
  <2>2. QED
    BY <1>1, <2>1 DEF Send, Turns, client, history
<1>2. CASE \E c \in Calls : Send(c)
  BY <1>1, <1>2
<1>3. CASE Login \/ BeginLogout \/ ServerLogout \/ OnLogout
  BY <1>3 DEF Login, BeginLogout, ServerLogout, OnLogout, client, history
<1>4. CASE \E p \in Pairs : Expire(p) \/ Revoke(p)
  BY <1>4 DEF Expire, Revoke, client, history
<1>5. QED
  BY <1>2, <1>3, <1>4

(* The end of a refresh resumes its subscribers or leaves them for good.    *)
LEMMA HandleServes ==
    ASSUME Inv, WaitersAreServed, NEW c \in Calls, Handle(c)
    PROVE  WaitersAreServed'
<1>1. Moves(c)
  BY HandleMoves
<1>2. \A d \in Calls \ {c} : call'[d].pc = "waiting" => call[d].pc = "waiting"
  BY <1>1 DEF Moves
<1>3. CASE OnRefreshed(c)
  <2>1. /\ \A d \in refreshSubscribers : d # c => call'[d].pc = "retrying"
        /\ stranded' = stranded \union {c}
    BY <1>3 DEF OnRefreshed, Sent, Inv, TypeOK
  <2>2. QED
    BY <1>2, <2>1 DEF WaitersAreServed
<1>4. CASE OnRefused(c)
  <2>1. /\ stranded' = stranded \union refreshSubscribers
        /\ call'[c].pc # "waiting"
    BY <1>1, <1>4 DEF OnRefused, Moves
  <2>2. QED
    BY <1>2, <2>1 DEF WaitersAreServed
<1>5. CASE JoinRefresh(c)
  <2>1. /\ refreshSubscribers' = refreshSubscribers \union {c}
        /\ isRefreshing /\ isRefreshing' = isRefreshing
        /\ stranded' = stranded
    BY <1>5 DEF JoinRefresh, history
  <2>2. QED
    BY <1>2, <2>1 DEF WaitersAreServed
<1>6. CASE \/ Accept(c) \/ Reject(c) \/ Fail(c) \/ OnSwitched(c)
           \/ OnExpired(c) \/ StartRefresh(c) \/ ServerRefresh(c)
           \/ RefreshLost(c) \/ Answer(c)
  <2>1. /\ refreshSubscribers' = refreshSubscribers /\ stranded' = stranded
        /\ isRefreshing => isRefreshing'
    BY <1>6 DEF Accept, Reject, Fail, OnSwitched, OnExpired, StartRefresh,
       ServerRefresh, RefreshLost, Answer, client, history
  <2>2. call'[c].pc # "waiting"
    <3>1. CASE OnExpired(c) \/ StartRefresh(c) \/ RefreshLost(c)
      <4>1. CASE OnExpired(c)
        BY <4>1, Drops DEF OnExpired, Settle, Pcs, Inv, Turns
      <4>2. CASE StartRefresh(c)
        BY <4>2 DEF StartRefresh, Become, Inv, TypeOK, Call
      <4>3. CASE RefreshLost(c)
        BY <4>3, Drops DEF RefreshLost, Pcs, Inv, Turns
      <4>4. QED
        BY <3>1, <4>1, <4>2, <4>3
    <3>2. CASE \/ Accept(c) \/ Reject(c) \/ Fail(c) \/ OnSwitched(c)
               \/ ServerRefresh(c) \/ Answer(c)
      BY <1>1, <3>2 DEF Moves, Accept, Reject, Fail, OnSwitched,
         ServerRefresh, Answer
    <3>3. QED
      BY <1>6, <3>1, <3>2
  <2>3. QED
    BY <1>2, <2>1, <2>2 DEF WaitersAreServed
<1>7. QED
  BY <1>3, <1>4, <1>5, <1>6 DEF Handle

LEMMA NextServes ==
    ASSUME Inv, WaitersAreServed, [Next]_vars
    PROVE  WaitersAreServed'
<1>1. CASE \E c \in Calls : Handle(c)
  BY <1>1, HandleServes
<1>2. CASE \/ Login \/ BeginLogout \/ ServerLogout \/ OnLogout
           \/ \E c \in Calls : Send(c)
           \/ \E p \in Pairs : Expire(p) \/ Revoke(p)
  BY <1>2, OthersMove DEF WaitersAreServed
<1>3. CASE UNCHANGED vars
  BY <1>3 DEF vars, client, history, WaitersAreServed
<1>4. QED
  BY <1>1, <1>2, <1>3 DEF Next

(* No call waits for a refresh that is not under way, but those stranded.   *)
THEOREM WaitersHold == Spec => []WaitersAreServed
<1>1. Init => WaitersAreServed
  BY DEF Init, Sent, WaitersAreServed
<1>2. Inv /\ WaitersAreServed /\ [Next]_vars => WaitersAreServed'
  BY NextServes
<1>3. QED
  BY <1>1, <1>2, InvAlways, PTL DEF Spec

LEMMA NextAdvances ==
    ASSUME Inv, Next
    PROVE  CallsAdvance
<1>1. \A d \in Calls : Stage(call[d].pc) \in Nat
  BY DEF Stage, Inv, TypeOK, Call, Pcs
<1>2. ASSUME NEW c \in Calls, Handle(c)
      PROVE  /\ Stage(call'[c].pc) > Stage(call[c].pc)
             /\ \A d \in Calls : Stage(call'[d].pc) >= Stage(call[d].pc)
  <2>1. Moves(c)
    BY <1>2, HandleMoves
  <2>2. Stage(call'[c].pc) > Stage(call[c].pc)
    BY <2>1 DEF Moves, Stage
  <2>3. \A d \in Calls \ {c} : Stage(call'[d].pc) >= Stage(call[d].pc)
    <3>1. Stage("retrying") >= Stage("waiting")
      BY DEF Stage
    <3>2. QED
      BY <1>1, <2>1, <3>1 DEF Moves
  <2>4. /\ Stage(call[c].pc) \in Nat /\ Stage(call'[c].pc) \in Nat
    BY <1>1, <2>1 DEF Moves, Stage
  <2>5. QED
    BY <2>2, <2>3, <2>4
<1>3. CASE \/ Login \/ BeginLogout \/ ServerLogout \/ OnLogout
           \/ \E c \in Calls : Send(c)
           \/ \E p \in Pairs : Expire(p) \/ Revoke(p)
  <2>1. Stage("sent") >= Stage("idle")
    BY DEF Stage
  <2>2. \A d \in Calls : Stage(call'[d].pc) >= Stage(call[d].pc)
    BY <1>1, <1>3, <2>1, OthersMove
  <2>3. QED
    BY <1>2, <2>2 DEF CallsAdvance
<1>4. CASE \E c \in Calls : Handle(c)
  BY <1>2, <1>4 DEF CallsAdvance
<1>5. QED
  BY <1>3, <1>4 DEF Next

(* Every answer takes its call a stage further and none takes a call back:  *)
(* a call is refreshed for once at most, and sent again once at most.       *)
THEOREM CallsGetOn == Spec => CallProgress
<1>1. Inv /\ [Next]_vars => [CallsAdvance]_vars
  BY NextAdvances
<1>2. QED
  BY <1>1, InvAlways, PTL DEF Spec, CallProgress
=============================================================================
