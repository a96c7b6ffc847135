---------------------------- MODULE PortalClient ----------------------------
(***************************************************************************)
(* The portal's ApiClient (frontend/src/api/client.ts) in one browser tab: *)
(* authenticated calls, the refresh they share when the access token has   *)
(* expired, sign-in, switch of organisation and sign-out.                  *)
(*                                                                         *)
(* JavaScript runs one handler at a time; between them the server works on *)
(* the requests that were sent, and answers arrive in any order.  A token  *)
(* pair (access and refresh token, always stored and cleared together) is  *)
(* a number.                                                               *)
(***************************************************************************)
EXTENDS Naturals, FiniteSets

CONSTANTS
    Calls,     \* the calls of request() that need authentication
    Switches,  \* those that are switchOrg()
    MaxPairs   \* bound: the token pairs the server issues

ASSUME SwitchesAssumption == Switches \subseteq Calls
ASSUME MaxPairsAssumption == MaxPairs \in Nat

VARIABLES
    stored,        \* the pair in localStorage
    isRefreshing,
    refreshSubscribers,
    call,          \* where each call stands
    logout,        \* where logout() stands, with the pair it read
    issued,        \* server: the pairs issued so far are 1..issued
    live,          \* server: the pairs whose refresh token is accepted
    fresh,         \* server: the pairs whose access token is accepted
    person,        \* history: "in" since a sign-in, "out" since a logout()
    stranded,      \* history: calls that subscribed to no refresh to come
    excused,       \* history: since the sign-in an answer was lost, or the
                   \* server revoked the session
    raced          \* history: a refresh or a switch was in flight at the last
                   \* sign-in or logout()

client == <<stored, isRefreshing, refreshSubscribers>>
server == <<issued, live, fresh>>
history == <<person, stranded, excused, raced>>
vars == <<client, call, logout, server, history>>

-----------------------------------------------------------------------------

NoPair == 0
Pairs == 1..MaxPairs

Pcs == {"idle", "sent", "switched", "unauthorized", "refreshing", "refreshed",
        "refused", "waiting", "retrying", "settled"}

(* token: the pair whose access token the call carries, or whose refresh    *)
(* token it presents; got: the pair the server answers with.                *)
Call == [pc: Pcs, token: Pairs \union {NoPair}, got: Pairs \union {NoPair}]

TypeOK ==
    /\ stored \in Pairs \union {NoPair}
    /\ isRefreshing \in BOOLEAN
    /\ refreshSubscribers \in SUBSET Calls
    /\ call \in [Calls -> Call]
    /\ logout \in [pc: {"no", "sent", "answered"}, token: Pairs \union {NoPair}]
    /\ issued \in 0..MaxPairs /\ live \in SUBSET Pairs /\ fresh \in SUBSET Pairs
    /\ person \in {"none", "in", "out"} /\ stranded \in SUBSET Calls
    /\ excused \in BOOLEAN /\ raced \in BOOLEAN

Sent(pc, p) == [pc |-> pc, token |-> p, got |-> NoPair]

Init ==
    /\ stored = NoPair /\ isRefreshing = FALSE /\ refreshSubscribers = {}
    /\ call = [c \in Calls |-> Sent("idle", NoPair)]
    /\ logout = [pc |-> "no", token |-> NoPair]
    /\ issued = 0 /\ live = {} /\ fresh = {}
    /\ person = "none" /\ stranded = {}
    /\ excused = FALSE /\ raced = FALSE

Become(c, q) == call' = [call EXCEPT ![c] = q]
Drop(c, pc) == Become(c, Sent(pc, NoPair))
Settle(c) == Drop(c, "settled")

(* The server issues a pair; those in ended are revoked. *)
Issue(ended) ==
    /\ issued < MaxPairs
    /\ issued' = issued + 1
    /\ live' = (live \ ended) \union {issued + 1}
    /\ fresh' = fresh \union {issued + 1}

-----------------------------------------------------------------------------
(* Signing in and out. *)

(* Some call may still change the stored pair. *)
TokensInFlight ==
    \E c \in Calls :
        \/ call[c].pc \in {"refreshing", "refreshed", "refused", "switched"}
        \/ c \in Switches /\ call[c].pc \in {"sent", "retrying"}

(* login(), verifyMagicLink(), verifyOtp(): offered when nobody is in. *)
Login ==
    /\ stored = NoPair
    /\ logout.pc = "no"
    /\ Issue({})
    /\ stored' = issued + 1
    /\ person' = "in"
    /\ excused' = FALSE
    /\ raced' = TokensInFlight
    /\ UNCHANGED <<isRefreshing, refreshSubscribers, call, logout, stranded>>

BeginLogout ==
    /\ stored # NoPair
    /\ logout.pc = "no"
    /\ logout' = [pc |-> "sent", token |-> stored]
    /\ UNCHANGED <<client, call, server, history>>

(* The server revokes the refresh token, if the request reaches it. *)
ServerLogout ==
    /\ logout.pc = "sent"
    /\ \/ live' = live \ {logout.token}
       \/ UNCHANGED live
    /\ logout' = [logout EXCEPT !.pc = "answered"]
    /\ UNCHANGED <<client, call, issued, fresh, history>>

(* Mutants of OnLogout: an error of the backend is not ignored; the tokens  *)
(* are cleared only if they are those that logout() read.                   *)
OnLogoutStrict ==
    /\ logout.pc = "answered"
    /\ logout' = [logout EXCEPT !.pc = "failed"]
    /\ UNCHANGED <<client, call, server, history>>

OnLogoutSame ==
    /\ logout.pc = "answered"
    /\ logout' = [pc |-> "no", token |-> NoPair]
    /\ stored' = IF stored = logout.token THEN NoPair ELSE stored
    /\ person' = "out"
    /\ raced' = TokensInFlight
    /\ UNCHANGED <<isRefreshing, refreshSubscribers, call, server, stranded,
                   excused>>

(* clearTokens, whatever the answer was. *)
OnLogout ==
    /\ logout.pc = "answered"
    /\ logout' = [pc |-> "no", token |-> NoPair]
    /\ stored' = NoPair
    /\ person' = "out"
    /\ raced' = TokensInFlight
    /\ UNCHANGED <<isRefreshing, refreshSubscribers, call, server, stranded,
                   excused>>

-----------------------------------------------------------------------------
(* request() *)

Send(c) ==
    /\ call[c].pc = "idle"
    /\ stored # NoPair
    /\ Become(c, Sent("sent", stored))
    /\ UNCHANGED <<client, logout, server, history>>

(* The server accepts the access token; switchOrg() is answered with a new  *)
(* pair, beside which the old one stays live.                               *)
Accept(c) ==
    /\ call[c].pc = "sent"
    /\ call[c].token \in fresh
    /\ IF c \in Switches
       THEN /\ Issue({})
            /\ Become(c, [Sent("switched", NoPair) EXCEPT !.got = issued + 1])
       ELSE Settle(c) /\ UNCHANGED server
    /\ UNCHANGED <<client, logout, history>>

Reject(c) ==
    /\ call[c].pc = "sent"
    /\ call[c].token \notin fresh
    /\ Drop(c, "unauthorized")
    /\ UNCHANGED <<client, logout, server, history>>

(* No answer, or any error but 401: the caller gets it. *)
Fail(c) ==
    /\ call[c].pc \in {"sent", "switched"}
    /\ Settle(c)
    /\ UNCHANGED <<client, logout, server, history>>

OnSwitched(c) ==
    /\ call[c].pc = "switched"
    /\ stored' = call[c].got
    /\ Settle(c)
    /\ UNCHANGED <<isRefreshing, refreshSubscribers, logout, server, history>>

(* 401, and there is nothing to refresh with. *)
OnExpired(c) ==
    /\ call[c].pc = "unauthorized"
    /\ stored = NoPair
    /\ Settle(c)
    /\ UNCHANGED <<client, logout, server, history>>

(* Mutant of StartRefresh: isRefreshing is not looked at. *)
StartRefreshAnyway(c) ==
    /\ call[c].pc = "unauthorized"
    /\ stored # NoPair
    /\ isRefreshing' = TRUE
    /\ Become(c, [call[c] EXCEPT !.pc = "refreshing", !.token = stored])
    /\ UNCHANGED <<stored, refreshSubscribers, logout, server, history>>

(* 401: this call refreshes. *)
StartRefresh(c) ==
    /\ call[c].pc = "unauthorized"
    /\ stored # NoPair
    /\ ~isRefreshing
    /\ isRefreshing' = TRUE
    /\ Become(c, [call[c] EXCEPT !.pc = "refreshing", !.token = stored])
    /\ UNCHANGED <<stored, refreshSubscribers, logout, server, history>>

(* 401 while another call refreshes: wait for it. *)
JoinRefresh(c) ==
    /\ call[c].pc = "unauthorized"
    /\ stored # NoPair
    /\ isRefreshing
    /\ refreshSubscribers' = refreshSubscribers \union {c}
    /\ Drop(c, "waiting")
    /\ UNCHANGED <<stored, isRefreshing, logout, server, history>>

(* POST /v1/auth/refresh: single use. *)
ServerRefresh(c) ==
    /\ call[c].pc = "refreshing"
    /\ IF call[c].token \in live
       THEN /\ Issue({call[c].token})
            /\ Become(c, [Sent("refreshed", NoPair) EXCEPT !.got = issued + 1])
       ELSE Drop(c, "refused") /\ UNCHANGED server
    /\ UNCHANGED <<client, logout, history>>

(* The request or its answer is lost. *)
RefreshLost(c) ==
    /\ call[c].pc \in {"refreshing", "refreshed"}
    /\ Drop(c, "refused")
    /\ excused' = TRUE
    /\ UNCHANGED <<client, logout, server, person, stranded, raced>>

(* Mutants of OnRefreshed: the refresh token is not stored, only the access *)
(* token is; the subscribers are dropped without being told.                *)
OnRefreshedHalf(c) ==
    /\ call[c].pc = "refreshed"
    /\ isRefreshing' = FALSE
    /\ refreshSubscribers' = {c}
    /\ call' = [d \in Calls |->
                  IF d = c THEN Sent("waiting", NoPair)
                  ELSE IF d \in refreshSubscribers
                  THEN Sent("retrying", call[c].got)
                  ELSE call[d]]
    /\ stranded' = stranded \union {c}
    /\ UNCHANGED <<stored, logout, server, person, excused, raced>>

OnRefreshedForgetting(c) ==
    /\ call[c].pc = "refreshed"
    /\ stored' = call[c].got
    /\ isRefreshing' = FALSE
    /\ refreshSubscribers' = {c}
    /\ call' = [call EXCEPT ![c] = Sent("waiting", NoPair)]
    /\ stranded' = stranded \union {c}
    /\ UNCHANGED <<logout, server, person, excused, raced>>

(* setTokens and onTokenRefreshed: the subscribers send their calls again.  *)
(* Then the call that refreshed subscribes itself.                          *)
OnRefreshed(c) ==
    /\ call[c].pc = "refreshed"
    /\ stored' = call[c].got
    /\ isRefreshing' = FALSE
    /\ refreshSubscribers' = {c}
    /\ call' = [d \in Calls |->
                  IF d = c THEN Sent("waiting", NoPair)
                  ELSE IF d \in refreshSubscribers
                  THEN Sent("retrying", call[c].got)
                  ELSE call[d]]
    /\ stranded' = stranded \union {c}
    /\ UNCHANGED <<logout, server, person, excused, raced>>

(* Mutant of OnRefused: isRefreshing stays set. *)
OnRefusedStuck(c) ==
    /\ call[c].pc = "refused"
    /\ stored' = NoPair
    /\ Settle(c)
    /\ stranded' = stranded \union refreshSubscribers
    /\ UNCHANGED <<isRefreshing, refreshSubscribers, logout, server, person,
                   excused, raced>>

(* clearTokens; the call is rejected, the subscribers are not told. *)
OnRefused(c) ==
    /\ call[c].pc = "refused"
    /\ stored' = NoPair
    /\ isRefreshing' = FALSE
    /\ Settle(c)
    /\ stranded' = stranded \union refreshSubscribers
    /\ UNCHANGED <<refreshSubscribers, logout, server, person, excused,
                   raced>>

(* The call that was sent again is answered, whatever the answer. *)
Answer(c) ==
    /\ call[c].pc = "retrying"
    /\ \/ /\ c \in Switches /\ call[c].token \in fresh
          /\ Issue({})
          /\ Become(c, [Sent("switched", NoPair) EXCEPT !.got = issued + 1])
       \/ Settle(c) /\ UNCHANGED server
    /\ UNCHANGED <<client, logout, history>>

-----------------------------------------------------------------------------
(* The server on its own: an access token expires, a session is revoked.    *)

Expire(p) ==
    /\ p \in fresh
    /\ fresh' = fresh \ {p}
    /\ UNCHANGED <<client, call, logout, issued, live, history>>

Revoke(p) ==
    /\ p \in live
    /\ live' = live \ {p}
    /\ excused' = TRUE
    /\ UNCHANGED <<client, call, logout, issued, fresh, person,
                   stranded, raced>>

-----------------------------------------------------------------------------

Handle(c) ==
    \/ Accept(c) \/ Reject(c) \/ Fail(c) \/ OnSwitched(c) \/ OnExpired(c)
    \/ StartRefresh(c) \/ JoinRefresh(c) \/ ServerRefresh(c) \/ RefreshLost(c)
    \/ OnRefreshed(c) \/ OnRefused(c) \/ Answer(c)

Next ==
    \/ Login \/ BeginLogout \/ ServerLogout \/ OnLogout
    \/ \E c \in Calls : Send(c) \/ Handle(c)
    \/ \E p \in Pairs : Expire(p) \/ Revoke(p)

(* What has been sent is answered or fails, and answers are handled. *)
Fairness == \A c \in Calls : WF_vars(Handle(c))

Spec == Init /\ [][Next]_vars /\ Fairness

-----------------------------------------------------------------------------
(* Properties. *)

(* isRefreshing says whether a refresh is under way, and there is one at    *)
(* most: left set it would make every later call wait for nothing.          *)
FlagIsTrue ==
    LET refreshing == {c \in Calls :
                         call[c].pc \in {"refreshing", "refreshed", "refused"}}
    IN  Cardinality(refreshing) = IF isRefreshing THEN 1 ELSE 0

(* The client never burns its own refresh token: a session ends in the      *)
(* browser only by logout(), unless an answer was lost, the server revoked  *)
(* it, or a refresh of an earlier session was still in flight.              *)
LiveSessionIsKept ==
    person = "in" /\ stored = NoPair => logout.pc # "no" \/ excused \/ raced

(* After logout() nobody is signed in until the next sign-in, unless a      *)
(* refresh or a switch was in flight: its answer would store tokens again.  *)
LogoutSticks == person = "out" /\ ~raced => stored = NoPair

(* Every call is answered, unless it is the one that refreshed or had       *)
(* joined a refresh that failed.                                            *)
CallsSettleOrStrand ==
    \A c \in Calls :
        call[c].pc = "sent" ~> call[c].pc = "settled" \/ c \in stranded

(* client.ts: "Wait for the ongoing refresh", of every call.                *)
EveryCallSettles ==
    \A c \in Calls : call[c].pc = "sent" ~> call[c].pc = "settled"

-----------------------------------------------------------------------------
(* The strengthening that makes the invariants inductive. *)

Refreshers ==
    {c \in Calls : call[c].pc \in {"refreshing", "refreshed", "refused"}}

OneRefresh ==
    /\ isRefreshing <=> Refreshers # {}
    /\ \A c, d \in Refreshers : c = d

SubscribersWait == \A c \in refreshSubscribers : call[c].pc = "waiting"

(* A pair on its way to the client is nobody else's, and not stored yet.    *)
PairsAreOwn ==
    /\ stored <= issued
    /\ \A c \in Calls :
          /\ call[c].token <= issued /\ call[c].got <= issued
          /\ call[c].got # NoPair <=> call[c].pc \in {"refreshed", "switched"}
          /\ call[c].got # NoPair => call[c].got # stored
    /\ \A c, d \in Calls :
          /\ call[c].got # NoPair /\ call[c].got = call[d].got => c = d
          /\ call[c].got # NoPair /\ call[d].pc = "refreshing"
                => call[c].got # call[d].token

(* While a session is not disturbed whatever is stored, presented, or on    *)
(* its way, is live; what is stored may be spent by a refresh that is       *)
(* answered.                                                                *)
SessionIsLive ==
    person = "in" /\ logout.pc = "no" /\ ~excused /\ ~raced =>
        /\ stored # NoPair
        /\ stored \in live \/ \E c \in Calls : call[c].pc = "refreshed"
        /\ \A c \in Calls :
              /\ call[c].pc # "refused"
              /\ call[c].pc = "refreshing" => call[c].token \in live
              /\ call[c].got # NoPair => call[c].got \in live

NobodyIsIn == person = "out" /\ ~raced => stored = NoPair /\ ~TokensInFlight

PortalInv ==
    OneRefresh /\ SubscribersWait /\ PairsAreOwn /\ SessionIsLive /\ NobodyIsIn

-----------------------------------------------------------------------------
(* What CallsSettleOrStrand rests on. *)

(* A call that waits is among the subscribers of a refresh that is under    *)
(* way, unless that refresh is over and it is stranded.                     *)
WaitersAreServed ==
    \A c \in Calls :
        call[c].pc = "waiting"
            => c \in stranded \/ (isRefreshing /\ c \in refreshSubscribers)

(* How far a call has come that stands at pc. *)
Stage(pc) ==
    CASE pc = "idle" -> 0
      [] pc = "sent" -> 1
      [] pc = "unauthorized" -> 2
      [] pc = "refreshing" -> 3
      [] pc = "refreshed" -> 4
      [] pc \in {"refused", "waiting"} -> 5
      [] pc = "retrying" -> 6
      [] pc = "switched" -> 7
      [] pc = "settled" -> 8

(* Every handler takes its call further and no step takes any call back:    *)
(* one 401, one refresh and one retry at most, whatever is answered.        *)
CallsAdvance ==
    \A c \in Calls :
        /\ Stage(call'[c].pc) >= Stage(call[c].pc)
        /\ Handle(c) => Stage(call'[c].pc) > Stage(call[c].pc)

CallProgress == [][CallsAdvance]_vars
=============================================================================
