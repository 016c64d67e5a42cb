---------------------------- MODULE AuthSession ----------------------------
(***************************************************************************)
(* A user's session: login, refresh and logout (internal/auth), the access *)
(* tokens and their check (platform/jwt, rbac.Authn), the limiter before   *)
(* login and refresh (server/middleware), the account they depend on       *)
(* (internal/user) and the console that holds the tokens (web-admin        *)
(* shared/api/http.ts and shared/auth).                                    *)
(*                                                                         *)
(* An access token is never looked up; a refresh token is a Redis key that *)
(* is consumed by its one use.  The n-th refresh token and the access      *)
(* token minted with it are both the number n.  One account and one        *)
(* console; an app (not in this repository) may send a refresh token the   *)
(* console has also sent.  Every Redis and SQL command is a step.          *)
(***************************************************************************)
EXTENDS Naturals, FiniteSets

CONSTANTS
    Calls,       \* concurrent API calls of the console
    MaxTokens,   \* bound: token pairs minted
    MaxPerIP,    \* RateLimitConfig, 0 for no limit
    MaxPerUser,
    Faults       \* "redis", "db": a command fails, "net": an answer is lost

ASSUME AuthAssumption ==
    /\ {"login", "app", "none"} \cap Calls = {}
    /\ MaxTokens \in Nat /\ MaxPerIP \in Nat /\ MaxPerUser \in Nat
    /\ Faults \subseteq {"redis", "db", "net"}

Tokens == 1..MaxTokens
NoToken == 0

\* A refresh runs in the slot of the call that started it.
Slots == Calls \cup {"login", "app"}
NoSlot == "none"

VARIABLES
    account,  \* users.is_active and deleted_at
    store,    \* the refresh: keys in Redis
    minted,   \* refresh tokens so far
    expired,  \* access tokens whose exp has passed
    request,  \* POST /auth/login and /auth/refresh
    hits,     \* the rl: counters in Redis
    armed,    \* the counters with a TTL
    access, refresh,  \* authStore
    flight,   \* refreshPromise: the slot whose answer it is
    call,     \* the console's API calls
    parent,   \* history: the refresh token each was exchanged for
    disturbed \* history: something that may end the session has happened

vars == <<account, store, minted, expired, request, hits, armed, access, refresh,
          flight, call, parent, disturbed>>

-----------------------------------------------------------------------------
Keys == {"ip:login", "ip:refresh", "user:login"}
Max(k) == IF k = "user:login" THEN MaxPerUser ELSE MaxPerIP

Requests == [pc : {"idle", "ip", "user", "consume", "create", "load", "touch",
                   "ok", "refused", "failed"},
             sent : 0..MaxTokens, new : 0..MaxTokens]
NoRequest == [pc |-> "idle", sent |-> NoToken, new |-> NoToken]

CallStates == [pc : {"idle", "sent", "expired", "unauthenticated", "waiting"},
               token : 0..MaxTokens, retried : BOOLEAN]
NoCall == [pc |-> "idle", token |-> NoToken, retried |-> FALSE]

TypeOK ==
    /\ account \in {"active", "disabled", "deleted"}
    /\ store \in SUBSET (1..minted)
    /\ minted \in 0..MaxTokens
    /\ expired \in SUBSET (1..minted)
    /\ request \in [Slots -> Requests]
    /\ hits \in [Keys -> Nat]
    /\ \A k \in Keys : hits[k] <= Max(k) + 1
    /\ armed \in SUBSET Keys
    /\ access \in 0..minted /\ refresh \in 0..minted
    /\ flight \in Calls \cup {NoSlot}
    /\ call \in [Calls -> CallStates]
    /\ parent \in [Tokens -> 0..MaxTokens]
    /\ disturbed \in BOOLEAN

Init ==
    /\ account = "active"
    /\ store = {} /\ minted = 0 /\ expired = {}
    /\ request = [s \in Slots |-> NoRequest]
    /\ hits = [k \in Keys |-> 0] /\ armed = {}
    /\ access = NoToken /\ refresh = NoToken /\ flight = NoSlot
    /\ call = [c \in Calls |-> NoCall]
    /\ parent = [t \in Tokens |-> NoToken]
    /\ disturbed = FALSE

redisVars == <<store, minted, parent>>
limitVars == <<hits, armed>>
siteVars == <<access, refresh, flight, call>>

Disturb(when) == disturbed' = (disturbed \/ when)

-----------------------------------------------------------------------------
(* The limiter: AuthRateLimit, a fixed window for each key.                *)

To(s, pc) ==
    request' = [request EXCEPT ![s] =
        IF pc \in {"refused", "failed"} THEN [NoRequest EXCEPT !.pc = pc] ELSE [@ EXCEPT !.pc = pc]]

KeyOf(s) ==
    IF request[s].pc = "user" THEN "user:login"
    ELSE IF s = "login" THEN "ip:login" ELSE "ip:refresh"

\* Where a request goes once it is within the limit.
Admitted(s) == IF s # "login" THEN "consume" ELSE IF request[s].pc = "ip" THEN "user" ELSE "load"

\* Mutant: PEXPIRE is a command of its own, which may fail.
CountHitThenExpire(k) ==
    /\ hits' = [hits EXCEPT ![k] = IF @ > Max(k) THEN @ ELSE @ + 1]
    /\ \E sets \in {hits[k] = 0} \cup IF "redis" \in Faults THEN {FALSE} ELSE {} :
          armed' = IF sets THEN armed \cup {k} ELSE armed

\* fixedWindowScript.  A counter that is over the limit is as good as any other.
CountHit(k) ==
    /\ hits' = [hits EXCEPT ![k] = IF @ > Max(k) THEN @ ELSE @ + 1]
    /\ armed' = IF hits[k] = 0 THEN armed \cup {k} ELSE armed

Limit(s) ==
    /\ request[s].pc \in {"ip", "user"}
    /\ \/ /\ Max(KeyOf(s)) > 0
          /\ CountHit(KeyOf(s))
          /\ IF hits'[KeyOf(s)] > Max(KeyOf(s))
             THEN To(s, "failed") /\ Disturb(TRUE)
             ELSE To(s, Admitted(s)) /\ UNCHANGED disturbed
       \/ /\ Max(KeyOf(s)) = 0 \/ "redis" \in Faults
          /\ To(s, Admitted(s))
          /\ UNCHANGED <<limitVars, disturbed>>
    /\ UNCHANGED <<account, redisVars, expired, siteVars>>

\* The TTL of the counter: the window is over.
WindowEnds(k) ==
    /\ k \in armed
    /\ hits' = [hits EXCEPT ![k] = 0]
    /\ armed' = armed \ {k}
    /\ UNCHANGED <<account, redisVars, expired, request, siteVars, disturbed>>

-----------------------------------------------------------------------------
(* POST /auth/refresh: Rotate, then the account.                           *)

\* Mutant: GET, and a DEL when the new token is stored.
ConsumeByGet(s) ==
    /\ request[s].pc = "consume"
    /\ To(s, IF request[s].sent \in store THEN "create" ELSE "refused")
    /\ UNCHANGED <<account, redisVars, expired, limitVars, siteVars, disturbed>>

\* consume: GETDEL.
Consume(s) ==
    /\ request[s].pc = "consume"
    /\ To(s, IF request[s].sent \in store THEN "create" ELSE "refused")
    /\ store' = store \ {request[s].sent}
    /\ UNCHANGED <<account, minted, parent, expired, limitVars, siteVars, disturbed>>

\* Mutant: the error of the SET is dropped.
CreateUnstored(s) ==
    /\ request[s].pc = "create"
    /\ minted < MaxTokens
    /\ request' = [request EXCEPT ![s] =
          [pc |-> IF s = "login" THEN "touch" ELSE "load", sent |-> NoToken, new |-> minted + 1]]
    /\ UNCHANGED <<account, redisVars, expired, limitVars, siteVars, disturbed>>

Create(s) ==
    /\ request[s].pc = "create"
    /\ minted < MaxTokens
    /\ minted' = minted + 1
    /\ store' = store \cup {minted + 1}
    /\ parent' = [parent EXCEPT ![minted + 1] = request[s].sent]
    /\ request' = [request EXCEPT ![s] =
          [pc |-> IF s = "login" THEN "touch" ELSE "load", sent |-> NoToken, new |-> minted + 1]]
    /\ UNCHANGED <<account, expired, limitVars, siteVars, disturbed>>

\* GetUserByID, GetUserByUsername: a deleted row is no row.
UserFound == account # "deleted"
IsActive == account = "active"

\* The new token of a disabled account is revoked, that of a deleted one stays
\* in Redis until its TTL.
Refresh(s) ==
    /\ request[s].pc = "load" /\ s # "login"
    /\ To(s, IF UserFound /\ IsActive THEN "ok" ELSE "refused")
    /\ store' = IF UserFound /\ ~IsActive THEN store \ {request[s].new} ELSE store
    /\ UNCHANGED <<account, minted, parent, expired, limitVars, siteVars, disturbed>>

-----------------------------------------------------------------------------
(* POST /auth/login.                                                       *)

\* Login, up to the tokens.
CheckPassword ==
    /\ request["login"].pc = "load"
    /\ \E matches \in BOOLEAN :
          /\ To("login", IF UserFound /\ IsActive /\ matches THEN "create" ELSE "refused")
          /\ Disturb(~matches)
    /\ UNCHANGED <<account, redisVars, expired, limitVars, siteVars>>

TouchLastLogin ==
    /\ request["login"].pc = "touch"
    /\ To("login", "ok")
    /\ UNCHANGED <<account, redisVars, expired, limitVars, siteVars, disturbed>>

\* A Redis or SQL command fails, or the server stops before it; a GETDEL may
\* have run.
CommandFails(s) ==
    /\ request[s].pc \in {"consume", "create", "load", "touch"}
    /\ IF request[s].pc \in {"consume", "create"} THEN "redis" \in Faults ELSE "db" \in Faults
    /\ To(s, "failed")
    /\ \/ request[s].pc = "consume" /\ store' = store \ {request[s].sent}
       \/ UNCHANGED store
    /\ Disturb(TRUE)
    /\ UNCHANGED <<account, minted, parent, expired, limitVars, siteVars>>

\* The answer is lost: what was done stays done.
AnswerLost(s) ==
    /\ "net" \in Faults /\ request[s].pc \in {"ok", "refused"}
    /\ To(s, "failed")
    /\ Disturb(TRUE)
    /\ UNCHANGED <<account, redisVars, expired, limitVars, siteVars>>

-----------------------------------------------------------------------------
(* The account and the clocks.                                             *)

SetAccount(to) ==
    /\ account # "deleted" /\ account # to
    /\ account' = to
    /\ Disturb(TRUE)
    /\ UNCHANGED <<redisVars, expired, request, limitVars, siteVars>>

\* user.Service.Update, what it does to is_active.
UpdateUser(active) == SetAccount(IF active THEN "active" ELSE "disabled")

\* user.Service.Delete.
DeleteUser == SetAccount("deleted")

\* The exp of an access token the console uses, later than the answer that
\* brings it; a call that was already retried has no other.
Expire(t) ==
    /\ t \in {access} \cup {call[c].token : c \in Calls}
    /\ t \in (1..minted) \ expired
    /\ expired' = expired \cup {t}
    /\ Disturb(\E c \in Calls : call[c].retried /\ call[c].token = t /\ call[c].pc = "sent")
    /\ UNCHANGED <<account, redisVars, request, limitVars, siteVars>>

\* The TTL of a refresh token, or a logout of the app (Revoke).
RefreshTokenEnds(t) ==
    /\ t \in store
    /\ store' = store \ {t}
    /\ Disturb(TRUE)
    /\ UNCHANGED <<account, minted, parent, expired, request, limitVars, siteVars>>

-----------------------------------------------------------------------------
(* The console.                                                            *)

\* A forced logout and a logout both leave the store empty.
reset == access' = NoToken /\ refresh' = NoToken

\* A session starts afresh when nothing of the last one is under way.
Login ==
    /\ access = NoToken /\ request["login"].pc = "idle"
    /\ minted < MaxTokens
    /\ request' = [request EXCEPT !["login"].pc = "ip"]
    /\ IF /\ \A c \in Calls : call[c].pc = "idle" /\ request[c].pc = "idle"
          /\ account = "active"
       THEN disturbed' = FALSE
       ELSE UNCHANGED disturbed
    /\ UNCHANGED <<account, redisVars, expired, limitVars, access, refresh, flight, call>>

setTokens(t) == access' = t /\ refresh' = t

LoginSettles ==
    /\ \/ request["login"].pc = "ok" /\ setTokens(request["login"].new)
       \/ request["login"].pc = "refused" /\ reset
       \/ request["login"].pc = "failed" /\ UNCHANGED <<access, refresh>>
    /\ request' = [request EXCEPT !["login"] = NoRequest]
    /\ UNCHANGED <<account, redisVars, expired, limitVars, flight, call, disturbed>>

\* The request interceptor adds the access token.
Call(c) ==
    /\ call[c].pc = "idle" /\ access # NoToken
    /\ call' = [call EXCEPT ![c] = [pc |-> "sent", token |-> access, retried |-> FALSE]]
    /\ UNCHANGED <<account, redisVars, expired, request, limitVars, access, refresh,
                   flight, disturbed>>

Answer(c, pc) == call' = [call EXCEPT ![c].pc = pc, ![c].token = NoToken]

\* rbac.Authn looks at the token alone; /auth/me misses a deleted user.
Authn(c) ==
    /\ call[c].pc = "sent"
    /\ \/ call[c].token \in expired /\ Answer(c, "expired")
       \/ call[c].token \notin expired /\ ~UserFound /\ Answer(c, "unauthenticated")
    /\ UNCHANGED <<account, redisVars, expired, request, limitVars, access, refresh,
                   flight, disturbed>>

\* The call is answered, or its answer is lost.  One that was useLogout's POST
\* /auth/logout, which carries no refresh token to revoke, clears the store.
CallEnds(c) ==
    /\ call[c].pc = "sent"
    /\ call[c].token \notin expired \/ "net" \in Faults
    /\ call' = [call EXCEPT ![c] = NoCall]
    /\ \/ UNCHANGED <<access, refresh, disturbed>>
       \/ reset /\ Disturb(TRUE)
    /\ UNCHANGED <<account, redisVars, expired, request, limitVars, flight>>

\* Mutant: every expired call refreshes for itself.
OnExpiredRefreshesAlone(c) ==
    /\ call[c].pc = "expired" /\ ~call[c].retried
    /\ request[c].pc = "idle" /\ refresh # NoToken
    /\ request' = [request EXCEPT ![c] = [pc |-> "ip", sent |-> refresh, new |-> NoToken]]
    /\ Answer(c, "waiting")
    /\ flight' = c
    /\ UNCHANGED <<account, redisVars, expired, limitVars, access, refresh, disturbed>>

\* TOKEN_EXPIRED: refreshSingleFlight.
OnExpired(c) ==
    /\ call[c].pc = "expired" /\ ~call[c].retried
    /\ \/ /\ flight # NoSlot
          /\ Answer(c, "waiting")
          /\ UNCHANGED <<request, flight, access, refresh>>
       \/ /\ flight = NoSlot /\ refresh # NoToken
          /\ request' = [request EXCEPT ![c] = [pc |-> "ip", sent |-> refresh, new |-> NoToken]]
          /\ flight' = c
          /\ Answer(c, "waiting")
          /\ UNCHANGED <<access, refresh>>
       \/ /\ flight = NoSlot /\ refresh = NoToken
          /\ reset
          /\ call' = [call EXCEPT ![c] = NoCall]
          /\ UNCHANGED <<request, flight>>
    /\ UNCHANGED <<account, redisVars, expired, limitVars, disturbed>>

\* UNAUTHENTICATED, or a 401 of a call that was retried.
OnUnauthenticated(c) ==
    /\ \/ call[c].pc = "unauthenticated"
       \/ call[c].pc = "expired" /\ call[c].retried
    /\ reset
    /\ call' = [call EXCEPT ![c] = NoCall]
    /\ UNCHANGED <<account, redisVars, expired, request, limitVars, flight, disturbed>>

\* The refresh of c is answered and every call that waited for it goes on.
RefreshSettles(c) ==
    /\ request[c].pc \in {"ok", "refused", "failed"}
    /\ LET waiting == {d \in Calls : call[d].pc = "waiting"} IN
       IF request[c].pc = "ok"
       THEN /\ setTokens(request[c].new)
            /\ call' = [d \in Calls |->
                  IF d \in waiting
                  THEN [call[d] EXCEPT !.pc = "sent", !.retried = TRUE, !.token = request[c].new]
                  ELSE call[d]]
       ELSE /\ reset
            /\ call' = [d \in Calls |-> IF d \in waiting THEN NoCall ELSE call[d]]
    /\ request' = [request EXCEPT ![c] = NoRequest]
    /\ flight' = NoSlot
    /\ UNCHANGED <<account, redisVars, expired, limitVars, disturbed>>

\* The page is loaded again: the access token is kept, the refresh token was
\* never written down, and what the server still answers reaches nobody.
Reload ==
    /\ access # NoToken
    /\ refresh' = NoToken /\ flight' = NoSlot
    /\ call' = [c \in Calls |-> NoCall]
    /\ request' = [s \in Slots |-> IF s = "app" THEN request[s] ELSE NoRequest]
    /\ Disturb(TRUE)
    /\ UNCHANGED <<account, redisVars, expired, limitVars, access>>

\* An app sends a refresh token of this account, which the console may also send.
AppRefreshes(t) ==
    /\ request["app"].pc = "idle" /\ t \in store
    /\ request' = [request EXCEPT !["app"] = [pc |-> "ip", sent |-> t, new |-> NoToken]]
    /\ Disturb(TRUE)
    /\ UNCHANGED <<account, redisVars, expired, limitVars, siteVars>>

AppSettles ==
    /\ request["app"].pc \in {"ok", "refused", "failed"}
    /\ request' = [request EXCEPT !["app"] = NoRequest]
    /\ UNCHANGED <<account, redisVars, expired, limitVars, siteVars, disturbed>>

-----------------------------------------------------------------------------
Next ==
    \/ \E s \in Slots : \/ Limit(s) \/ Consume(s) \/ Create(s) \/ Refresh(s)
                        \/ CommandFails(s) \/ AnswerLost(s)
    \/ CheckPassword \/ TouchLastLogin
    \/ \E k \in Keys : WindowEnds(k)
    \/ (\E active \in BOOLEAN : UpdateUser(active)) \/ DeleteUser
    \/ \E t \in 1..minted : Expire(t) \/ RefreshTokenEnds(t) \/ AppRefreshes(t)
    \/ \E c \in Calls : \/ Call(c) \/ Authn(c) \/ CallEnds(c) \/ OnExpired(c)
                        \/ OnUnauthenticated(c) \/ RefreshSettles(c)
    \/ Login \/ LoginSettles \/ Reload \/ AppSettles

Spec == Init /\ [][Next]_vars

-----------------------------------------------------------------------------
\* SpentOnce: a refresh token is exchanged for one other, whatever is sent
\* twice, at once or after a lost answer.  refresh.go:68-69 promises that a
\* token can never be used twice even under concurrent refresh.
SpentOnce ==
    \A t, u \in Tokens : parent[t] = parent[u] /\ parent[t] # NoToken => t = u

\* NoSpuriousLogout: concurrent calls and the end of an access token never
\* force a user out; that takes a fault, an administrator, a limit, a reload,
\* the end of the refresh token or its use by an app (http.ts, the single flight).
NoSpuriousLogout == [][access # NoToken /\ access' = NoToken => disturbed']_vars

\* CounterExpires: a counter of the limiter always has a TTL, so that no key is
\* refused for ever (ratelimit.go:61-66).
CounterExpires == \A k \in Keys : hits[k] > 0 => k \in armed
=============================================================================
