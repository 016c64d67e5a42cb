------------------------- MODULE AuthSessionProofs -------------------------
(***************************************************************************)
(* Proofs about AuthSession, for every number of calls, tokens and limits  *)
(* and every combination of faults: a refresh token is spent once, every   *)
(* counter expires, and nothing but a disturbance ends a session.          *)
(***************************************************************************)
EXTENDS AuthSession, TLAPS

-----------------------------------------------------------------------------
(* The inductive invariant.                                                *)

\* The refresh token that a request has taken out of Redis is nobody else's.
Taken(s) ==
    LET t == request[s].sent IN
    t # NoToken => /\ t \notin store
                   /\ \A u \in Tokens : parent[u] # t
                   /\ \A r \in Slots \ {s} : request[r].pc = "create" => request[r].sent # t

Spending ==
    /\ \A s \in Slots : request[s].sent \in 0..minted /\ request[s].new \in 0..minted
    /\ request["login"].sent = NoToken
    /\ \A t \in Tokens : parent[t] \in 0..minted
    /\ \A t \in store : \A u \in Tokens : parent[u] # t
    /\ \A s \in Slots : request[s].pc = "create" => Taken(s)
    /\ SpentOnce

IInv == TypeOK /\ Spending /\ CounterExpires

\* An undisturbed session.  A token that a request brings is good, is not in
\* use yet, and no app is about to spend it.
AppLeaves(t) == request["app"].pc \in {"ip", "user", "consume"} => request["app"].sent # t

Fresh(n) ==
    /\ n # NoToken /\ n \in store /\ n \notin expired /\ n # access
    /\ \A c \in Calls : call[c].token # n
    /\ AppLeaves(n)

LoggedOut ==
    /\ \A c \in Calls : call[c].pc = "idle" /\ request[c].pc = "idle"
    /\ request["login"].pc \in {"touch", "ok"} => Fresh(request["login"].new)

RequestFine(c) ==
    /\ request[c].pc \in {"ip", "consume"} => request[c].sent = refresh
    /\ request[c].pc \in {"load", "ok"} => Fresh(request[c].new)
    /\ request[c].pc \notin {"refused", "failed", "user"}

CallFine(c) ==
    /\ call[c].pc # "unauthenticated"
    /\ call[c].retried => /\ call[c].pc # "expired"
                          /\ call[c].pc = "sent" => call[c].token \notin expired

LoggedIn ==
    /\ request["login"].pc = "idle"
    /\ refresh # NoToken /\ AppLeaves(refresh)
    /\ (\A c \in Calls : request[c].pc \in {"idle", "ip", "consume"}) => refresh \in store
    /\ \A c \in Calls : RequestFine(c) /\ CallFine(c)

Calm ==
    /\ \A c \in Calls : request[c].pc # "idle" => flight = c
    /\ \A c \in Calls : call[c].token \in 0..minted
    /\ ~disturbed => /\ account = "active"
                     /\ access = NoToken => LoggedOut
                     /\ access # NoToken => LoggedIn

-----------------------------------------------------------------------------
(* Frames.                                                                 *)

\* A request moves on without taking a token and without a new one.
LEMMA RequestStep ==
    ASSUME TypeOK, Spending, NEW s \in Slots, NEW r \in Requests,
           request' = [request EXCEPT ![s] = r],
           r.sent \in 0..minted, r.new \in 0..minted, s = "login" => r.sent = NoToken,
           r.pc = "create" => s = "login",
           minted' = minted, parent' = parent, store' \subseteq store
    PROVE  request' \in [Slots -> Requests] /\ Spending'
<1>1. request' \in [Slots -> Requests]
  BY DEF TypeOK
<1>2. \A q \in Slots : request'[q] = IF q = s THEN r ELSE request[q]
  BY DEF TypeOK
<1>3. "login" \in Slots
  BY DEF Slots
<1>4. \A q \in Slots : request'[q].pc = "create" => Taken(q)'
  BY <1>2, <1>3 DEF Spending, Taken, NoToken
<1>5. \A q \in Slots : request'[q].sent \in 0..minted' /\ request'[q].new \in 0..minted'
  BY <1>2 DEF Spending
<1>6. request'["login"].sent = NoToken
  BY <1>2, <1>3 DEF Spending
<1> QED
  BY <1>1, <1>4, <1>5, <1>6 DEF Spending, SpentOnce

\* Nothing happens to the tokens of the server.
LEMMA SameTokens ==
    ASSUME Spending, request' = request, minted' = minted, parent' = parent,
           store' \subseteq store
    PROVE  Spending'
  BY DEF Spending, Taken, SpentOnce

\* The request that To leaves behind.
LEMMA ToStep ==
    ASSUME TypeOK, Spending, NEW s \in Slots,
           NEW pc \in {"idle", "ip", "user", "consume", "create", "load", "touch",
                       "ok", "refused", "failed"},
           To(s, pc), pc = "create" => s = "login",
           minted' = minted, parent' = parent, store' \subseteq store
    PROVE  request' \in [Slots -> Requests] /\ Spending'
<1> DEFINE r == IF pc \in {"refused", "failed"} THEN [NoRequest EXCEPT !.pc = pc]
                                                ELSE [request[s] EXCEPT !.pc = pc]
<1>1. request[s] \in Requests /\ request[s].sent \in 0..minted /\ request[s].new \in 0..minted
      /\ (s = "login" => request[s].sent = NoToken) /\ minted \in 0..MaxTokens
  BY DEF TypeOK, Spending
<1>2. r \in Requests
  BY <1>1, AuthAssumption DEF Requests, NoRequest, NoToken
<1>3. /\ r.sent \in 0..minted /\ r.new \in 0..minted /\ (s = "login" => r.sent = NoToken)
      /\ r.pc = pc
  BY <1>1, AuthAssumption DEF Requests, NoRequest, NoToken
<1>4. request' = [request EXCEPT ![s] = r]
  BY DEF To, TypeOK
<1> HIDE DEF r
<1> QED
  BY <1>2, <1>3, <1>4, RequestStep

-----------------------------------------------------------------------------
(* Every step keeps the invariant.                                         *)

LEMMA InitHolds == ASSUME Init PROVE IInv
<1>1. TypeOK
  <2>1. 0 \in 0..MaxTokens /\ 0 \in 0..0 /\ \A k \in Keys : 0 <= Max(k) + 1
    BY AuthAssumption DEF Max
  <2>2. request \in [Slots -> Requests] /\ call \in [Calls -> CallStates]
    BY <2>1 DEF Init, Requests, NoRequest, CallStates, NoCall, NoToken
  <2> QED
    BY <2>1, <2>2 DEF Init, TypeOK, NoToken
<1>2. Spending
  BY AuthAssumption DEF Init, Spending, NoRequest, NoToken, Slots, SpentOnce
<1>3. CounterExpires
  BY DEF Init, CounterExpires
<1> QED
  BY <1>1, <1>2, <1>3 DEF IInv

\* The script counts up to one more than the limit and sets the TTL at once.
LEMMA Counts ==
    ASSUME TypeOK, CounterExpires, NEW k \in Keys, CountHit(k)
    PROVE  /\ hits' \in [Keys -> Nat] /\ \A j \in Keys : hits'[j] <= Max(j) + 1
           /\ armed' \in SUBSET Keys /\ CounterExpires'
<1>1. \A j \in Keys : hits[j] \in Nat /\ Max(j) \in Nat /\ hits[j] <= Max(j) + 1
  BY AuthAssumption DEF TypeOK, Max
<1>2. \A j \in Keys : hits'[j] = IF j = k THEN IF hits[k] > Max(k) THEN hits[k] ELSE hits[k] + 1
                                          ELSE hits[j]
  BY DEF CountHit, TypeOK
<1>3. hits' \in [Keys -> Nat]
  BY <1>1 DEF CountHit, TypeOK
<1>4. \A j \in Keys : hits'[j] <= Max(j) + 1
  BY <1>1, <1>2
<1>5. armed' \in SUBSET Keys /\ armed \subseteq armed' /\ (hits[k] = 0 => k \in armed')
  BY DEF CountHit, TypeOK
<1>6. CounterExpires'
  BY <1>1, <1>2, <1>5 DEF CounterExpires
<1> QED
  BY <1>3, <1>4, <1>5, <1>6

LEMMA Limits == ASSUME IInv, NEW s \in Slots, Limit(s) PROVE IInv'
<1>1. /\ account' = account /\ store' = store /\ minted' = minted /\ parent' = parent
      /\ expired' = expired /\ access' = access /\ refresh' = refresh /\ flight' = flight
      /\ call' = call
  BY DEF Limit, redisVars, siteVars
<1>2. KeyOf(s) \in Keys
  BY DEF KeyOf, Keys
<1>3. /\ hits' \in [Keys -> Nat] /\ \A k \in Keys : hits'[k] <= Max(k) + 1
      /\ armed' \in SUBSET Keys /\ CounterExpires'
  <2>1. CASE CountHit(KeyOf(s))
    BY <1>2, <2>1, Counts DEF IInv
  <2>2. CASE UNCHANGED limitVars
    BY <2>2 DEF IInv, TypeOK, CounterExpires, limitVars
  <2> QED
    BY <2>1, <2>2 DEF Limit
<1>4. disturbed' \in BOOLEAN
  BY DEF Limit, Disturb, IInv, TypeOK
<1>5. request' \in [Slots -> Requests] /\ Spending'
  <2>1. To(s, "failed") \/ To(s, Admitted(s))
    BY DEF Limit
  <2>2. Admitted(s) \in {"consume", "user", "load"}
    BY DEF Admitted
  <2> QED
    BY <1>1, <2>1, <2>2, ToStep DEF IInv
<1> QED
  BY <1>1, <1>3, <1>4, <1>5 DEF IInv, TypeOK

\* A step of one request that leaves the console and the limiter alone.
LEMMA ServerStep ==
    ASSUME IInv, account' \in {"active", "disabled", "deleted"},
           store' \in SUBSET (1..minted'), minted' \in minted..MaxTokens,
           expired' \in SUBSET (1..minted'), request' \in [Slots -> Requests],
           parent' \in [Tokens -> 0..MaxTokens], disturbed' \in BOOLEAN, Spending',
           UNCHANGED <<limitVars, siteVars>>
    PROVE  IInv'
<1>1. /\ hits' = hits /\ armed' = armed /\ access' = access /\ refresh' = refresh
      /\ flight' = flight /\ call' = call
  BY DEF limitVars, siteVars
<1>2. access \in 0..minted /\ refresh \in 0..minted /\ minted \in Nat /\ MaxTokens \in Nat
  BY AuthAssumption DEF IInv, TypeOK
<1>3. access' \in 0..minted' /\ refresh' \in 0..minted' /\ minted' \in 0..MaxTokens
  BY <1>1, <1>2
<1>4. CounterExpires'
  BY <1>1 DEF IInv, CounterExpires
<1> QED
  BY <1>1, <1>3, <1>4 DEF IInv, TypeOK

LEMMA Consumes == ASSUME IInv, NEW s \in Slots, Consume(s) PROVE IInv'
<1>1. /\ account' = account /\ minted' = minted /\ parent' = parent /\ expired' = expired
      /\ UNCHANGED <<limitVars, siteVars>> /\ disturbed' = disturbed
      /\ store' = store \ {request[s].sent} /\ request[s].pc = "consume"
  BY DEF Consume
<1>2. request' \in [Slots -> Requests] /\ Spending'
  <2>1. CASE request[s].sent \notin store
    <3>1. To(s, "refused")
      BY <2>1 DEF Consume
    <3> QED
      BY <1>1, <3>1, ToStep DEF IInv
  <2>2. CASE request[s].sent \in store
    <3>1. To(s, "create") /\ request[s] \in Requests
      BY <2>2 DEF Consume, IInv, TypeOK
    <3>2. /\ request' = [request EXCEPT ![s].pc = "create"] /\ request' \in [Slots -> Requests]
      BY <3>1 DEF To, IInv, TypeOK, Requests
    <3>3. \A q \in Slots : /\ request'[q].sent = request[q].sent /\ request'[q].new = request[q].new
                           /\ request'[q].pc = IF q = s THEN "create" ELSE request[q].pc
      BY <3>2 DEF IInv, TypeOK, Requests
    <3>4. \A q \in Slots : request'[q].pc = "create" => Taken(q)'
      <4> SUFFICES ASSUME NEW q \in Slots, request'[q].pc = "create", request[q].sent # NoToken
                   PROVE  /\ request[q].sent \notin store'
                          /\ \A u \in Tokens : parent[u] # request[q].sent
                          /\ \A r \in Slots \ {q} : request'[r].pc = "create"
                                                     => request[r].sent # request[q].sent
        BY <1>1, <3>3 DEF Taken
      <4>1. CASE q = s
        BY <1>1, <2>2, <3>3, <4>1 DEF IInv, Spending, Taken
      <4>2. CASE q # s
        BY <1>1, <2>2, <3>3, <4>2 DEF IInv, Spending, Taken
      <4> QED
        BY <4>1, <4>2
    <3>5. "login" \in Slots
      BY DEF Slots
    <3> QED
      BY <1>1, <3>2, <3>3, <3>4, <3>5 DEF IInv, Spending, SpentOnce
  <2> QED
    BY <2>1, <2>2
<1>3. store' \in SUBSET (1..minted') /\ minted' \in minted..MaxTokens
  <2>1. store' \subseteq store
    BY <1>1
  <2>2. store \in SUBSET (1..minted)
    BY DEF IInv, TypeOK
  <2>3. minted \in minted..MaxTokens
    BY AuthAssumption DEF IInv, TypeOK
  <2> QED
    BY <1>1, <2>1, <2>2, <2>3
<1> QED
  BY <1>1, <1>2, <1>3, ServerStep DEF IInv, TypeOK

LEMMA Creates == ASSUME IInv, NEW s \in Slots, Create(s) PROVE IInv'
<1> DEFINE n == minted + 1
           r == [pc |-> IF s = "login" THEN "touch" ELSE "load", sent |-> NoToken, new |-> n]
           t == request[s].sent
<1>1. /\ account' = account /\ expired' = expired /\ UNCHANGED <<limitVars, siteVars>>
      /\ disturbed' = disturbed /\ request[s].pc = "create"
      /\ minted' = n /\ store' = store \cup {n}
      /\ parent' = [parent EXCEPT ![n] = t]
      /\ request' = [request EXCEPT ![s] = r]
  BY DEF Create
<1>2. /\ minted \in Nat /\ n \in Tokens /\ n \in 1..MaxTokens /\ n # NoToken
      /\ t \in 0..minted /\ MaxTokens \in Nat /\ Taken(s)
  BY AuthAssumption, <1>1 DEF IInv, TypeOK, Create, Spending, Tokens, NoToken
<1>3. r \in Requests /\ r.sent = NoToken /\ r.new = n /\ r.pc # "create"
  BY <1>2 DEF Requests, NoToken
<1> HIDE DEF r
<1>4. \A q \in Slots : request'[q] = IF q = s THEN r ELSE request[q]
  BY <1>1 DEF IInv, TypeOK
<1>5. \A u \in Tokens : parent'[u] = IF u = n THEN t ELSE parent[u]
  BY <1>1, <1>2 DEF IInv, TypeOK
<1>6. \A u \in Tokens : parent[u] # n /\ parent[u] \in 0..n
  BY <1>2 DEF IInv, Spending
<1>7. \A q \in Slots : request[q].sent # n /\ request[q].sent \in 0..n /\ request[q].new \in 0..n
  BY <1>2 DEF IInv, Spending
<1>8. store' \in SUBSET (1..n) /\ expired' \in SUBSET (1..n) /\ n \in minted..MaxTokens
  BY <1>1, <1>2 DEF IInv, TypeOK
<1>9. request' \in [Slots -> Requests] /\ parent' \in [Tokens -> 0..MaxTokens]
  BY <1>1, <1>2, <1>3 DEF IInv, TypeOK
<1>10. \A q \in Slots : request'[q].sent \in 0..n /\ request'[q].new \in 0..n
  BY <1>2, <1>3, <1>4, <1>7 DEF NoToken
<1>11. request'["login"].sent = NoToken
  BY <1>3, <1>4 DEF IInv, Spending, Slots
<1>12. \A u \in Tokens : parent'[u] \in 0..n
  BY <1>2, <1>5, <1>6
<1>13. \A o \in store' : \A u \in Tokens : parent'[u] # o
  <2> SUFFICES ASSUME NEW o \in store', NEW u \in Tokens, parent'[u] = o PROVE FALSE
    OBVIOUS
  <2>1. o # NoToken
    BY <1>8 DEF NoToken
  <2>2. CASE u = n
    <3>1. o = t /\ t # n
      BY <1>2, <1>5, <2>2
    <3> QED
      BY <1>1, <1>2, <2>1, <3>1 DEF Taken
  <2>3. CASE u # n
    <3>1. o \in store
      BY <1>1, <1>5, <1>6, <2>3
    <3> QED
      BY <1>5, <2>3, <3>1 DEF IInv, Spending
  <2> QED
    BY <2>2, <2>3
<1>14. \A q \in Slots : request'[q].pc = "create" => Taken(q)'
  <2> SUFFICES ASSUME NEW q \in Slots, request'[q].pc = "create", request'[q].sent # NoToken
               PROVE  /\ request'[q].sent \notin store'
                      /\ \A u \in Tokens : parent'[u] # request'[q].sent
                      /\ \A o \in Slots \ {q} : request'[o].pc = "create"
                                                 => request'[o].sent # request'[q].sent
    BY DEF Taken
  <2>1. q # s /\ request'[q] = request[q] /\ Taken(q)
    BY <1>3, <1>4 DEF IInv, Spending
  <2>2. t # request[q].sent
    BY <1>1, <2>1 DEF Taken
  <2> QED
    BY <1>1, <1>3, <1>4, <1>5, <1>7, <2>1, <2>2 DEF Taken
<1>15. SpentOnce'
  <2> SUFFICES ASSUME NEW u \in Tokens, NEW v \in Tokens, parent'[u] = parent'[v],
                      parent'[u] # NoToken
               PROVE  u = v
    BY DEF SpentOnce
  <2>1. t # NoToken => \A w \in Tokens : parent[w] # t
    BY <1>2 DEF Taken
  <2> QED
    BY <1>5, <2>1 DEF IInv, Spending, SpentOnce
<1>16. Spending'
  BY <1>1, <1>10, <1>11, <1>12, <1>13, <1>14, <1>15 DEF Spending
<1> HIDE DEF n
<1> QED
  BY <1>1, <1>8, <1>9, <1>16, ServerStep DEF IInv, TypeOK

LEMMA Answers ==
    ASSUME IInv, NEW s \in Slots,
           Refresh(s) \/ CommandFails(s) \/ AnswerLost(s)
    PROVE  IInv'
<1>1. /\ account' = account /\ minted' = minted /\ parent' = parent /\ expired' = expired
      /\ UNCHANGED <<limitVars, siteVars>> /\ store' \subseteq store
      /\ To(s, "ok") \/ To(s, "refused") \/ To(s, "failed")
  BY DEF Refresh, CommandFails, AnswerLost, redisVars
<1>2. disturbed' \in BOOLEAN
  BY DEF Refresh, CommandFails, AnswerLost, Disturb, IInv, TypeOK
<1>3. request' \in [Slots -> Requests] /\ Spending'
  BY <1>1, ToStep DEF IInv
<1> QED
  BY <1>1, <1>2, <1>3, ServerStep DEF IInv, TypeOK

LEMMA LogsIn == ASSUME IInv, CheckPassword \/ TouchLastLogin PROVE IInv'
<1>1. /\ account' = account /\ store' = store /\ minted' = minted /\ parent' = parent
      /\ expired' = expired /\ UNCHANGED <<limitVars, siteVars>>
      /\ To("login", "create") \/ To("login", "refused") \/ To("login", "ok")
  BY DEF CheckPassword, TouchLastLogin, redisVars
<1>2. disturbed' \in BOOLEAN
  BY DEF CheckPassword, TouchLastLogin, Disturb, IInv, TypeOK
<1>3. "login" \in Slots
  BY DEF Slots
<1>4. request' \in [Slots -> Requests] /\ Spending'
  BY <1>1, <1>3, ToStep DEF IInv
<1> QED
  BY <1>1, <1>2, <1>4, ServerStep DEF IInv, TypeOK

LEMMA Times ==
    ASSUME IInv, \/ (\E active \in BOOLEAN : UpdateUser(active)) \/ DeleteUser
                 \/ \E t \in 1..minted : Expire(t) \/ RefreshTokenEnds(t)
    PROVE  IInv'
<1>1. /\ minted' = minted /\ parent' = parent /\ request' = request
      /\ UNCHANGED <<limitVars, siteVars>> /\ store' \subseteq store
      /\ account' \in {"active", "disabled", "deleted"}
  BY DEF UpdateUser, DeleteUser, SetAccount, Expire, RefreshTokenEnds, redisVars, IInv, TypeOK
<1>2. expired' \in SUBSET (1..minted)
  BY DEF UpdateUser, DeleteUser, SetAccount, Expire, RefreshTokenEnds, IInv, TypeOK
<1>3. disturbed' \in BOOLEAN
  BY DEF UpdateUser, DeleteUser, SetAccount, Expire, RefreshTokenEnds, Disturb, IInv, TypeOK
<1>4. Spending'
  BY <1>1, SameTokens DEF IInv
<1>5. store' \in SUBSET (1..minted') /\ minted' \in minted..MaxTokens
  BY <1>1, AuthAssumption DEF IInv, TypeOK
<1> QED
  BY <1>1, <1>2, <1>3, <1>4, <1>5, ServerStep DEF IInv, TypeOK

LEMMA WindowsEnd == ASSUME IInv, NEW k \in Keys, WindowEnds(k) PROVE IInv'
<1>1. /\ account' = account /\ store' = store /\ minted' = minted /\ parent' = parent
      /\ expired' = expired /\ request' = request /\ access' = access /\ refresh' = refresh
      /\ flight' = flight /\ call' = call /\ disturbed' = disturbed
      /\ hits' = [hits EXCEPT ![k] = 0] /\ armed' = armed \ {k}
  BY DEF WindowEnds, redisVars, siteVars
<1>2. \A j \in Keys : hits'[j] = IF j = k THEN 0 ELSE hits[j]
  BY <1>1 DEF IInv, TypeOK
<1>3. hits' \in [Keys -> Nat] /\ \A j \in Keys : hits'[j] <= Max(j) + 1
  BY <1>1, <1>2, AuthAssumption DEF IInv, TypeOK, Max
<1>4. CounterExpires'
  BY <1>1, <1>2 DEF IInv, CounterExpires
<1>5. Spending'
  BY <1>1, SameTokens DEF IInv
<1> QED
  BY <1>1, <1>3, <1>4, <1>5 DEF IInv, TypeOK

\* A step of the console: the tokens it takes are tokens it was sent.
LEMMA ConsoleStep ==
    ASSUME IInv, access' \in 0..minted, refresh' \in 0..minted,
           flight' \in Calls \cup {NoSlot}, call' \in [Calls -> CallStates],
           request' \in [Slots -> Requests], disturbed' \in BOOLEAN, Spending',
           UNCHANGED <<account, redisVars, expired, limitVars>>
    PROVE  IInv'
<1>1. /\ account' = account /\ store' = store /\ minted' = minted /\ parent' = parent
      /\ expired' = expired /\ hits' = hits /\ armed' = armed
  BY DEF redisVars, limitVars
<1>2. CounterExpires'
  BY <1>1 DEF IInv, CounterExpires
<1> QED
  BY <1>1, <1>2 DEF IInv, TypeOK

LEMMA ConsoleRequests ==
    ASSUME IInv, \/ Login \/ LoginSettles \/ AppSettles
                 \/ \E t \in 1..minted : AppRefreshes(t)
    PROVE  IInv'
<1>1. /\ UNCHANGED <<account, redisVars, expired, limitVars>>
      /\ flight' = flight /\ call' = call /\ store' = store /\ minted' = minted /\ parent' = parent
  BY DEF Login, LoginSettles, AppSettles, AppRefreshes, siteVars, redisVars
<1>2. "login" \in Slots /\ "app" \in Slots /\ "login" # "app" /\ 0 \in 0..minted
  BY AuthAssumption DEF Slots, IInv, TypeOK
<1>3. disturbed' \in BOOLEAN
  BY DEF Login, LoginSettles, AppSettles, AppRefreshes, Disturb, IInv, TypeOK
<1>4. access' \in 0..minted /\ refresh' \in 0..minted
  <2>1. request["login"].new \in 0..minted
    BY <1>2 DEF IInv, Spending
  <2> QED
    BY <1>2, <2>1 DEF Login, LoginSettles, AppSettles, AppRefreshes, siteVars, setTokens, reset,
                      NoToken, IInv, TypeOK
<1>5. NoRequest \in Requests /\ NoRequest.sent = 0 /\ NoRequest.new = 0 /\ NoRequest.pc = "idle"
  BY AuthAssumption DEF NoRequest, Requests, NoToken
<1>6. request' \in [Slots -> Requests] /\ Spending'
  <2>1. CASE LoginSettles \/ AppSettles
    <3>1. \E s \in {"login", "app"} : request' = [request EXCEPT ![s] = NoRequest]
      BY <2>1 DEF LoginSettles, AppSettles
    <3> QED
      BY <1>1, <1>2, <1>5, <3>1, RequestStep DEF IInv, NoToken
  <2>2. CASE Login
    <3> DEFINE r == [request["login"] EXCEPT !.pc = "ip"]
    <3>1. request["login"] \in Requests /\ request["login"].sent \in 0..minted
          /\ request["login"].new \in 0..minted /\ request["login"].sent = NoToken
      BY <1>2 DEF IInv, TypeOK, Spending
    <3>2. r \in Requests /\ r.pc = "ip" /\ r.sent = request["login"].sent
          /\ r.new = request["login"].new
      BY <3>1 DEF Requests
    <3>3. request' = [request EXCEPT !["login"] = r]
      BY <2>2 DEF Login
    <3> HIDE DEF r
    <3> QED
      BY <1>1, <1>2, <3>1, <3>2, <3>3, RequestStep DEF IInv
  <2>3. ASSUME NEW t \in 1..minted, AppRefreshes(t) PROVE request' \in [Slots -> Requests] /\ Spending'
    <3> DEFINE r == [pc |-> "ip", sent |-> t, new |-> NoToken]
    <3>1. t \in 0..minted /\ t \in 0..MaxTokens /\ 0 \in 0..MaxTokens
      BY AuthAssumption DEF IInv, TypeOK
    <3>2. r \in Requests /\ r.pc = "ip" /\ r.sent = t /\ r.new = 0
      BY <3>1 DEF Requests, NoToken
    <3>3. request' = [request EXCEPT !["app"] = r]
      BY <2>3 DEF AppRefreshes
    <3> HIDE DEF r
    <3> QED
      BY <1>1, <1>2, <3>1, <3>2, <3>3, RequestStep DEF IInv
  <2> QED
    BY <2>1, <2>2, <2>3
<1> QED
  BY <1>1, <1>3, <1>4, <1>6, ConsoleStep DEF IInv, TypeOK

LEMMA Reloads == ASSUME IInv, Reload PROVE IInv'
<1>1. /\ UNCHANGED <<account, redisVars, expired, limitVars>> /\ access' = access
      /\ store' = store /\ minted' = minted /\ parent' = parent
      /\ refresh' = NoToken /\ flight' = NoSlot /\ call' = [c \in Calls |-> NoCall]
      /\ request' = [s \in Slots |-> IF s = "app" THEN request[s] ELSE NoRequest]
      /\ disturbed' \in BOOLEAN
  BY DEF Reload, redisVars, Disturb, IInv, TypeOK
<1>2. /\ NoRequest \in Requests /\ NoRequest.sent = 0 /\ NoRequest.new = 0
      /\ NoRequest.pc = "idle" /\ NoCall \in CallStates /\ 0 \in 0..minted
  BY AuthAssumption DEF NoRequest, Requests, NoToken, NoCall, CallStates, IInv, TypeOK
<1>3. \A s \in Slots : request'[s] = request[s] \/ request'[s] = NoRequest
  BY <1>1
<1>4. request' \in [Slots -> Requests]
  BY <1>1, <1>2 DEF IInv, TypeOK
<1>5. "login" \in Slots /\ request'["login"] = NoRequest
  BY <1>1 DEF Slots
<1>6. Spending'
  <2>1. \A s \in Slots : request'[s].pc = "create" => Taken(s)'
    BY <1>1, <1>2, <1>3 DEF IInv, Spending, Taken
  <2> QED
    BY <1>1, <1>2, <1>3, <1>5, <2>1 DEF IInv, Spending, SpentOnce, NoToken
<1> QED
  BY <1>1, <1>2, <1>4, <1>6, ConsoleStep DEF IInv, TypeOK, NoToken

LEMMA CallSteps ==
    ASSUME IInv, NEW c \in Calls, Call(c) \/ Authn(c) \/ CallEnds(c) \/ OnUnauthenticated(c)
    PROVE  IInv'
<1>1. /\ UNCHANGED <<account, redisVars, expired, limitVars>> /\ flight' = flight
      /\ request' = request /\ store' = store /\ minted' = minted /\ parent' = parent
  BY DEF Call, Authn, CallEnds, OnUnauthenticated, redisVars
<1>2. /\ access' \in 0..minted /\ refresh' \in 0..minted /\ disturbed' \in BOOLEAN
  <2>1. access' \in {access, NoToken} /\ refresh' \in {refresh, NoToken}
    BY DEF Call, Authn, CallEnds, OnUnauthenticated, reset
  <2>2. disturbed' \in BOOLEAN
    BY DEF Call, Authn, CallEnds, OnUnauthenticated, Disturb, IInv, TypeOK
  <2>3. 0 \in 0..minted
    BY DEF IInv, TypeOK
  <2> QED
    BY <2>1, <2>2, <2>3 DEF NoToken, IInv, TypeOK
<1>3. call' \in [Calls -> CallStates]
  <2>1. /\ access \in 0..MaxTokens /\ 0 \in 0..MaxTokens /\ call[c] \in CallStates
        /\ NoCall \in CallStates
    BY AuthAssumption DEF IInv, TypeOK, NoCall, CallStates, NoToken
  <2>2. [pc |-> "sent", token |-> access, retried |-> FALSE] \in CallStates
    BY <2>1 DEF CallStates
  <2>3. \A pc \in {"expired", "unauthenticated"} :
            [call[c] EXCEPT !.pc = pc, !.token = NoToken] \in CallStates
    BY <2>1 DEF CallStates, NoToken
  <2>4. ASSUME NEW x \in CallStates, call' = [call EXCEPT ![c] = x] PROVE call' \in [Calls -> CallStates]
    BY <2>4 DEF IInv, TypeOK
  <2>5. \E x \in CallStates : call' = [call EXCEPT ![c] = x]
    <3>1. CASE Authn(c)
      <4>1. PICK pc \in {"expired", "unauthenticated"} : Answer(c, pc)
        BY <3>1 DEF Authn
      <4> QED
        BY <2>3, <4>1 DEF Answer, IInv, TypeOK
    <3> QED
      BY <2>1, <2>2, <3>1 DEF Call, CallEnds, OnUnauthenticated
  <2> QED
    BY <2>4, <2>5
<1>4. Spending'
  BY <1>1, SameTokens DEF IInv
<1> QED
  BY <1>1, <1>2, <1>3, <1>4, ConsoleStep DEF IInv, TypeOK

LEMMA Expires == ASSUME IInv, NEW c \in Calls, OnExpired(c) PROVE IInv'
<1>1. /\ UNCHANGED <<account, redisVars, expired, limitVars>> /\ disturbed' = disturbed
      /\ store' = store /\ minted' = minted /\ parent' = parent
  BY DEF OnExpired, redisVars
<1>2. /\ access' \in 0..minted /\ refresh' \in 0..minted /\ flight' \in Calls \cup {NoSlot}
  BY AuthAssumption DEF OnExpired, reset, NoToken, IInv, TypeOK
<1>3. call' \in [Calls -> CallStates]
  <2>1. 0 \in 0..MaxTokens /\ call[c] \in CallStates /\ NoCall \in CallStates
    BY AuthAssumption DEF IInv, TypeOK, NoCall, CallStates, NoToken
  <2>2. [call[c] EXCEPT !.pc = "waiting", !.token = NoToken] \in CallStates
    BY <2>1 DEF CallStates, NoToken
  <2>3. \/ call' = [call EXCEPT ![c] = NoCall]
        \/ call' = [call EXCEPT ![c] = [call[c] EXCEPT !.pc = "waiting", !.token = NoToken]]
    <3>1. CASE Answer(c, "waiting")
      BY <3>1 DEF Answer, IInv, TypeOK
    <3> QED
      BY <3>1 DEF OnExpired
  <2> QED
    BY <2>1, <2>2, <2>3 DEF IInv, TypeOK
<1>4. request' \in [Slots -> Requests] /\ Spending'
  <2>1. CASE request' = request
    BY <1>1, <2>1, SameTokens DEF IInv, TypeOK
  <2>2. CASE request' = [request EXCEPT ![c] = [pc |-> "ip", sent |-> refresh, new |-> NoToken]]
    <3>1. /\ refresh \in 0..minted /\ refresh \in 0..MaxTokens /\ 0 \in 0..MaxTokens
          /\ c \in Slots /\ c # "login" /\ 0 \in 0..minted
      BY AuthAssumption DEF IInv, TypeOK, Slots
    <3>2. [pc |-> "ip", sent |-> refresh, new |-> NoToken] \in Requests
      BY <3>1 DEF Requests, NoToken
    <3> QED
      BY <1>1, <2>2, <3>1, <3>2, RequestStep DEF IInv, NoToken
  <2> QED
    BY <2>1, <2>2 DEF OnExpired
<1> QED
  BY <1>1, <1>2, <1>3, <1>4, ConsoleStep DEF IInv, TypeOK

LEMMA RefreshEnds == ASSUME IInv, NEW c \in Calls, RefreshSettles(c) PROVE IInv'
<1>1. /\ UNCHANGED <<account, redisVars, expired, limitVars>> /\ disturbed' = disturbed
      /\ flight' = NoSlot /\ store' = store /\ minted' = minted /\ parent' = parent
      /\ request' = [request EXCEPT ![c] = NoRequest]
  BY DEF RefreshSettles, redisVars
<1>2. /\ c \in Slots /\ request[c] \in Requests /\ request[c].new \in 0..minted
      /\ request[c].new \in 0..MaxTokens /\ 0 \in 0..minted
  BY AuthAssumption DEF IInv, TypeOK, Spending, Slots
<1>3. access' \in 0..minted /\ refresh' \in 0..minted
  BY <1>2 DEF RefreshSettles, setTokens, reset, NoToken, IInv, TypeOK
<1>4. call' \in [Calls -> CallStates]
  <2>1. \A d \in Calls : /\ call[d] \in CallStates /\ NoCall \in CallStates
                         /\ [call[d] EXCEPT !.pc = "sent", !.retried = TRUE,
                                             !.token = request[c].new] \in CallStates
    <3>1. NoCall \in CallStates
      BY AuthAssumption DEF CallStates, NoCall, NoToken
    <3>2. ASSUME NEW d \in Calls
          PROVE  [call[d] EXCEPT !.pc = "sent", !.retried = TRUE,
                                 !.token = request[c].new] \in CallStates
      BY <1>2 DEF IInv, TypeOK, CallStates
    <3> QED
      BY <3>1, <3>2 DEF IInv, TypeOK
  <2> QED
    BY <2>1 DEF RefreshSettles
<1>5. NoRequest \in Requests /\ NoRequest.sent = 0 /\ NoRequest.new = 0 /\ NoRequest.pc = "idle"
  BY AuthAssumption DEF NoRequest, Requests, NoToken
<1>6. request' \in [Slots -> Requests] /\ Spending'
  BY <1>1, <1>2, <1>5, RequestStep DEF IInv, NoToken
<1> QED
  BY <1>1, <1>3, <1>4, <1>6, ConsoleStep DEF IInv, TypeOK

LEMMA NextKeeps == ASSUME IInv, [Next]_vars PROVE IInv'
<1>1. CASE UNCHANGED vars
  <2>1. /\ UNCHANGED <<account, redisVars, expired, limitVars>> /\ request' = request
        /\ access' = access /\ refresh' = refresh /\ flight' = flight /\ call' = call
        /\ disturbed' = disturbed /\ minted' = minted /\ parent' = parent /\ store' = store
    BY <1>1 DEF vars, redisVars, limitVars
  <2>2. Spending'
    BY <2>1, SameTokens DEF IInv
  <2> QED
    BY <2>1, <2>2, ConsoleStep DEF IInv, TypeOK
<1>2. ASSUME NEW s \in Slots, \/ Limit(s) \/ Consume(s) \/ Create(s) \/ Refresh(s)
                              \/ CommandFails(s) \/ AnswerLost(s)
      PROVE IInv'
  BY <1>2, Limits, Consumes, Creates, Answers
<1>3. ASSUME NEW c \in Calls, \/ Call(c) \/ Authn(c) \/ CallEnds(c) \/ OnExpired(c)
                              \/ OnUnauthenticated(c) \/ RefreshSettles(c)
      PROVE IInv'
  BY <1>3, CallSteps, Expires, RefreshEnds
<1> QED
  BY <1>1, <1>2, <1>3, LogsIn, Times, WindowsEnd, ConsoleRequests, Reloads DEF Next

-----------------------------------------------------------------------------
(* The theorems.                                                           *)

\* The inductive invariant holds in every reachable state.
THEOREM Inductive == Spec => []IInv
<1>1. Init => IInv
  BY InitHolds
<1>2. IInv /\ [Next]_vars => IInv'
  BY NextKeeps
<1> QED
  BY <1>1, <1>2, PTL DEF Spec

\* Every variable stays in its type.
THEOREM TypeCorrect == Spec => []TypeOK
<1>1. IInv => TypeOK
  BY DEF IInv
<1> QED
  BY <1>1, Inductive, PTL

\* A refresh token is exchanged for one other, however many requests carry it
\* at once and whatever fails between GETDEL and SET (RefreshStore.Rotate).
THEOREM SpentSafe == Spec => []SpentOnce
<1>1. IInv => SpentOnce
  BY DEF IInv, Spending
<1> QED
  BY <1>1, Inductive, PTL

\* A counter of the limiter that is above zero has a TTL (fixedWindowScript).
THEOREM CountersExpire == Spec => []CounterExpires
<1>1. IInv => CounterExpires
  BY DEF IInv
<1> QED
  BY <1>1, Inductive, PTL

-----------------------------------------------------------------------------
(* An undisturbed session goes on.                                         *)

Undisturbed == account = "active" /\ (access = NoToken => LoggedOut)
                                  /\ (access # NoToken => LoggedIn)

\* Nothing ends a session without a disturbance.
Stays == access # NoToken /\ access' = NoToken => disturbed'

LEMMA CallsAreSlots ==
    /\ Calls \subseteq Slots /\ "login" \in Slots /\ "app" \in Slots /\ NoSlot \notin Calls
    /\ "login" \notin Calls /\ "app" \notin Calls /\ "app" # "login"
  BY AuthAssumption DEF Slots, NoSlot

\* A step on the server side: what matters of it to an undisturbed session.
LEMMA ServerCalm ==
    ASSUME IInv, Calm, UNCHANGED siteVars, minted' \in Nat, minted <= minted',
           \A c \in Calls : request'[c].pc # "idle" => request[c].pc # "idle",
           ~disturbed' => ~disturbed /\ Undisturbed'
    PROVE  Calm' /\ Stays
<1>1. access' = access /\ refresh' = refresh /\ flight' = flight /\ call' = call
  BY DEF siteVars
<1>2. minted \in Nat
  BY AuthAssumption DEF IInv, TypeOK
<1>3. \A c \in Calls : call'[c].token \in 0..minted'
  BY <1>1, <1>2 DEF Calm
<1> QED
  BY <1>1, <1>3 DEF Calm, Undisturbed, Stays

\* The pc of the request that moves, and the fields it keeps.
LEMMA ToIs ==
    ASSUME TypeOK, NEW s \in Slots, NEW pc, To(s, pc)
    PROVE  /\ \A q \in Slots \ {s} : request'[q] = request[q]
           /\ request'[s].pc = pc
           /\ pc \notin {"refused", "failed"} =>
                 request'[s].sent = request[s].sent /\ request'[s].new = request[s].new
  BY DEF To, TypeOK, Requests, NoRequest

LEMMA LimitCalm == ASSUME IInv, Calm, NEW s \in Slots, Limit(s) PROVE Calm' /\ Stays
<1>1. /\ request[s].pc \in {"ip", "user"} /\ account' = account /\ store' = store
      /\ minted' = minted /\ expired' = expired /\ UNCHANGED siteVars
      /\ minted \in Nat
  BY DEF Limit, redisVars, IInv, TypeOK
<1>2. /\ access' = access /\ refresh' = refresh /\ flight' = flight /\ call' = call
  BY <1>1 DEF siteVars
<1>3. \/ disturbed' /\ To(s, "failed")
      \/ disturbed' = disturbed /\ To(s, Admitted(s))
  BY DEF Limit, Disturb
<1>4. \A q \in Slots \ {s} : request'[q] = request[q]
  BY <1>3, ToIs DEF IInv
<1>5. ASSUME ~disturbed' PROVE ~disturbed /\ Undisturbed'
  <2>1. ~disturbed /\ To(s, Admitted(s))
    BY <1>3, <1>5
  <2>2. /\ request'[s].pc = Admitted(s) /\ Admitted(s) \notin {"refused", "failed"}
        /\ request'[s].sent = request[s].sent /\ request'[s].new = request[s].new
        /\ Admitted(s) \in {"consume", "user", "load"}
        /\ s # "login" => Admitted(s) = "consume"
        /\ s = "login" => Admitted(s) \in {"user", "load"}
    BY <2>1, ToIs DEF IInv, Admitted
  <2>3. \A n : Fresh(n) => Fresh(n)'
    BY <1>1, <1>2, <1>4, <2>2, CallsAreSlots DEF Fresh, AppLeaves
  <2>4. account = "active" /\ (access = NoToken => LoggedOut) /\ (access # NoToken => LoggedIn)
    BY <2>1 DEF Calm
  <2>5. CASE access = NoToken
    <3>1. s \notin Calls
      BY <1>1, <2>4, <2>5 DEF LoggedOut
    <3>2. LoggedOut'
      BY <1>2, <1>4, <2>2, <2>3, <2>4, <2>5, <3>1, CallsAreSlots DEF LoggedOut
    <3> QED
      BY <1>1, <1>2, <2>1, <2>4, <2>5, <3>2 DEF Undisturbed
  <2>6. CASE access # NoToken
    <3>1. s # "login" /\ request'["login"] = request["login"]
      BY <1>1, <1>4, <2>4, <2>6, CallsAreSlots DEF LoggedIn
    <3>2. request[s].pc = "ip" \/ s \notin Calls
      BY <1>1, <2>4, <2>6 DEF LoggedIn, RequestFine
    <3>3. \A c \in Calls : RequestFine(c)'
      BY <1>2, <1>4, <2>2, <2>3, <2>4, <2>6, <3>1, <3>2, CallsAreSlots DEF LoggedIn, RequestFine
    <3>4. \A c \in Calls : CallFine(c)'
      BY <1>1, <1>2, <2>4, <2>6 DEF LoggedIn, CallFine
    <3>5. AppLeaves(refresh)'
      BY <1>1, <1>2, <1>4, <2>2, <2>4, <2>6, <3>1, CallsAreSlots DEF LoggedIn, AppLeaves
    <3>6. (\A c \in Calls : request'[c].pc \in {"idle", "ip", "consume"}) => refresh \in store
      BY <1>4, <2>4, <2>6, <3>2, CallsAreSlots DEF LoggedIn
    <3>7. LoggedIn'
      BY <1>1, <1>2, <2>4, <2>6, <3>1, <3>3, <3>4, <3>5, <3>6 DEF LoggedIn
    <3> QED
      BY <1>1, <1>2, <2>1, <2>4, <2>6, <3>7 DEF Undisturbed
  <2> QED
    BY <2>5, <2>6
<1>6. \A c \in Calls : request'[c].pc # "idle" => request[c].pc # "idle"
  BY <1>1, <1>4, CallsAreSlots
<1> QED
  BY <1>1, <1>5, <1>6, ServerCalm

LEMMA ConsumeCalm == ASSUME IInv, Calm, NEW s \in Slots, Consume(s) PROVE Calm' /\ Stays
<1> DEFINE t == request[s].sent
<1>1. /\ request[s].pc = "consume" /\ account' = account /\ store' = store \ {t}
      /\ minted' = minted /\ expired' = expired /\ UNCHANGED siteVars
      /\ disturbed' = disturbed /\ minted \in Nat
      /\ To(s, IF t \in store THEN "create" ELSE "refused")
  BY DEF Consume, redisVars, IInv, TypeOK
<1>2. /\ access' = access /\ refresh' = refresh /\ flight' = flight /\ call' = call
  BY <1>1 DEF siteVars
<1>3. /\ \A q \in Slots \ {s} : request'[q] = request[q]
      /\ request'[s].pc = IF t \in store THEN "create" ELSE "refused"
  BY <1>1, ToIs DEF IInv
<1>4. ASSUME ~disturbed PROVE Undisturbed'
  <2>1. account = "active" /\ (access = NoToken => LoggedOut) /\ (access # NoToken => LoggedIn)
    BY <1>4 DEF Calm
  <2>2. \A n : Fresh(n) /\ n # t => Fresh(n)'
    BY <1>1, <1>2, <1>3, CallsAreSlots DEF Fresh, AppLeaves
  <2>3. \A n : Fresh(n) /\ s = "app" => n # t
    BY <1>1 DEF Fresh, AppLeaves
  <2>4. \A n : Fresh(n) /\ s = "login" => n # t
    BY <1>1 DEF Fresh, IInv, Spending
  <2>5. CASE access = NoToken
    <3>1. s \notin Calls
      BY <1>1, <2>1, <2>5 DEF LoggedOut
    <3>2. s = "login" \/ s = "app"
      BY <3>1 DEF Slots
    <3>3. request'["login"].pc \in {"touch", "ok"} => Fresh(request["login"].new)'
      BY <1>3, <2>1, <2>2, <2>3, <2>4, <2>5, <3>2, CallsAreSlots DEF LoggedOut
    <3>4. request'["login"].pc \in {"touch", "ok"} => request'["login"] = request["login"]
      BY <1>3, CallsAreSlots
    <3>5. LoggedOut'
      BY <1>2, <1>3, <2>1, <2>5, <3>1, <3>3, <3>4, CallsAreSlots DEF LoggedOut
    <3> QED
      BY <1>1, <1>2, <2>1, <2>5, <3>5 DEF Undisturbed
  <2>6. CASE access # NoToken
    <3>1. s # "login" /\ request'["login"] = request["login"]
      BY <1>1, <1>3, <2>1, <2>6, CallsAreSlots DEF LoggedIn
    <3>2. \A c \in Calls : CallFine(c)'
      BY <1>1, <1>2, <2>1, <2>6 DEF LoggedIn, CallFine
    <3>3. AppLeaves(refresh)'
      BY <1>2, <1>3, <2>1, <2>6, CallsAreSlots DEF LoggedIn, AppLeaves
    <3>4. CASE s = "app"
      <4>1. \A c \in Calls : RequestFine(c)'
        BY <1>2, <1>3, <2>1, <2>2, <2>3, <2>6, <3>4, CallsAreSlots DEF LoggedIn, RequestFine
      <4>2. refresh # t
        BY <1>1, <2>1, <2>6, <3>4 DEF LoggedIn, AppLeaves
      <4>3. (\A c \in Calls : request'[c].pc \in {"idle", "ip", "consume"}) => refresh \in store'
        BY <1>1, <1>3, <2>1, <2>6, <3>4, <4>2, CallsAreSlots DEF LoggedIn
      <4> QED
        BY <1>1, <1>2, <2>1, <2>6, <3>1, <3>2, <3>3, <4>1, <4>3 DEF LoggedIn, Undisturbed
    <3>5. CASE s \in Calls
      <4>1. \A c \in Calls \ {s} : request[c].pc = "idle"
        BY <1>1, <3>5 DEF Calm
      <4>2. t = refresh
        BY <1>1, <2>1, <2>6, <3>5 DEF LoggedIn, RequestFine
      <4>3. refresh \in store
        BY <1>1, <2>1, <2>6, <3>5, <4>1 DEF LoggedIn
      <4>4. request'[s].pc = "create"
        BY <1>3, <4>2, <4>3
      <4>5. \A c \in Calls : RequestFine(c)'
        BY <1>3, <4>1, <4>4, CallsAreSlots DEF RequestFine
      <4> QED
        BY <1>1, <1>2, <2>1, <2>6, <3>1, <3>2, <3>3, <3>5, <4>4, <4>5 DEF LoggedIn, Undisturbed
    <3> QED
      BY <3>1, <3>4, <3>5 DEF Slots
  <2> QED
    BY <2>5, <2>6
<1>5. \A c \in Calls : request'[c].pc # "idle" => request[c].pc # "idle"
  BY <1>1, <1>3, CallsAreSlots
<1> QED
  BY <1>1, <1>4, <1>5, ServerCalm

LEMMA CreateCalm == ASSUME IInv, Calm, NEW s \in Slots, Create(s) PROVE Calm' /\ Stays
<1>0. PICK n : n = minted + 1
  OBVIOUS
<1>1. /\ request[s].pc = "create" /\ account' = account /\ store' = store \cup {n}
      /\ minted' = n /\ expired' = expired /\ UNCHANGED siteVars
      /\ disturbed' = disturbed /\ minted \in Nat
  BY <1>0 DEF Create, IInv, TypeOK
<1>2. /\ access' = access /\ refresh' = refresh /\ flight' = flight /\ call' = call
  BY <1>1 DEF siteVars
<1>3. /\ \A q \in Slots \ {s} : request'[q] = request[q]
      /\ request'[s].pc = IF s = "login" THEN "touch" ELSE "load"
      /\ request'[s].new = n
  BY <1>0 DEF Create, IInv, TypeOK
<1>4. /\ n # NoToken /\ n \notin expired /\ n # access
      /\ \A c \in Calls : call[c].token # n
      /\ \A q \in Slots : request[q].sent # n
  BY <1>0, <1>1 DEF NoToken, IInv, TypeOK, Spending, Calm
<1>5. Fresh(n)'
  <2>1. AppLeaves(n)'
    BY <1>3, <1>4, CallsAreSlots DEF AppLeaves
  <2> QED
    BY <1>1, <1>2, <1>4, <2>1 DEF Fresh
<1>6. \A m : Fresh(m) => Fresh(m)'
  BY <1>1, <1>2, <1>3, CallsAreSlots DEF Fresh, AppLeaves
<1>7. ASSUME ~disturbed PROVE Undisturbed'
  <2>1. account = "active" /\ (access = NoToken => LoggedOut) /\ (access # NoToken => LoggedIn)
    BY <1>7 DEF Calm
  <2>2. CASE access = NoToken
    <3>1. s \notin Calls
      BY <1>1, <2>1, <2>2 DEF LoggedOut
    <3>2. LoggedOut'
      BY <1>2, <1>3, <1>5, <1>6, <2>1, <2>2, <3>1, CallsAreSlots DEF LoggedOut
    <3> QED
      BY <1>1, <1>2, <2>1, <2>2, <3>2 DEF Undisturbed
  <2>3. CASE access # NoToken
    <3>1. s # "login" /\ request'["login"] = request["login"]
      BY <1>1, <1>3, <2>1, <2>3, CallsAreSlots DEF LoggedIn
    <3>2. \A c \in Calls : CallFine(c)'
      BY <1>1, <1>2, <2>1, <2>3 DEF LoggedIn, CallFine
    <3>3. AppLeaves(refresh)'
      BY <1>2, <1>3, <2>1, <2>3, CallsAreSlots DEF LoggedIn, AppLeaves
    <3>4. \A c \in Calls : RequestFine(c)'
      BY <1>2, <1>3, <1>5, <1>6, <2>1, <2>3, <3>1, CallsAreSlots DEF LoggedIn, RequestFine
    <3>5. (\A c \in Calls : request'[c].pc \in {"idle", "ip", "consume"}) => refresh \in store'
      BY <1>1, <1>3, <2>1, <2>3, <3>1, CallsAreSlots DEF LoggedIn
    <3> QED
      BY <1>1, <1>2, <2>1, <2>3, <3>1, <3>2, <3>3, <3>4, <3>5 DEF LoggedIn, Undisturbed
  <2> QED
    BY <2>2, <2>3
<1>8. \A c \in Calls : request'[c].pc # "idle" => request[c].pc # "idle"
  BY <1>1, <1>3, CallsAreSlots
<1>9. minted' \in Nat /\ minted <= minted'
  BY <1>0, <1>1
<1> QED
  BY <1>1, <1>7, <1>8, <1>9, ServerCalm

\* The answer of a refresh that finds its account active.
LEMMA AnswerCalm ==
    ASSUME IInv, Calm, NEW s \in Slots, Refresh(s) \/ CommandFails(s) \/ AnswerLost(s)
    PROVE  Calm' /\ Stays
<1>1. /\ account' = account /\ minted' = minted /\ expired' = expired /\ UNCHANGED siteVars
      /\ minted \in Nat /\ request[s].pc # "idle"
      /\ To(s, "ok") \/ To(s, "refused") \/ To(s, "failed")
  <2>1. CASE Refresh(s)
    BY <2>1 DEF Refresh, IInv, TypeOK
  <2>2. CASE CommandFails(s)
    BY <2>2 DEF CommandFails, IInv, TypeOK
  <2>3. CASE AnswerLost(s)
    BY <2>3 DEF AnswerLost, redisVars, IInv, TypeOK
  <2> QED
    BY <2>1, <2>2, <2>3
<1>2. /\ access' = access /\ refresh' = refresh /\ flight' = flight /\ call' = call
  BY <1>1 DEF siteVars
<1>3. \A q \in Slots \ {s} : request'[q] = request[q]
  BY <1>1, ToIs DEF IInv
<1>4. ASSUME ~disturbed' PROVE ~disturbed /\ Undisturbed'
  <2>0. ~disturbed /\ Refresh(s)
    <3>1. CASE Refresh(s)
      BY <1>4, <3>1 DEF Refresh
    <3>2. CASE CommandFails(s) \/ AnswerLost(s)
      BY <1>4, <3>2 DEF CommandFails, AnswerLost, Disturb
    <3> QED
      BY <3>1, <3>2
  <2>1. /\ ~disturbed /\ Refresh(s)
        /\ account = "active" /\ (access = NoToken => LoggedOut) /\ (access # NoToken => LoggedIn)
    BY <2>0 DEF Calm
  <2>2. To(s, "ok") /\ store' = store /\ request[s].pc = "load" /\ s # "login"
    BY <2>1 DEF Refresh, UserFound, IsActive
  <2>3. request'[s].pc = "ok" /\ request'[s].new = request[s].new
    BY <2>2, ToIs DEF IInv
  <2>4. \A n : Fresh(n) => Fresh(n)'
    BY <1>1, <1>2, <1>3, <2>2, <2>3, CallsAreSlots DEF Fresh, AppLeaves
  <2>5. CASE access = NoToken
    <3>1. s \notin Calls
      BY <1>1, <2>1, <2>5 DEF LoggedOut
    <3>2. LoggedOut'
      BY <1>2, <1>3, <2>1, <2>2, <2>4, <2>5, <3>1, CallsAreSlots DEF LoggedOut
    <3> QED
      BY <1>1, <1>2, <2>1, <2>5, <3>2 DEF Undisturbed
  <2>6. CASE access # NoToken
    <3>1. request'["login"] = request["login"]
      BY <1>3, <2>2, CallsAreSlots
    <3>2. \A c \in Calls : CallFine(c)'
      BY <1>1, <1>2, <2>1, <2>6 DEF LoggedIn, CallFine
    <3>3. AppLeaves(refresh)'
      BY <1>2, <1>3, <2>1, <2>3, <2>6, CallsAreSlots DEF LoggedIn, AppLeaves
    <3>4. \A c \in Calls : RequestFine(c)'
      BY <1>2, <1>3, <2>1, <2>2, <2>3, <2>4, <2>6, CallsAreSlots DEF LoggedIn, RequestFine
    <3>5. (\A c \in Calls : request'[c].pc \in {"idle", "ip", "consume"}) => refresh \in store'
      BY <1>3, <2>1, <2>2, <2>3, <2>6, CallsAreSlots DEF LoggedIn
    <3> QED
      BY <1>1, <1>2, <2>1, <2>6, <3>1, <3>2, <3>3, <3>4, <3>5 DEF LoggedIn, Undisturbed
  <2> QED
    BY <2>5, <2>6
<1>5. \A c \in Calls : request'[c].pc # "idle" => request[c].pc # "idle"
  BY <1>1, <1>3, CallsAreSlots
<1> QED
  BY <1>1, <1>4, <1>5, ServerCalm

LEMMA LoginCalm == ASSUME IInv, Calm, CheckPassword \/ TouchLastLogin PROVE Calm' /\ Stays
<1>1. /\ account' = account /\ store' = store /\ minted' = minted /\ expired' = expired
      /\ UNCHANGED siteVars /\ minted \in Nat
      /\ request["login"].pc \in {"load", "touch"}
      /\ \/ To("login", "create") \/ To("login", "refused")
         \/ To("login", "ok") /\ request["login"].pc = "touch"
  BY DEF CheckPassword, TouchLastLogin, redisVars, IInv, TypeOK
<1>2. /\ access' = access /\ refresh' = refresh /\ flight' = flight /\ call' = call
  BY <1>1 DEF siteVars
<1>3. /\ \A q \in Slots \ {"login"} : request'[q] = request[q]
      /\ request'["login"].pc \in {"touch", "ok"} =>
            request["login"].pc = "touch" /\ request'["login"].new = request["login"].new
  BY <1>1, ToIs, CallsAreSlots DEF IInv
<1>4. ASSUME ~disturbed' PROVE ~disturbed /\ Undisturbed'
  <2>0. ~disturbed
    BY <1>4 DEF CheckPassword, TouchLastLogin, Disturb
  <2>1. /\ ~disturbed /\ account = "active"
        /\ (access = NoToken => LoggedOut) /\ (access # NoToken => LoggedIn)
    BY <2>0 DEF Calm
  <2>2. access = NoToken
    BY <1>1, <2>1 DEF LoggedIn
  <2>3. \A n : Fresh(n) => Fresh(n)'
    BY <1>1, <1>2, <1>3, CallsAreSlots DEF Fresh, AppLeaves
  <2>4. LoggedOut'
    BY <1>2, <1>3, <2>1, <2>2, <2>3, CallsAreSlots DEF LoggedOut
  <2> QED
    BY <1>1, <1>2, <2>1, <2>2, <2>4 DEF Undisturbed
<1>5. \A c \in Calls : request'[c].pc # "idle" => request[c].pc # "idle"
  BY <1>3, CallsAreSlots
<1> QED
  BY <1>1, <1>4, <1>5, ServerCalm

LEMMA TimeCalm ==
    ASSUME IInv, Calm, \/ (\E active \in BOOLEAN : UpdateUser(active)) \/ DeleteUser
                       \/ \E t \in 1..minted : Expire(t) \/ RefreshTokenEnds(t)
    PROVE  Calm' /\ Stays
<1>1. /\ minted' = minted /\ request' = request /\ UNCHANGED siteVars /\ minted \in Nat
  <2>1. \A to : SetAccount(to) => minted' = minted /\ request' = request /\ UNCHANGED siteVars
    BY DEF SetAccount, redisVars
  <2>2. \A t : Expire(t) \/ RefreshTokenEnds(t) =>
            minted' = minted /\ request' = request /\ UNCHANGED siteVars
    BY DEF Expire, RefreshTokenEnds, redisVars
  <2>3. minted \in Nat
    BY DEF IInv, TypeOK
  <2> QED
    BY <2>1, <2>2, <2>3 DEF UpdateUser, DeleteUser
<1>2. /\ access' = access /\ refresh' = refresh /\ flight' = flight /\ call' = call
  BY <1>1 DEF siteVars
<1>3. ASSUME ~disturbed' PROVE ~disturbed /\ Undisturbed'
  <2>1. PICK t \in 1..minted : Expire(t)
    BY <1>3 DEF UpdateUser, DeleteUser, SetAccount, RefreshTokenEnds, Disturb
  <2>2. /\ account' = account /\ store' = store /\ expired' = expired \cup {t}
        /\ t \in {access} \cup {call[c].token : c \in Calls}
    BY <2>1 DEF Expire, redisVars
  <2>3. ~disturbed /\ ~\E c \in Calls : call[c].retried /\ call[c].token = t /\ call[c].pc = "sent"
    BY <1>3, <2>1 DEF Expire, Disturb
  <2>4. account = "active" /\ (access = NoToken => LoggedOut) /\ (access # NoToken => LoggedIn)
    BY <2>3 DEF Calm
  <2>5. \A n : Fresh(n) => Fresh(n)'
    BY <1>1, <1>2, <2>2 DEF Fresh, AppLeaves
  <2>6. access = NoToken => LoggedOut'
    BY <1>1, <1>2, <2>4, <2>5 DEF LoggedOut
  <2>7. access # NoToken => \A c \in Calls : RequestFine(c)' /\ CallFine(c)'
    BY <1>1, <1>2, <2>2, <2>3, <2>4, <2>5 DEF LoggedIn, RequestFine, CallFine
  <2>8. access # NoToken => LoggedIn'
    BY <1>1, <1>2, <2>2, <2>4, <2>7 DEF LoggedIn, AppLeaves
  <2> QED
    BY <1>2, <2>2, <2>3, <2>4, <2>6, <2>8 DEF Undisturbed
<1> QED
  BY <1>1, <1>3, ServerCalm

LEMMA WindowCalm == ASSUME IInv, Calm, NEW k \in Keys, WindowEnds(k) PROVE Calm' /\ Stays
<1>1. /\ account' = account /\ store' = store /\ minted' = minted /\ expired' = expired
      /\ request' = request /\ access' = access /\ refresh' = refresh /\ flight' = flight
      /\ call' = call
  BY DEF WindowEnds, redisVars, siteVars
<1>2. disturbed' = disturbed
  BY DEF WindowEnds
<1>3. /\ LoggedOut => LoggedOut'
      /\ LoggedIn => LoggedIn'
  BY <1>1 DEF LoggedOut, LoggedIn, Fresh, AppLeaves, RequestFine, CallFine
<1> QED
  BY <1>1, <1>2, <1>3 DEF Calm, Stays

\* The app's request is none of the console's.
LEMMA AppCalm ==
    ASSUME IInv, Calm, AppSettles \/ \E t \in 1..minted : AppRefreshes(t)
    PROVE  Calm' /\ Stays
<1>1. /\ account' = account /\ store' = store /\ minted' = minted /\ expired' = expired
      /\ UNCHANGED siteVars /\ minted \in Nat
      /\ \A q \in Slots \ {"app"} : request'[q] = request[q]
  <2>1. CASE AppSettles
    BY <2>1 DEF AppSettles, redisVars, IInv, TypeOK
  <2>2. ASSUME NEW t \in 1..minted, AppRefreshes(t)
        PROVE  /\ account' = account /\ store' = store /\ minted' = minted /\ expired' = expired
               /\ UNCHANGED siteVars /\ minted \in Nat
               /\ \A q \in Slots \ {"app"} : request'[q] = request[q]
    BY <2>2 DEF AppRefreshes, redisVars, IInv, TypeOK
  <2> QED
    BY <2>1, <2>2
<1>2. /\ access' = access /\ refresh' = refresh /\ flight' = flight /\ call' = call
  BY <1>1 DEF siteVars
<1>3. ASSUME ~disturbed' PROVE ~disturbed /\ Undisturbed'
  <2>1. AppSettles /\ ~disturbed
    <3>1. ASSUME NEW t \in 1..minted, AppRefreshes(t) PROVE FALSE
      BY <1>3, <3>1 DEF AppRefreshes, Disturb
    <3> QED
      BY <1>3, <3>1 DEF AppSettles
  <2>2. request'["app"].pc = "idle"
    BY <2>1, CallsAreSlots DEF AppSettles, NoRequest, IInv, TypeOK
  <2>3. \A n : AppLeaves(n)'
    BY <2>2 DEF AppLeaves
  <2>4. account = "active" /\ (access = NoToken => LoggedOut) /\ (access # NoToken => LoggedIn)
    BY <2>1 DEF Calm
  <2>5. \A n : Fresh(n) => Fresh(n)'
    BY <1>1, <1>2, <2>3 DEF Fresh
  <2>6. access = NoToken => LoggedOut'
    BY <1>1, <1>2, <2>4, <2>5, CallsAreSlots DEF LoggedOut
  <2>7. access # NoToken => \A c \in Calls : RequestFine(c)' /\ CallFine(c)'
    BY <1>1, <1>2, <2>4, <2>5, CallsAreSlots DEF LoggedIn, RequestFine, CallFine
  <2>8. access # NoToken => LoggedIn'
    BY <1>1, <1>2, <2>3, <2>4, <2>7, CallsAreSlots DEF LoggedIn
  <2> QED
    BY <1>1, <1>2, <2>1, <2>4, <2>6, <2>8 DEF Undisturbed
<1>4. \A c \in Calls : request'[c].pc # "idle" => request[c].pc # "idle"
  BY <1>1, CallsAreSlots
<1> QED
  BY <1>1, <1>3, <1>4, ServerCalm

LEMMA LoginBegins == ASSUME IInv, Calm, Login PROVE Calm' /\ Stays
<1>1. /\ access = NoToken /\ account' = account /\ store' = store /\ minted' = minted
      /\ expired' = expired /\ access' = access /\ refresh' = refresh /\ flight' = flight
      /\ call' = call /\ request["login"].pc = "idle"
      /\ \A q \in Slots \ {"login"} : request'[q] = request[q]
  BY DEF Login, redisVars, IInv, TypeOK
<1>2. request'["login"].pc = "ip"
  BY CallsAreSlots DEF Login, IInv, TypeOK, Requests
<1>3. ASSUME ~disturbed'
      PROVE  account = "active" /\ \A c \in Calls : call[c].pc = "idle" /\ request[c].pc = "idle"
  <2>1. CASE ~disturbed
    BY <1>1, <2>1 DEF Calm, LoggedOut
  <2>2. CASE disturbed
    BY <1>3, <2>2 DEF Login
  <2> QED
    BY <2>1, <2>2
<1>4. ~disturbed' => LoggedOut'
  BY <1>1, <1>2, <1>3, CallsAreSlots DEF LoggedOut
<1> QED
  BY <1>1, <1>3, <1>4, CallsAreSlots DEF Calm, Stays

LEMMA LoginEnds == ASSUME IInv, Calm, LoginSettles PROVE Calm' /\ Stays
<1>1. /\ account' = account /\ store' = store /\ minted' = minted /\ expired' = expired
      /\ flight' = flight /\ call' = call /\ request["login"].pc \in {"ok", "refused", "failed"}
      /\ request' = [request EXCEPT !["login"] = NoRequest]
  BY DEF LoginSettles, redisVars
<1>2. disturbed' = disturbed
  BY DEF LoginSettles
<1>3. /\ request'["login"].pc = "idle" /\ \A q \in Slots \ {"login"} : request'[q] = request[q]
  BY <1>1, CallsAreSlots DEF IInv, TypeOK, NoRequest
<1>4. /\ \A c \in Calls : request'[c].pc # "idle" => flight' = c
      /\ \A c \in Calls : call'[c].token \in 0..minted'
  BY <1>1, <1>3, CallsAreSlots DEF Calm
<1>5. ASSUME ~disturbed
      PROVE  /\ account = "active" /\ access = NoToken
             /\ access' = NoToken => LoggedOut'
             /\ access' # NoToken => LoggedIn'
  <2>1. account = "active" /\ access = NoToken /\ LoggedOut
    BY <1>1, <1>5 DEF Calm, LoggedIn
  <2>2. LoggedOut'
    BY <1>1, <1>3, <2>1, CallsAreSlots DEF LoggedOut
  <2>3. CASE request["login"].pc = "ok"
    <3> DEFINE n == request["login"].new
    <3>1. Fresh(n) /\ access' = n /\ refresh' = n
      BY <2>1, <2>3 DEF LoggedOut, LoginSettles, setTokens
    <3>2. \A c \in Calls : RequestFine(c)' /\ CallFine(c)'
      BY <1>1, <1>3, <2>1, CallsAreSlots DEF LoggedOut, RequestFine, CallFine
    <3>3. LoggedIn'
      BY <1>1, <1>3, <3>1, <3>2, CallsAreSlots DEF LoggedIn, Fresh, AppLeaves
    <3> QED
      BY <2>1, <2>2, <3>3
  <2>4. CASE request["login"].pc # "ok"
    BY <1>1, <2>1, <2>2, <2>4 DEF LoginSettles, reset
  <2> QED
    BY <2>3, <2>4
<1> QED
  BY <1>1, <1>2, <1>4, <1>5, CallsAreSlots DEF Calm, Stays

LEMMA ReloadCalm == ASSUME IInv, Calm, Reload PROVE Calm' /\ Stays
<1>1. /\ disturbed' /\ minted' = minted /\ minted \in Nat /\ NoCall.token = 0 /\ NoRequest.pc = "idle"
      /\ \A c \in Calls : call'[c] = NoCall /\ request'[c] = NoRequest
  <2>1. disturbed'
    BY DEF Reload, Disturb
  <2>2. minted' = minted /\ minted \in Nat /\ NoCall.token = 0 /\ NoRequest.pc = "idle"
    BY DEF Reload, redisVars, NoCall, NoToken, NoRequest, IInv, TypeOK
  <2>3. \A c \in Calls : call'[c] = NoCall /\ request'[c] = NoRequest
    BY CallsAreSlots DEF Reload
  <2> QED
    BY <2>1, <2>2, <2>3
<1> QED
  BY <1>1 DEF Calm, Stays

\* A step of one call, in a session that is logged in when undisturbed.
LEMMA OneCall ==
    ASSUME IInv, Calm, NEW c \in Calls, call[c].pc # "idle", NEW x \in CallStates,
           call' = [call EXCEPT ![c] = x], x.token \in {0, access},
           UNCHANGED <<account, redisVars, expired>>, request' = request, flight' = flight,
           ~disturbed' => /\ ~disturbed /\ access' = access /\ refresh' = refresh
                          /\ x.pc # "unauthenticated" /\ (~x.retried \/ x.pc = "idle")
    PROVE  Calm' /\ Stays
<1>1. /\ account' = account /\ store' = store /\ minted' = minted /\ expired' = expired
      /\ minted \in Nat /\ access \in 0..minted
      /\ \A d \in Calls : call'[d] = IF d = c THEN x ELSE call[d]
  BY DEF redisVars, IInv, TypeOK
<1>2. /\ \A d \in Calls : request'[d].pc # "idle" => flight' = d
      /\ \A d \in Calls : call'[d].token \in 0..minted'
  BY <1>1 DEF Calm
<1>3. ASSUME ~disturbed'
      PROVE  account' = "active" /\ access' # NoToken /\ LoggedIn'
  <2>1. /\ ~disturbed /\ access' = access /\ refresh' = refresh
        /\ x.pc # "unauthenticated" /\ (~x.retried \/ x.pc = "idle")
    BY <1>3
  <2>2. account = "active" /\ access # NoToken /\ LoggedIn
    BY <2>1 DEF Calm, LoggedOut
  <2>3. \A n : Fresh(n) => Fresh(n)'
    BY <1>1, <2>1 DEF Fresh, AppLeaves, NoToken
  <2>4. \A d \in Calls : RequestFine(d)'
    BY <1>1, <2>1, <2>2, <2>3 DEF LoggedIn, RequestFine
  <2>5. \A d \in Calls : CallFine(d)'
    BY <1>1, <2>1, <2>2 DEF LoggedIn, CallFine
  <2> QED
    BY <1>1, <2>1, <2>2, <2>4, <2>5 DEF LoggedIn, AppLeaves
<1> QED
  BY <1>2, <1>3 DEF Calm, Stays

LEMMA CallBegins == ASSUME IInv, Calm, NEW c \in Calls, Call(c) PROVE Calm' /\ Stays
<1> DEFINE x == [pc |-> "sent", token |-> access, retried |-> FALSE]
<1>1. /\ account' = account /\ store' = store /\ minted' = minted /\ expired' = expired
      /\ request' = request /\ access' = access /\ refresh' = refresh /\ flight' = flight
      /\ minted \in Nat /\ access \in 0..minted /\ access # NoToken
      /\ \A d \in Calls : call'[d] = IF d = c THEN x ELSE call[d]
  BY DEF Call, redisVars, IInv, TypeOK
<1>2. disturbed' = disturbed
  BY DEF Call
<1>3. LoggedIn => LoggedIn'
  <2>1. \A n : Fresh(n) => Fresh(n)'
    BY <1>1 DEF Fresh, AppLeaves
  <2>2. ASSUME LoggedIn PROVE \A d \in Calls : RequestFine(d)' /\ CallFine(d)'
    BY <1>1, <2>1, <2>2 DEF LoggedIn, RequestFine, CallFine
  <2> QED
    BY <1>1, <2>2 DEF LoggedIn, AppLeaves
<1>4. \A d \in Calls : call'[d].token \in 0..minted'
  BY <1>1 DEF Calm
<1> QED
  BY <1>1, <1>2, <1>3, <1>4 DEF Calm, Stays

LEMMA AuthnCalm == ASSUME IInv, Calm, NEW c \in Calls, Authn(c) PROVE Calm' /\ Stays
<1>1. /\ UNCHANGED <<account, redisVars, expired>> /\ request' = request /\ flight' = flight
      /\ access' = access /\ refresh' = refresh /\ call[c].pc = "sent"
      /\ call[c] \in CallStates /\ 0 \in 0..MaxTokens
  BY AuthAssumption DEF Authn, IInv, TypeOK
<1>2. disturbed' = disturbed
  BY DEF Authn
<1>3. PICK pc \in {"expired", "unauthenticated"} :
         /\ Answer(c, pc)
         /\ pc = "expired" => call[c].token \in expired
         /\ pc = "unauthenticated" => account = "deleted"
  BY DEF Authn, UserFound
<1> DEFINE x == [call[c] EXCEPT !.pc = pc, !.token = NoToken]
<1>4. /\ x \in CallStates /\ x.token = 0 /\ x.pc = pc /\ x.retried = call[c].retried
      /\ call' = [call EXCEPT ![c] = x]
  BY <1>1, <1>3 DEF Answer, CallStates, NoToken, IInv, TypeOK
<1>5. ASSUME ~disturbed PROVE pc # "unauthenticated" /\ ~x.retried
  <2>1. account = "active" /\ LoggedIn
    BY <1>1, <1>5 DEF Calm, LoggedOut
  <2>2. pc = "expired"
    BY <1>3, <2>1
  <2> QED
    BY <1>1, <1>3, <1>4, <2>1, <2>2 DEF LoggedIn, CallFine
<1> HIDE DEF x
<1> QED
  BY <1>1, <1>2, <1>4, <1>5, OneCall

LEMMA CallEndsCalm ==
    ASSUME IInv, Calm, NEW c \in Calls, CallEnds(c) \/ OnUnauthenticated(c)
    PROVE  Calm' /\ Stays
<1>1. /\ UNCHANGED <<account, redisVars, expired>> /\ request' = request /\ flight' = flight
      /\ call[c].pc # "idle" /\ call' = [call EXCEPT ![c] = NoCall]
  BY DEF CallEnds, OnUnauthenticated
<1>2. NoCall \in CallStates /\ NoCall.token = 0 /\ NoCall.pc = "idle"
  BY AuthAssumption DEF NoCall, CallStates, NoToken
<1>3. ASSUME ~disturbed' PROVE ~disturbed /\ access' = access /\ refresh' = refresh
  <2>1. CASE CallEnds(c)
    <3>1. \/ UNCHANGED <<access, refresh, disturbed>>
          \/ Disturb(TRUE)
      BY <2>1 DEF CallEnds
    <3>2. CASE UNCHANGED <<access, refresh, disturbed>>
      BY <1>3, <3>2
    <3>3. CASE Disturb(TRUE)
      BY <1>3, <3>3 DEF Disturb
    <3> QED
      BY <3>1, <3>2, <3>3
  <2>2. CASE OnUnauthenticated(c)
    <3>1. ~disturbed
      BY <1>3, <2>2 DEF OnUnauthenticated
    <3>2. CallFine(c)
      BY <1>1, <3>1 DEF Calm, LoggedOut, LoggedIn
    <3> QED
      BY <2>2, <3>2 DEF OnUnauthenticated, CallFine
  <2> QED
    BY <2>1, <2>2
<1> QED
  BY <1>1, <1>2, <1>3, OneCall

\* The single flight: one refresh at a time, and it takes the current token.
LEMMA ExpiredCalm == ASSUME IInv, Calm, NEW c \in Calls, OnExpired(c) PROVE Calm' /\ Stays
<1> DEFINE x == [call[c] EXCEPT !.pc = "waiting", !.token = NoToken]
           q == [pc |-> "ip", sent |-> refresh, new |-> NoToken]
<1>1. /\ UNCHANGED <<account, redisVars, expired>> /\ call[c].pc = "expired" /\ ~call[c].retried
      /\ call[c] \in CallStates /\ 0 \in 0..MaxTokens /\ minted \in Nat
  BY AuthAssumption DEF OnExpired, IInv, TypeOK
<1>2. disturbed' = disturbed
  BY DEF OnExpired
<1>3. /\ x \in CallStates /\ x.token = 0 /\ x.pc = "waiting" /\ ~x.retried
      /\ Answer(c, "waiting") => call' = [call EXCEPT ![c] = x]
  BY <1>1 DEF Answer, CallStates, NoToken, IInv, TypeOK
<1>4. NoCall \in CallStates /\ NoCall.token = 0 /\ NoCall.pc = "idle"
  BY AuthAssumption DEF NoCall, CallStates, NoToken
<1> HIDE DEF x
<1>5. ~disturbed => account = "active" /\ access # NoToken /\ LoggedIn
  BY <1>1 DEF Calm, LoggedOut
<1>6. CASE flight # NoSlot
  BY <1>1, <1>2, <1>3, <1>6, OneCall DEF OnExpired
<1>7. CASE flight = NoSlot /\ refresh = NoToken
  <2>1. disturbed
    BY <1>5, <1>7 DEF LoggedIn
  <2> QED
    BY <1>1, <1>2, <1>4, <1>7, <2>1, OneCall DEF OnExpired
<1>8. CASE flight = NoSlot /\ refresh # NoToken
  <2>1. /\ request' = [request EXCEPT ![c] = q] /\ flight' = c /\ access' = access
        /\ refresh' = refresh /\ call' = [call EXCEPT ![c] = x]
        /\ account' = account /\ store' = store /\ minted' = minted /\ expired' = expired
    BY <1>1, <1>3, <1>8 DEF OnExpired, redisVars
  <2>2. /\ \A d \in Slots : request'[d] = IF d = c THEN q ELSE request[d]
        /\ \A d \in Calls : call'[d] = IF d = c THEN x ELSE call[d]
    BY <2>1 DEF IInv, TypeOK
  <2>3. \A d \in Calls : request[d].pc = "idle"
    BY <1>8, CallsAreSlots DEF Calm
  <2>4. /\ \A d \in Calls : request'[d].pc # "idle" => flight' = d
        /\ \A d \in Calls : call'[d].token \in 0..minted'
    BY <1>1, <1>3, <2>1, <2>2, <2>3, CallsAreSlots DEF Calm
  <2>5. ASSUME ~disturbed PROVE LoggedIn'
    <3>1. LoggedIn
      BY <1>5, <2>5
    <3>2. \A d \in Calls : RequestFine(d)' /\ CallFine(d)'
      BY <1>3, <2>1, <2>2, <2>3, <3>1, CallsAreSlots DEF LoggedIn, RequestFine, CallFine
    <3>3. refresh' \in store'
      BY <2>1, <2>3, <3>1 DEF LoggedIn
    <3> QED
      BY <2>1, <2>2, <3>1, <3>2, <3>3, CallsAreSlots DEF LoggedIn, AppLeaves
  <2> QED
    BY <1>2, <1>5, <2>1, <2>4, <2>5 DEF Calm, Stays
<1> QED
  BY <1>6, <1>7, <1>8

LEMMA RefreshCalm == ASSUME IInv, Calm, NEW c \in Calls, RefreshSettles(c) PROVE Calm' /\ Stays
<1> DEFINE n == request[c].new
<1>1. /\ account' = account /\ store' = store /\ minted' = minted /\ expired' = expired
      /\ request[c].pc \in {"ok", "refused", "failed"} /\ flight' = NoSlot
      /\ minted \in Nat /\ n \in 0..minted
  <2>1. minted \in Nat /\ n \in 0..minted
    BY CallsAreSlots DEF IInv, TypeOK, Spending
  <2> QED
    BY <2>1 DEF RefreshSettles, redisVars
<1>2. disturbed' = disturbed
  BY DEF RefreshSettles
<1>3. /\ \A d \in Slots : request'[d] = IF d = c THEN NoRequest ELSE request[d]
      /\ NoRequest.pc = "idle"
  BY DEF RefreshSettles, NoRequest, IInv, TypeOK
<1>4. \A d \in Calls \ {c} : request[d].pc = "idle"
  BY <1>1 DEF Calm
<1>5. \A d \in Calls : request'[d].pc = "idle"
  BY <1>3, <1>4, CallsAreSlots
<1>6. \A d \in Calls : call[d] \in CallStates /\ NoCall.token = 0
  BY DEF IInv, TypeOK, NoCall, NoToken
<1>7. \A d \in Calls : \/ call'[d] = call[d]
                       \/ call'[d] = NoCall
                       \/ call'[d].pc = "sent" /\ call'[d].token = n
  <2> DEFINE waiting == {e \in Calls : call[e].pc = "waiting"}
  <2>1. \/ call' = [d \in Calls |-> IF d \in waiting
                    THEN [call[d] EXCEPT !.pc = "sent", !.retried = TRUE, !.token = n] ELSE call[d]]
        \/ call' = [d \in Calls |-> IF d \in waiting THEN NoCall ELSE call[d]]
    BY DEF RefreshSettles
  <2>2. \A d \in Calls :
            LET y == [call[d] EXCEPT !.pc = "sent", !.retried = TRUE, !.token = n]
            IN  y.pc = "sent" /\ y.token = n
    BY <1>6 DEF CallStates
  <2> HIDE DEF waiting, n
  <2> QED
    BY <2>1, <2>2
<1>8. \A d \in Calls : call'[d].token \in 0..minted'
  BY <1>1, <1>6, <1>7 DEF Calm
<1>9. ASSUME ~disturbed PROVE account = "active" /\ access # NoToken /\ access' # NoToken /\ LoggedIn'
  <2>1. account = "active" /\ access # NoToken /\ LoggedIn
    BY <1>1, <1>9 DEF Calm, LoggedOut
  <2>2. request[c].pc = "ok" /\ Fresh(n)
    BY <1>1, <2>1 DEF LoggedIn, RequestFine
  <2>3. access' = n /\ refresh' = n
    BY <2>2 DEF RefreshSettles, setTokens
  <2>4. \A d \in Calls : \/ call'[d] = call[d]
                         \/ call'[d].pc = "sent" /\ call'[d].token = n
    <3> DEFINE waiting == {e \in Calls : call[e].pc = "waiting"}
    <3>1. call' = [d \in Calls |-> IF d \in waiting
                     THEN [call[d] EXCEPT !.pc = "sent", !.retried = TRUE, !.token = n] ELSE call[d]]
      BY <2>2 DEF RefreshSettles
    <3>2. \A d \in Calls :
              LET y == [call[d] EXCEPT !.pc = "sent", !.retried = TRUE, !.token = n]
              IN  y.pc = "sent" /\ y.token = n
      BY <1>6 DEF CallStates
    <3> HIDE DEF waiting, n
    <3> QED
      BY <3>1, <3>2
  <2>5. \A d \in Calls : CallFine(d)'
    BY <1>1, <2>1, <2>2, <2>4 DEF LoggedIn, CallFine, Fresh
  <2>6. \A d \in Calls : RequestFine(d)'
    BY <1>5 DEF RequestFine
  <2>7. request'["login"] = request["login"] /\ request'["app"] = request["app"]
    BY <1>3, CallsAreSlots
  <2> QED
    BY <1>1, <2>1, <2>2, <2>3, <2>5, <2>6, <2>7 DEF LoggedIn, Fresh, AppLeaves
<1> QED
  BY <1>1, <1>2, <1>5, <1>8, <1>9 DEF Calm, Stays

LEMMA CalmKeeps == ASSUME IInv, Calm, [Next]_vars PROVE Calm' /\ Stays
<1>1. CASE UNCHANGED vars
  <2>1. /\ account' = account /\ store' = store /\ minted' = minted /\ expired' = expired
        /\ request' = request /\ access' = access /\ refresh' = refresh /\ flight' = flight
        /\ call' = call
    BY <1>1 DEF vars
  <2>2. disturbed' = disturbed
    BY <1>1 DEF vars
  <2>3. (LoggedOut => LoggedOut') /\ (LoggedIn => LoggedIn')
    BY <2>1 DEF LoggedOut, LoggedIn, Fresh, AppLeaves, RequestFine, CallFine
  <2> QED
    BY <2>1, <2>2, <2>3 DEF Calm, Stays
<1>2. ASSUME NEW s \in Slots, \/ Limit(s) \/ Consume(s) \/ Create(s) \/ Refresh(s)
                              \/ CommandFails(s) \/ AnswerLost(s)
      PROVE  Calm' /\ Stays
  BY <1>2, LimitCalm, ConsumeCalm, CreateCalm, AnswerCalm
<1>3. ASSUME NEW c \in Calls, \/ Call(c) \/ Authn(c) \/ CallEnds(c) \/ OnExpired(c)
                              \/ OnUnauthenticated(c) \/ RefreshSettles(c)
      PROVE  Calm' /\ Stays
  BY <1>3, CallBegins, AuthnCalm, CallEndsCalm, ExpiredCalm, RefreshCalm
<1> QED
  BY <1>1, <1>2, <1>3, LoginCalm, TimeCalm, WindowCalm, AppCalm, LoginBegins, LoginEnds, ReloadCalm
     DEF Next

\* Concurrent calls, the end of access tokens and the refresh they share never
\* log a user out: an undisturbed session stays (refreshSingleFlight).
THEOREM SessionStays == Spec => NoSpuriousLogout
<1>1. Init => Calm
  BY DEF Init, Calm, LoggedOut, NoCall, NoRequest, NoToken, Slots
<1>2. IInv /\ Calm /\ [Next]_vars => Calm' /\ [access # NoToken /\ access' = NoToken => disturbed']_vars
  BY CalmKeeps DEF Stays
<1> QED
  BY <1>1, <1>2, Inductive, PTL DEF Spec, NoSpuriousLogout
=============================================================================
