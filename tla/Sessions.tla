------------------------------ MODULE Sessions ------------------------------
(***************************************************************************)
(* Login sessions: the refresh_tokens table, the two kinds of Redis keys   *)
(* that cut an access token off ("tva:<user>" and "blacklist:<jti>"), and  *)
(* the requests of internal/service/auth_service.go and                    *)
(* internal/middleware/auth.go that read and write them.                   *)
(*                                                                         *)
(* Each worker in Workers is a goroutine serving one request at a time;    *)
(* one action is one SQL statement, one Redis command or one clock         *)
(* reading, so every interleaving of concurrent requests is a behaviour.   *)
(* A call that fails takes the code's error path; a failed statement may   *)
(* or may not have been applied.  Time is counted in seconds, the unit of  *)
(* the iat claim and of the revocation threshold.                          *)
(*                                                                         *)
(* Left out: users.tokens_valid_after, which UpdateTokensValidAfter writes *)
(* and nothing in src/ reads (its call is a step, its value is not kept),  *)
(* and reads whose answer cannot change (users.is_active is never cleared).*)
(***************************************************************************)
EXTENDS Integers, FiniteSets

CONSTANTS
    Workers,    \* goroutines serving requests
    Users,
    Pairs,      \* token pairs that may be generated (bounds the logins)
    NoUser, NoPair,
    AccessTTL,  \* JWT access lifetime, config.go: 15m by default
    RefreshTTL, \* refresh token lifetime, config.go: 168h by default
    TvaTTL,     \* lifetime of a "tva:" key, 20m in cacheRevocation
    Exps,       \* exp claims that Logout may meet besides the signed one
    MaxTime     \* bounds the clock

ASSUME NullAssumption == NoUser \notin Users /\ NoPair \notin Pairs

ASSUME LifetimeAssumption ==
    /\ AccessTTL \in Nat \ {0} /\ RefreshTTL \in Nat \ {0}
    /\ TvaTTL \in Nat \ {0} /\ MaxTime \in Nat
    /\ Exps \subseteq Nat

VARIABLES
    now,      \* the clock, in seconds
    owner,    \* owner[p]: the user pair p was generated for, NoUser if unused
    iat,      \* iat[p]: second in which p was generated
    parent,   \* parent[p]: pair whose refresh token was exchanged for p
    row,      \* row[p]: the refresh_tokens row of p's refresh token
    sent,     \* pairs that were returned to a client
    tvaVal,   \* tvaVal[u]: value of Redis key tva:u, 0 when there is none
    tvaEnd,   \* tvaEnd[u]: when that key expires
    blackEnd, \* blackEnd[p]: when key blacklist:<jti of p> expires, 0: no key
    early,    \* history: pairs of which a logout carried an exp claim before
              \* the one that was signed
    req       \* req[w]: the request worker w is serving

store == <<owner, iat, parent, row, sent>>
redis == <<tvaVal, tvaEnd, blackEnd, early>>
vars == <<now, store, redis, req>>

Steps == {"idle", "mint", "insert", "rotate", "revokeAll", "stamp",
          "threshold", "store", "blacklist", "dropRefresh",
          "exists", "getTva", "serve"}
Kinds == {"login", "refresh", "logout", "logoutAll", "revoke", "api"}

Requests ==
    [pc : Steps,                   \* the next call of the handler
     kind : Kinds,                 \* "revoke": its errors are assigned to _
     user : Users \cup {NoUser},   \* the user acted for
     acc : Pairs \cup {NoPair},    \* whose access token was presented
     ref : Pairs \cup {NoPair},    \* whose refresh token was presented
     new : Pairs \cup {NoPair},    \* the pair being issued
     mark : Nat,                   \* threshold or ttl read before a SET
     before : SUBSET Pairs,        \* history: pairs there at RevokeAll
     dead : BOOLEAN]               \* history: acc blacklisted on arrival

\* A request as it arrives, about to perform its step pc.
Arriving(pc, kind, user, acc, ref) ==
    [pc |-> pc, kind |-> kind, user |-> user, acc |-> acc, ref |-> ref,
     new |-> NoPair, mark |-> 0, before |-> {}, dead |-> FALSE]

Idle == Arriving("idle", "api", NoUser, NoPair, NoPair)

TypeOK ==
    /\ now \in 0..MaxTime
    /\ owner \in [Pairs -> Users \cup {NoUser}]
    /\ iat \in [Pairs -> 0..MaxTime]
    /\ parent \in [Pairs -> Pairs \cup {NoPair}]
    /\ row \in [Pairs -> {"none", "valid", "revoked"}]
    /\ sent \in SUBSET Pairs
    /\ tvaVal \in [Users -> Nat]
    /\ tvaEnd \in [Users -> Nat]
    /\ blackEnd \in [Pairs -> Nat]
    /\ early \in SUBSET Pairs
    /\ req \in [Workers -> Requests]

Init ==
    /\ now = 0
    /\ owner = [p \in Pairs |-> NoUser]
    /\ iat = [p \in Pairs |-> 0]
    /\ parent = [p \in Pairs |-> NoPair]
    /\ row = [p \in Pairs |-> "none"]
    /\ sent = {}
    /\ tvaVal = [u \in Users |-> 0]
    /\ tvaEnd = [u \in Users |-> 0]
    /\ blackEnd = [p \in Pairs |-> 0]
    /\ early = {}
    /\ req = [w \in Workers |-> Idle]

-----------------------------------------------------------------------------
\* ValidateAccessToken: the exp claim is iat + AccessTTL.
Live(p) == now < iat[p] + AccessTTL

\* RefreshToken.IsExpired
Expired(p) == now > iat[p] + RefreshTTL

\* A pair that was generated (its owner is set).
Minted(p) == owner[p] # NoUser

\* IsTokenRevoked on an available cache: a threshold is cached for the user
\* and iat is before it.
Covered(p) ==
    /\ Minted(p)
    /\ tvaVal[owner[p]] # 0
    /\ iat[p] < tvaVal[owner[p]]

\* IsTokenBlacklisted
Blacklisted(p) == blackEnd[p] # 0

\* Mutant: without the +1, tokens of the same second pass.
RevocationThresholdThisSecond == now

\* The value cacheRevocation stores.
RevocationThreshold == now + 1

\* Time left until an exp claim, the TTL Logout gives the blacklist key.
TimeLeft(e) == e - now

\* An idle worker takes request r.
Take(w, r) == req[w].pc = "idle" /\ req' = [req EXCEPT ![w] = r]

\* Worker w performs its step "from" and goes on to "to"; after its last step
\* the response is sent and the worker is idle.
Goto(w, from, to) ==
    /\ req[w].pc = from
    /\ req' = [req EXCEPT ![w] = IF to = "idle" THEN Idle
                                 ELSE [@ EXCEPT !.pc = to]]

-----------------------------------------------------------------------------
\* Login up to generateAuthResponse: FindByEmail and the checks succeed.
Login(w, u) ==
    /\ Take(w, Arriving("mint", "login", u, NoPair, NoPair))
    /\ UNCHANGED <<now, store, redis>>

\* GenerateTokenPair.
Mint(w, p) ==
    /\ req[w].pc = "mint"
    /\ ~Minted(p)
    /\ owner' = [owner EXCEPT ![p] = req[w].user]
    /\ iat' = [iat EXCEPT ![p] = now]
    /\ parent' = [parent EXCEPT ![p] = req[w].ref]
    /\ req' = [req EXCEPT ![w] = [@ EXCEPT !.pc = "insert", !.new = p]]
    /\ UNCHANGED <<now, row, sent, redis>>

\* CreateRefreshToken, then the response; if the reply of the database is
\* lost the row exists and the client gets an error.
Insert(w) ==
    /\ Goto(w, "insert", "idle")
    /\ row' = [row EXCEPT ![req[w].new] = "valid"]
    /\ sent' \in {sent, sent \cup {req[w].new}}
    /\ UNCHANGED <<now, owner, iat, parent, redis>>

\* The end of AcceptWithPassword: the new user of an accepted invitation gets
\* a pair, but CreateRefreshToken is not called for it.
JoinWithPassword(u, p) ==
    /\ ~Minted(p) /\ \A q \in Pairs : owner[q] # u
    /\ owner' = [owner EXCEPT ![p] = u]
    /\ iat' = [iat EXCEPT ![p] = now]
    /\ sent' = sent \cup {p}
    /\ UNCHANGED <<now, parent, row, redis, req>>

\* RefreshToken with a usable refresh token, up to RevokeToken.
Refresh(w, p) ==
    /\ p \in sent /\ row[p] = "valid" /\ ~Expired(p)
    /\ Take(w, Arriving("rotate", "refresh", owner[p], NoPair, p))
    /\ UNCHANGED <<now, store, redis>>

\* RefreshToken with a revoked one revokes everything of its user.  (With an
\* expired or deleted row it changes nothing.)
RefreshReused(w, p) ==
    /\ p \in sent /\ row[p] = "revoked"
    /\ Take(w, Arriving("revokeAll", "revoke", owner[p], NoPair, NoPair))
    /\ UNCHANGED <<now, store, redis>>

\* RevokeToken: the row may have been deleted meanwhile.
RevokeRow(p) ==
    row' = [row EXCEPT ![p] = IF @ = "none" THEN "none" ELSE "revoked"]

\* RevokeToken in RefreshToken; an error ends the request.
Rotate(w) ==
    /\ Goto(w, "rotate", "mint") \/ Goto(w, "rotate", "idle")
    /\ RevokeRow(req[w].ref)
    /\ UNCHANGED <<now, owner, iat, parent, sent, redis>>

-----------------------------------------------------------------------------
\* Auth middleware.  A request that needs authentication arrives with an
\* access token that ValidateAccessToken accepts; which handler it is for does
\* not matter before Serve.
Arrive(w, p) ==
    /\ p \in sent /\ Live(p)
    /\ Take(w, [Arriving("exists", "api", owner[p], p, NoPair)
                  EXCEPT !.dead = Blacklisted(p)])
    /\ UNCHANGED <<now, store, redis>>

\* EXISTS blacklist:<jti>; a Redis error is answered 500 (see CallFails).
CheckBlacklist(w) ==
    /\ Goto(w, "exists",
            IF Blacklisted(req[w].acc) THEN "idle" ELSE "getTva")
    /\ UNCHANGED <<now, store, redis>>

\* GET tva:<user>: a covered token is refused.  On a Redis error the request
\* is let through, so this can happen to a covered token as well.  The handler
\* behind the middleware gets the user of the token and nothing else.
CheckThreshold(w) ==
    /\ \/ /\ req[w].pc = "getTva"
          /\ req' = [req EXCEPT ![w] = Arriving("serve", "api", req[w].user,
                                                NoPair, NoPair)]
       \/ Goto(w, "getTva", "idle") /\ Covered(req[w].acc)
    /\ UNCHANGED <<now, store, redis>>

\* The handler: LogoutAll, ChangePassword, which has updated the password (or
\* failed to, and ends) before it revokes, or one that revokes nothing.
Serve(w) ==
    /\ req[w].pc = "serve"
    /\ \/ Goto(w, "serve", "idle")
       \/ \E kind \in {"logoutAll", "revoke"} :
             req' = [req EXCEPT ![w] = Arriving("revokeAll", kind, req[w].user,
                                                NoPair, NoPair)]
    /\ UNCHANGED <<now, store, redis>>

\* ResetPassword after the password update: no access token is involved.
ResetPassword(w, u) ==
    /\ Take(w, Arriving("revokeAll", "revoke", u, NoPair, NoPair))
    /\ UNCHANGED <<now, store, redis>>

\* RevokeAllUserTokens; if LogoutAll gets an error it ends.
RevokeAll(w) ==
    /\ req[w].pc = "revokeAll"
    /\ row' = [p \in Pairs |-> IF owner[p] = req[w].user /\ row[p] = "valid"
                               THEN "revoked" ELSE row[p]]
    /\ req' = [req EXCEPT ![w] =
                 [@ EXCEPT !.pc = "stamp",
                           !.before = {p \in Pairs : owner[p] = req[w].user}]]
    /\ UNCHANGED <<now, owner, iat, parent, sent, redis>>

\* UpdateTokensValidAfter
Stamp(w) ==
    /\ Goto(w, "stamp", "threshold")
    /\ UNCHANGED <<now, store, redis>>

\* cacheRevocation evaluates time.Now().Unix()+1 ...
ReadClock(w) ==
    /\ req[w].pc = "threshold"
    /\ req' = [req EXCEPT ![w] = [@ EXCEPT !.pc = "store",
                                          !.mark = RevocationThreshold]]
    /\ UNCHANGED <<now, store, redis>>

\* Mutant: the key lives half as long.
StoreThresholdBriefly(w) ==
    /\ Goto(w, "store", "idle")
    /\ tvaVal' = [tvaVal EXCEPT ![req[w].user] = req[w].mark]
    /\ tvaEnd' = [tvaEnd EXCEPT ![req[w].user] = now + TvaTTL \div 2]
    /\ UNCHANGED <<now, store, blackEnd, early>>

\* ... and the SET reaches Redis later.
StoreThreshold(w) ==
    /\ Goto(w, "store", "idle")
    /\ tvaVal' = [tvaVal EXCEPT ![req[w].user] = req[w].mark]
    /\ tvaEnd' = [tvaEnd EXCEPT ![req[w].user] = now + TvaTTL]
    /\ UNCHANGED <<now, store, blackEnd, early>>

-----------------------------------------------------------------------------
\* Mutant: the ttl is the time since the expiry, not the time until it.
LogoutSinceExpiry(w, a, e, r) ==
    /\ IF a # NoPair
       THEN Take(w, [Arriving("blacklist", "logout", NoUser, a, r)
                       EXCEPT !.mark = now - e])
       ELSE r # NoPair /\ Take(w, Arriving("dropRefresh", "logout",
                                           NoUser, NoPair, r))
    /\ UNCHANGED <<now, store, redis>>

\* Logout, an unauthenticated route: it blacklists the access token if that
\* has time left, then revokes the refresh token; either may be missing.
\* GetClaimsFromExpiredToken does not verify the access token: a is the pair
\* whose jti it names, e the exp claim it carries.
Logout(w, a, e, r) ==
    /\ IF a # NoPair /\ TimeLeft(e) > 0
       THEN /\ Take(w, [Arriving("blacklist", "logout", NoUser, a, r)
                          EXCEPT !.mark = TimeLeft(e)])
            /\ early' = early \cup {p \in {a} : e < iat[p] + AccessTTL}
       ELSE /\ r # NoPair /\ Take(w, Arriving("dropRefresh", "logout",
                                              NoUser, NoPair, r))
            /\ UNCHANGED early
    /\ UNCHANGED <<now, store, tvaVal, tvaEnd, blackEnd>>

AfterBlacklist(r) ==
    IF r.ref # NoPair
    THEN Arriving("dropRefresh", "logout", NoUser, NoPair, r.ref) ELSE Idle

\* SET blacklist:<jti> with the ttl computed before; its error is assigned to _.
Blacklist(w) ==
    /\ req[w].pc = "blacklist"
    /\ req' = [req EXCEPT ![w] = AfterBlacklist(req[w])]
    /\ blackEnd' \in
          {blackEnd, [blackEnd EXCEPT ![req[w].acc] = now + req[w].mark]}
    /\ UNCHANGED <<now, store, tvaVal, tvaEnd, early>>

DropRefresh(w) ==
    /\ Goto(w, "dropRefresh", "idle")
    /\ RevokeRow(req[w].ref)
    /\ UNCHANGED <<now, owner, iat, parent, sent, redis>>

\* Mutant: RefreshToken ignores the error of RevokeToken.
OnErrorKeepRefreshing(w) == IF req[w].pc = "rotate" THEN "mint" ELSE "idle"

\* Mutant: Auth ignores a Redis error of the blacklist, as OptionalAuth does.
OnErrorFailOpen(w) == IF req[w].pc = "exists" THEN "getTva" ELSE "idle"

\* Where a request goes on when its call fails without effect: the errors
\* the code looks at end it, those assigned to _ do not.
OnError(w) ==
    IF req[w].kind = "logoutAll" THEN "idle"
    ELSE IF req[w].pc = "revokeAll" THEN "stamp"
    ELSE IF req[w].pc = "stamp" THEN "threshold"
    ELSE "idle"

CallFails(w) ==
    /\ req[w].pc \in {"mint", "insert", "rotate", "exists", "revokeAll",
                      "stamp", "store", "dropRefresh"}
    /\ Goto(w, req[w].pc, OnError(w))
    /\ UNCHANGED <<now, store, redis>>

-----------------------------------------------------------------------------
\* DeleteExpiredTokens, run hourly by main.go.
DeleteExpiredTokens ==
    /\ \E p \in Pairs : row[p] # "none" /\ Expired(p)
    /\ row' = [p \in Pairs |-> IF Expired(p) THEN "none" ELSE row[p]]
    /\ UNCHANGED <<now, owner, iat, parent, sent, redis, req>>

\* The clock advances and Redis drops the keys that expire.
Tick ==
    /\ now < MaxTime
    /\ now' = now + 1
    /\ tvaVal' = [u \in Users |-> IF tvaEnd[u] <= now' THEN 0 ELSE tvaVal[u]]
    /\ tvaEnd' = [u \in Users |-> IF tvaEnd[u] <= now' THEN 0 ELSE tvaEnd[u]]
    /\ blackEnd' = [p \in Pairs |->
                      IF blackEnd[p] <= now' THEN 0 ELSE blackEnd[p]]
    /\ UNCHANGED <<store, early, req>>

\* A request arrives.
Start(w) ==
    \/ \E u \in Users : Login(w, u) \/ ResetPassword(w, u)
    \/ \E p \in Pairs : Refresh(w, p) \/ RefreshReused(w, p) \/ Arrive(w, p)
    \/ \E p \in sent : \E a, r \in {p, NoPair} :
          \E e \in Exps \cup {iat[p] + AccessTTL} : Logout(w, a, e, r)

\* A request in progress goes on.
Continue(w) ==
    \/ \E p \in Pairs : Mint(w, p)
    \/ Insert(w) \/ Rotate(w)
    \/ CheckBlacklist(w) \/ CheckThreshold(w) \/ Serve(w)
    \/ RevokeAll(w) \/ Stamp(w) \/ ReadClock(w) \/ StoreThreshold(w)
    \/ Blacklist(w) \/ DropRefresh(w)
    \/ CallFails(w)

Next ==
    \/ \E w \in Workers : Start(w) \/ Continue(w)
    \/ \E u \in Users, p \in Pairs : JoinWithPassword(u, p)
    \/ DeleteExpiredTokens
    \/ Tick

Spec == Init /\ [][Next]_vars

-----------------------------------------------------------------------------
\* The refresh token that was exchanged for a new one is never usable beside
\* it, whatever statement failed on the way (RefreshToken revokes the old row
\* before generateAuthResponse inserts the new one).
RotatedOut ==
    \A c \in Pairs : row[c] # "none" /\ parent[c] # NoPair
                        => row[parent[c]] # "valid"

\* When cacheRevocation's SET arrives, every access token that the user held
\* when RevokeAllUserTokens ran is refused from then on, those issued in the
\* same second included.
CutsOff ==
    [][\A w \in Workers : StoreThreshold(w) =>
          \A p \in req[w].before : Covered(p)']_vars

\* A token that the cached threshold covers stays covered for TvaTTL after the
\* second the clock was read ("rejected for up to 20 minutes"), however long it
\* lives: later logins and revocations do not uncover it, except a SET delayed
\* behind the SET of a later revocation.
StaysCutOff ==
    [][\A p \in Pairs :
          Covered(p) /\ now' < tvaVal[owner[p]] - 1 + TvaTTL =>
              \/ Covered(p)'
              \/ \E w \in Workers : /\ StoreThreshold(w)
                                    /\ req[w].mark < tvaVal[owner[p]]]_vars

\* A request that arrives with a blacklisted access token is not let through
\* while that token lives: the key was SET to last that long and a Redis error
\* on this check refuses the request.  It takes that no logout of the token
\* carried an earlier exp than the signed one, since Logout does not verify
\* it and its SET replaces the key that is there.
LoggedOutRefused ==
    [][\A w \in Workers :
          req[w].pc # "serve" /\ req'[w].pc = "serve"
              => ~ /\ req[w].dead /\ Live(req[w].acc)
                   /\ req[w].acc \notin early]_vars

\* "Logged out from all devices" (auth_handler.go): when LogoutAll answers,
\* no refresh token obtained from one it revoked is usable.
LoggedOutFromAllDevices ==
    [][\A w \in Workers :
          StoreThreshold(w) /\ req[w].kind = "logoutAll" =>
              \A c \in Pairs : row[c] = "valid"
                                  => parent[c] \notin req[w].before]_vars
=============================================================================
