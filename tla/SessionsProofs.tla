--------------------------- MODULE SessionsProofs ---------------------------
(***************************************************************************)
(* Proofs about Sessions: type correctness, and that refresh token         *)
(* rotation, cached revocations and the blacklist keep what they promise   *)
(* for any number of workers, users and tokens, any lifetimes, and         *)
(* whatever exp claims Logout meets.                                       *)
(***************************************************************************)
EXTENDS Sessions, TLAPS

\* What is known of a request from the step it has reached: its user, ...
UserOK(r) ==
    r.pc \in {"mint", "rotate", "revokeAll", "stamp", "threshold", "store",
              "exists", "getTva", "serve"} => r.user \in Users

\* ... the refresh tokens it exchanges, issues or drops, ...
RefreshOK(r) ==
    /\ r.pc = "insert" => r.new \in Pairs /\ Minted(r.new) /\ r.new \notin sent
    /\ r.pc = "mint" /\ r.ref # NoPair
          => r.ref \in sent /\ row[r.ref] # "valid"
    /\ r.pc = "rotate" => r.ref \in sent
    /\ r.pc = "dropRefresh" => r.ref \in Pairs

\* ... the access token it presents or blacklists, ...
AccessOK(r) ==
    /\ r.pc \in {"exists", "getTva", "blacklist"}
          => r.acc \in Pairs /\ Minted(r.acc)
    /\ r.pc = "blacklist" /\ r.acc \notin early
          => iat[r.acc] + AccessTTL <= now + r.mark
    /\ r.pc = "exists" /\ r.dead /\ Live(r.acc) /\ r.acc \notin early
          => Blacklisted(r.acc)
    /\ r.pc = "getTva" => ~(r.dead /\ Live(r.acc) /\ r.acc \notin early)

\* ... and the pairs it is revoking.
RevokeOK(r) ==
    /\ r.pc \in {"revokeAll", "stamp", "threshold", "store"}
          => \A p \in r.before : owner[p] = r.user
    /\ r.pc = "store" => /\ 0 < r.mark /\ r.mark <= now + 1
                         /\ \A p \in r.before : iat[p] < r.mark

RequestOK(r) == UserOK(r) /\ RefreshOK(r) /\ AccessOK(r) /\ RevokeOK(r)

\* What is known of a token pair.
PairOK(p) ==
    /\ iat[p] <= now
    /\ p \in sent => Minted(p)
    /\ parent[p] # NoPair => parent[p] \in sent /\ row[parent[p]] # "valid"
    /\ blackEnd[p] # 0 => Minted(p)
    /\ blackEnd[p] # 0 /\ p \notin early => iat[p] + AccessTTL <= blackEnd[p]

\* A cached threshold lives at least TvaTTL past the second it was taken in.
ThresholdOK(u) == tvaVal[u] # 0 => tvaVal[u] + TvaTTL <= tvaEnd[u] + 1

\* No two requests are about to insert the same pair.
DistinctInserts ==
    \A v, w \in Workers :
        req[v].pc = "insert" /\ req[w].pc = "insert" /\ v # w
            => req[v].new # req[w].new

\* The inductive invariant.
IInv ==
    /\ TypeOK
    /\ \A w \in Workers : RequestOK(req[w])
    /\ \A p \in Pairs : PairOK(p)
    /\ \A u \in Users : ThresholdOK(u)
    /\ DistinctInserts
-----------------------------------------------------------------------------
\* What taking a request and going on to another step do to the requests.
LEMMA TakeEffect ==
    ASSUME TypeOK, NEW w \in Workers, NEW r \in Requests, Take(w, r)
    PROVE  /\ req' \in [Workers -> Requests]
           /\ req[w].pc = "idle" /\ req'[w] = r
           /\ \A v \in Workers \ {w} : req'[v] = req[v]
BY DEF TypeOK, Take

LEMMA ArrivingType ==
    ASSUME NEW pc \in Steps, NEW kind \in Kinds,
           NEW user \in Users \cup {NoUser},
           NEW acc \in Pairs \cup {NoPair}, NEW ref \in Pairs \cup {NoPair}
    PROVE  Arriving(pc, kind, user, acc, ref) \in Requests
BY DEF Arriving, Requests

\* Request s is request r gone on to step "to" and otherwise unchanged.
Moved(r, s, to) ==
    /\ s.pc = to /\ s.kind = r.kind /\ s.user = r.user
    /\ s.acc = r.acc /\ s.ref = r.ref /\ s.new = r.new
    /\ s.mark = r.mark /\ s.before = r.before /\ s.dead = r.dead

LEMMA IdleType == Idle \in Requests /\ Idle.pc = "idle"
BY ArrivingType DEF Idle, Arriving, Steps, Kinds

LEMMA GotoEffect ==
    ASSUME TypeOK, NEW w \in Workers, NEW from, NEW to \in Steps,
           Goto(w, from, to)
    PROVE  /\ req' \in [Workers -> Requests]
           /\ req[w].pc = from /\ req'[w].pc = to
           /\ to # "idle" => Moved(req[w], req'[w], to)
           /\ \A v \in Workers \ {w} : req'[v] = req[v]
<1>1. [req[w] EXCEPT !.pc = to] \in Requests
  BY DEF TypeOK, Requests
<1>2. to # "idle" => Moved(req[w], [req[w] EXCEPT !.pc = to], to)
  BY DEF TypeOK, Requests, Moved
<1>3. [req[w] EXCEPT !.pc = to].pc = to
  BY DEF TypeOK, Requests
<1>4. QED
  BY <1>1, <1>2, <1>3, IdleType DEF TypeOK, Goto

LEMMA OnErrorType ==
    ASSUME NEW w \in Workers
    PROVE  OnError(w) \in {"stamp", "threshold", "idle"}
BY DEF OnError

\* What Blacklist does to the requests.
LEMMA BlacklistEffect ==
    ASSUME TypeOK, NEW w \in Workers, Blacklist(w)
    PROVE  /\ req' \in [Workers -> Requests] /\ req[w].pc = "blacklist"
           /\ req'[w].pc \in {"dropRefresh", "idle"}
           /\ req'[w].pc = "dropRefresh" => req'[w].ref \in Pairs
           /\ \A v \in Workers \ {w} : req'[v] = req[v]
<1>1. /\ req[w] \in Requests /\ req[w].pc = "blacklist"
      /\ req' = [req EXCEPT ![w] = AfterBlacklist(req[w])]
  BY DEF TypeOK, Blacklist
<1>2. CASE req[w].ref = NoPair
  BY <1>1, <1>2, IdleType DEF TypeOK, AfterBlacklist
<1>3. CASE req[w].ref # NoPair
  <2> DEFINE r == Arriving("dropRefresh", "logout", NoUser, NoPair, req[w].ref)
  <2>1. req[w].ref \in Pairs
    BY <1>1, <1>3 DEF Requests
  <2>2. r \in Requests /\ r.pc = "dropRefresh" /\ r.ref \in Pairs
    BY <2>1 DEF Arriving, Requests, Steps, Kinds
  <2>3. req' = [req EXCEPT ![w] = r]
    BY <1>1, <1>3 DEF AfterBlacklist
  <2> HIDE DEF r
  <2>4. QED
    BY <1>1, <2>2, <2>3 DEF TypeOK
<1>4. QED
  BY <1>2, <1>3

\* What CheckThreshold does to the requests.
LEMMA ThresholdEffect ==
    ASSUME TypeOK, NEW w \in Workers, CheckThreshold(w)
    PROVE  /\ req' \in [Workers -> Requests] /\ req[w].pc = "getTva"
           /\ req'[w].pc \in {"serve", "idle"}
           /\ req'[w].pc = "serve" => req'[w].user = req[w].user
                                      /\ req'[w].before = {}
           /\ \A v \in Workers \ {w} : req'[v] = req[v]
<1>1. CASE Goto(w, "getTva", "idle")
  BY <1>1, GotoEffect DEF Steps
<1>2. CASE ~Goto(w, "getTva", "idle")
  <2> DEFINE r == Arriving("serve", "api", req[w].user, NoPair, NoPair)
  <2>1. req[w].user \in Users \cup {NoUser}
    BY DEF TypeOK, Requests
  <2>2. /\ r \in Requests /\ r.pc = "serve"
        /\ r.user = req[w].user /\ r.before = {}
    BY <2>1 DEF Arriving, Requests, Steps, Kinds
  <2>3. req[w].pc = "getTva" /\ req' = [req EXCEPT ![w] = r]
    BY <1>2 DEF CheckThreshold
  <2> HIDE DEF r
  <2>4. QED
    BY <2>2, <2>3 DEF TypeOK
<1>3. QED
  BY <1>1, <1>2

-----------------------------------------------------------------------------
LEMMA TypeInit == Init => TypeOK
BY NullAssumption, LifetimeAssumption, ArrivingType
   DEF Init, TypeOK, Idle, Steps, Kinds

\* The exp claims a logout is given are times.
LEMMA LoggedOutExps ==
    ASSUME TypeOK, NEW p \in sent, NEW e \in Exps \cup {iat[p] + AccessTTL}
    PROVE  e \in Nat
BY LifetimeAssumption DEF TypeOK

\* An Insert needs to know that its request holds a pair.
LEMMA TypeStep ==
    TypeOK /\ (\A w \in Workers : RequestOK(req[w])) /\ [Next]_vars => TypeOK'
<1> SUFFICES ASSUME TypeOK, \A w \in Workers : RequestOK(req[w]), [Next]_vars
            PROVE  TypeOK'
  OBVIOUS
<1> USE LifetimeAssumption
<1>1. ASSUME NEW w \in Workers, Start(w) PROVE TypeOK'
  <2>1. ASSUME NEW u \in Users, Login(w, u) PROVE TypeOK'
    BY <2>1, TakeEffect, ArrivingType
       DEF TypeOK, Login, Steps, Kinds, store, redis
  <2>2. ASSUME NEW u \in Users, ResetPassword(w, u) PROVE TypeOK'
    BY <2>2, TakeEffect, ArrivingType
       DEF TypeOK, ResetPassword, Steps, Kinds, store, redis
  <2>3. ASSUME NEW p \in Pairs, Refresh(w, p) PROVE TypeOK'
    <3>1. owner[p] \in Users \cup {NoUser}
      BY DEF TypeOK
    <3>2. QED
      BY <2>3, <3>1, TakeEffect, ArrivingType
         DEF TypeOK, Refresh, Steps, Kinds, store, redis
  <2>4. ASSUME NEW p \in Pairs, RefreshReused(w, p) PROVE TypeOK'
    <3>1. owner[p] \in Users \cup {NoUser}
      BY DEF TypeOK
    <3>2. QED
      BY <2>4, <3>1, TakeEffect, ArrivingType
         DEF TypeOK, RefreshReused, Steps, Kinds, store, redis
  <2>5. ASSUME NEW p \in Pairs, Arrive(w, p)
        PROVE  TypeOK'
    <3> DEFINE r == [Arriving("exists", "api", owner[p], p, NoPair)
                       EXCEPT !.dead = Blacklisted(p)]
    <3>1. Blacklisted(p) \in BOOLEAN
      BY DEF Blacklisted
    <3>2. r \in Requests
      BY <3>1 DEF TypeOK, Requests, Arriving, Steps, Kinds
    <3>3. Take(w, r)
      BY <2>5 DEF Arrive
    <3> HIDE DEF r
    <3>4. QED
      BY <2>5, <3>2, <3>3, TakeEffect DEF TypeOK, Arrive, store, redis
  <2>6. ASSUME NEW p \in sent, NEW a \in {p, NoPair}, NEW r \in {p, NoPair},
               NEW e \in Nat, Logout(w, a, e, r)
        PROVE  TypeOK'
    <3>1. a \in Pairs \cup {NoPair} /\ r \in Pairs \cup {NoPair}
      BY DEF TypeOK
    <3>2. CASE a # NoPair /\ TimeLeft(e) > 0
      <4> DEFINE q == [Arriving("blacklist", "logout", NoUser, a, r)
                         EXCEPT !.mark = TimeLeft(e)]
      <4>1. TimeLeft(e) \in Nat
        BY <3>2 DEF TypeOK, TimeLeft
      <4>2. q \in Requests
        BY <3>1, <4>1 DEF Requests, Arriving, Steps, Kinds
      <4>3. Take(w, q) /\ early' \subseteq early \cup {a}
        BY <2>6, <3>2 DEF Logout
      <4> HIDE DEF q
      <4>4. early' \in SUBSET Pairs
        BY <3>1, <3>2, <4>3 DEF TypeOK
      <4>5. QED
        BY <2>6, <4>2, <4>3, <4>4, TakeEffect DEF TypeOK, Logout, store
    <3>3. CASE ~(a # NoPair /\ TimeLeft(e) > 0)
      BY <2>6, <3>1, <3>3, TakeEffect, ArrivingType
         DEF TypeOK, Logout, Steps, Kinds, store
    <3>4. QED
      BY <3>2, <3>3
  <2>7. QED
    BY <1>1, <2>1, <2>2, <2>3, <2>4, <2>5, <2>6, LoggedOutExps DEF Start
<1>2. ASSUME NEW w \in Workers, Continue(w) PROVE TypeOK'
  <2>1. ASSUME NEW p \in Pairs, Mint(w, p) PROVE TypeOK'
    <3>1. /\ [req[w] EXCEPT !.pc = "insert", !.new = p] \in Requests
          /\ req[w].user \in Users \cup {NoUser}
          /\ req[w].ref \in Pairs \cup {NoPair}
      BY DEF TypeOK, Requests, Steps
    <3>2. req' \in [Workers -> Requests]
      BY <2>1, <3>1 DEF TypeOK, Mint
    <3>3. QED
      BY <2>1, <3>1, <3>2 DEF TypeOK, Mint, redis
  <2>2. CASE Insert(w)
    <3>1. req' \in [Workers -> Requests]
      BY <2>2, GotoEffect DEF Insert, Steps
    <3>2. req[w].new \in Pairs \cup {NoPair} /\ sent' \in SUBSET Pairs
      BY <2>2 DEF TypeOK, RequestOK, RefreshOK, Insert, Goto, Requests
    <3>3. QED
      BY <2>2, <3>1, <3>2 DEF TypeOK, Insert, redis
  <2>3. CASE Rotate(w)
    BY <2>3, GotoEffect DEF TypeOK, Rotate, RevokeRow, Steps, redis
  <2>4. CASE CheckBlacklist(w) \/ CheckThreshold(w) \/ Stamp(w)
    <3>1. CASE CheckBlacklist(w) \/ Stamp(w)
      BY <3>1, GotoEffect
         DEF TypeOK, CheckBlacklist, Stamp, Steps, store, redis
    <3>2. CASE CheckThreshold(w)
      BY <3>2, ThresholdEffect DEF TypeOK, CheckThreshold, store, redis
    <3>3. QED
      BY <2>4, <3>1, <3>2
  <2>5. CASE Serve(w)
    <3>1. req' \in [Workers -> Requests]
      <4>1. CASE Goto(w, "serve", "idle")
        BY <4>1, GotoEffect DEF Steps
      <4>2. ASSUME NEW kind \in {"logoutAll", "revoke"},
                   req' = [req EXCEPT ![w] = Arriving("revokeAll", kind,
                                                req[w].user, NoPair, NoPair)]
            PROVE  req' \in [Workers -> Requests]
        <5>1. req[w].user \in Users \cup {NoUser}
          BY DEF TypeOK, Requests
        <5>2. QED
          BY <4>2, <5>1, ArrivingType DEF TypeOK, Steps, Kinds
      <4>3. QED
        BY <2>5, <4>1, <4>2 DEF Serve
    <3>2. QED
      BY <2>5, <3>1 DEF TypeOK, Serve, store, redis
  <2>6. CASE RevokeAll(w)
    <3> DEFINE owned == {p \in Pairs : owner[p] = req[w].user}
    <3>1. [req[w] EXCEPT !.pc = "stamp", !.before = owned] \in Requests
      BY DEF TypeOK, Requests, Steps
    <3>2. req' \in [Workers -> Requests]
      BY <2>6, <3>1 DEF TypeOK, RevokeAll
    <3>3. QED
      BY <2>6, <3>2 DEF TypeOK, RevokeAll, redis
  <2>7. CASE ReadClock(w)
    <3> DEFINE m == RevocationThreshold
    <3>0. m \in Nat
      BY DEF TypeOK, RevocationThreshold
    <3> HIDE DEF m
    <3>1. [req[w] EXCEPT !.pc = "store", !.mark = m] \in Requests
      BY <3>0 DEF TypeOK, Requests, Steps
    <3>2. req' \in [Workers -> Requests]
      BY <2>7, <3>1 DEF TypeOK, ReadClock, m
    <3>3. QED
      BY <2>7, <3>2 DEF TypeOK, ReadClock, store, redis
  <2>8. CASE StoreThreshold(w)
    <3>1. req' \in [Workers -> Requests]
      BY <2>8, GotoEffect DEF StoreThreshold, Steps
    <3>2. req[w].mark \in Nat /\ now + TvaTTL \in Nat
      BY DEF TypeOK, Requests
    <3>3. tvaVal' \in [Users -> Nat] /\ tvaEnd' \in [Users -> Nat]
      BY <2>8, <3>2 DEF TypeOK, StoreThreshold
    <3>4. QED
      BY <2>8, <3>1, <3>3 DEF TypeOK, StoreThreshold, store
  <2>9. CASE Blacklist(w)
    <3>1. req' \in [Workers -> Requests]
      BY <2>9, BlacklistEffect
    <3>2. now + req[w].mark \in Nat
      BY DEF TypeOK, Requests
    <3>3. blackEnd' \in [Pairs -> Nat]
      BY <2>9, <3>2 DEF TypeOK, Blacklist
    <3>4. QED
      BY <2>9, <3>1, <3>3 DEF TypeOK, Blacklist, store
  <2>10. CASE DropRefresh(w)
    BY <2>10, GotoEffect DEF TypeOK, DropRefresh, RevokeRow, Steps, redis
  <2>11. CASE CallFails(w)
    BY <2>11, GotoEffect, OnErrorType
       DEF TypeOK, CallFails, Steps, store, redis
  <2>12. QED
    BY <1>2, <2>1, <2>2, <2>3, <2>4, <2>5, <2>6, <2>7, <2>8, <2>9, <2>10,
       <2>11 DEF Continue
<1>3. CASE DeleteExpiredTokens
  BY <1>3 DEF TypeOK, DeleteExpiredTokens, redis
<1>4. CASE Tick
  BY <1>4 DEF TypeOK, Tick, store
<1>5. ASSUME NEW u \in Users, NEW p \in Pairs, JoinWithPassword(u, p)
      PROVE  TypeOK'
  BY <1>5 DEF TypeOK, JoinWithPassword, redis
<1>6. CASE UNCHANGED vars
  BY <1>6 DEF TypeOK, vars, store, redis
<1>7. QED
  BY <1>1, <1>2, <1>3, <1>4, <1>5, <1>6 DEF Next

-----------------------------------------------------------------------------
\* What no step undoes, as far as the requests rely on it.
Monotone ==
    /\ now <= now' /\ sent \subseteq sent'
    /\ \A p \in Pairs : Minted(p) => owner'[p] = owner[p] /\ iat'[p] = iat[p]
    /\ \A p \in sent : row[p] # "valid" => row'[p] # "valid"
    /\ early \subseteq early'
    /\ \A p \in Pairs \ early' : Blacklisted(p) /\ Live(p)' => Blacklisted(p)'

\* A request that a step does not touch remains as the invariant says.
LEMMA Frame ==
    ASSUME TypeOK, TypeOK', Monotone, NEW v \in Workers, RequestOK(req[v]),
           req'[v] = req[v], req[v].pc = "insert" => req[v].new \notin sent'
    PROVE  RequestOK(req[v])'
<1> DEFINE r == req[v]
<1>1. r \in Requests /\ r.before \in SUBSET Pairs /\ r.mark \in Nat
      /\ r.user \in Users \cup {NoUser} /\ sent \in SUBSET Pairs
      /\ now \in Nat /\ now' \in Nat
      /\ iat \in [Pairs -> Nat] /\ iat' \in [Pairs -> Nat]
      /\ AccessTTL \in Nat
  BY LifetimeAssumption DEF TypeOK, Requests
<1>2. \A p \in Pairs : Minted(p) => Minted(p)' /\ (Live(p)' => Live(p))
  BY <1>1 DEF Monotone, Minted, Live
<1>3. UserOK(req[v])'
  BY DEF RequestOK, UserOK
<1>4. RefreshOK(req[v])'
  BY <1>1, <1>2 DEF RequestOK, RefreshOK, Monotone
<1>5. AccessOK(req[v])'
  BY <1>1, <1>2 DEF RequestOK, AccessOK, Monotone
<1>6. RevokeOK(req[v])'
  <2> DEFINE revoking == r.pc \in {"revokeAll", "stamp", "threshold", "store"}
  <2>1. revoking => \A p \in r.before : p \in Pairs /\ owner[p] = r.user
    BY <1>1 DEF RequestOK, RevokeOK
  <2>2. revoking => r.user # NoUser
    BY NullAssumption DEF RequestOK, UserOK
  <2>3. revoking => \A p \in r.before : owner'[p] = r.user /\ iat'[p] = iat[p]
    BY <2>1, <2>2 DEF Monotone, Minted
  <2>4. QED
    BY <1>1, <2>3 DEF RequestOK, RevokeOK, Monotone
<1>7. QED
  BY <1>3, <1>4, <1>5, <1>6 DEF RequestOK

\* A step of worker w that changes neither tables nor keys nor the clock.
LEMMA QuietStep ==
    ASSUME IInv, TypeOK', NEW w \in Workers,
           UNCHANGED <<now, store, tvaVal, tvaEnd, blackEnd>>,
           early \subseteq early',
           \A v \in Workers \ {w} : req'[v] = req[v],
           RequestOK(req[w])', req'[w].pc # "insert"
    PROVE  IInv'
<1>1. Monotone
  BY DEF IInv, TypeOK, Monotone, Blacklisted, store
<1>2. ASSUME NEW v \in Workers PROVE RequestOK(req[v])'
  BY <1>1, Frame DEF IInv, RequestOK, RefreshOK, store
<1>3. ASSUME NEW p \in Pairs PROVE PairOK(p)'
  BY DEF IInv, PairOK, Minted, store
<1>4. ASSUME NEW u \in Users PROVE ThresholdOK(u)'
  BY DEF IInv, ThresholdOK
<1>5. DistinctInserts'
  BY DEF IInv, DistinctInserts
<1>6. QED
  BY <1>2, <1>3, <1>4, <1>5 DEF IInv

\* Every request that arrives is as the invariant says.
LEMMA StartStep ==
    ASSUME IInv, TypeOK', NEW w \in Workers, Start(w)
    PROVE  IInv'
<1> USE NullAssumption, LifetimeAssumption
<1>1. TypeOK
  BY DEF IInv
<1>2. SUFFICES /\ UNCHANGED <<now, store, tvaVal, tvaEnd, blackEnd>>
               /\ early \subseteq early'
               /\ \A v \in Workers \ {w} : req'[v] = req[v]
               /\ RequestOK(req[w])' /\ req'[w].pc # "insert"
  BY QuietStep
<1>3. /\ UNCHANGED <<now, store, tvaVal, tvaEnd, blackEnd>>
      /\ early \subseteq early'
  BY DEF Start, Login, ResetPassword, Refresh, RefreshReused, Arrive, Logout,
         redis
<1>4. \A v \in Workers \ {w} : req'[v] = req[v]
  BY <1>1 DEF Start, Login, ResetPassword, Refresh, RefreshReused, Arrive,
              Logout, Take, TypeOK
<1>5. RequestOK(req[w])' /\ req'[w].pc # "insert"
  <2>1. ASSUME NEW u \in Users, Login(w, u) \/ ResetPassword(w, u)
        PROVE  RequestOK(req[w])' /\ req'[w].pc # "insert"
    BY <1>1, <2>1 DEF Login, ResetPassword, Take, TypeOK, Arriving, RequestOK, UserOK, RefreshOK, AccessOK, RevokeOK
  <2>2. ASSUME NEW p \in Pairs, Refresh(w, p) \/ RefreshReused(w, p)
        PROVE  RequestOK(req[w])' /\ req'[w].pc # "insert"
    <3>1. owner[p] \in Users
      BY <2>2 DEF Refresh, RefreshReused, IInv, PairOK, TypeOK, Minted
    <3>2. QED
      BY <1>1, <2>2, <3>1, <1>3
         DEF Refresh, RefreshReused, Take, TypeOK, Arriving, RequestOK, UserOK, RefreshOK, AccessOK, RevokeOK, store
  <2>3. ASSUME NEW p \in Pairs, Arrive(w, p)
        PROVE  RequestOK(req[w])' /\ req'[w].pc # "insert"
    <3>1. owner[p] \in Users /\ Minted(p)
      BY <2>3 DEF Arrive, IInv, PairOK, TypeOK, Minted
    <3>2. req'[w] = [Arriving("exists", "api", owner[p], p, NoPair)
                       EXCEPT !.dead = Blacklisted(p)]
      BY <1>1, <2>3 DEF Arrive, Take, TypeOK
    <3>3. Minted(p)' /\ (Blacklisted(p)' <=> Blacklisted(p))
      BY <1>3, <3>1 DEF Minted, Blacklisted, store
    <3>4. QED
      BY <3>1, <3>2, <3>3, <1>3 DEF Arriving, RequestOK, UserOK, RefreshOK, AccessOK, RevokeOK,
             Live, store
  <2>4. ASSUME NEW p \in sent, NEW a \in {p, NoPair}, NEW r \in {p, NoPair},
               NEW e \in Nat, Logout(w, a, e, r)
        PROVE  RequestOK(req[w])' /\ req'[w].pc # "insert"
    <3>1. p \in Pairs /\ Minted(p)
      BY DEF IInv, PairOK, TypeOK
    <3>2. CASE a # NoPair /\ TimeLeft(e) > 0
      <4>1. req'[w] = [Arriving("blacklist", "logout", NoUser, a, r)
                         EXCEPT !.mark = TimeLeft(e)]
        BY <1>1, <2>4, <3>2 DEF Logout, Take, TypeOK
      <4>2. a = p /\ (a \notin early' => iat[a] + AccessTTL <= now + TimeLeft(e))
        BY <1>1, <2>4, <3>1, <3>2 DEF Logout, TimeLeft, TypeOK
      <4>3. QED
        BY <1>3, <3>1, <3>2, <4>1, <4>2
           DEF Arriving, RequestOK, UserOK, RefreshOK, AccessOK, RevokeOK, Minted, store
    <3>3. CASE ~(a # NoPair /\ TimeLeft(e) > 0)
      BY <1>1, <2>4, <3>1, <3>3
         DEF Logout, Take, TypeOK, Arriving, RequestOK, UserOK, RefreshOK, AccessOK, RevokeOK
    <3>4. QED
      BY <3>2, <3>3
  <2>5. QED
    BY <1>1, <2>1, <2>2, <2>3, <2>4, LoggedOutExps DEF Start
<1>6. QED
  BY <1>3, <1>4, <1>5

-----------------------------------------------------------------------------
\* The steps of a request in progress preserve the invariant.
LEMMA QuietContinue ==
    ASSUME IInv, TypeOK', NEW w \in Workers,
           CheckBlacklist(w) \/ CheckThreshold(w) \/ Serve(w) \/ Stamp(w)
           \/ ReadClock(w) \/ CallFails(w)
    PROVE  IInv'
<1> USE NullAssumption, LifetimeAssumption
<1>1. TypeOK /\ RequestOK(req[w])
  BY DEF IInv
<1>2. SUFFICES /\ UNCHANGED <<now, store, redis, tvaVal, tvaEnd, blackEnd, early>>
               /\ \A v \in Workers \ {w} : req'[v] = req[v]
               /\ RequestOK(req[w])' /\ req'[w].pc # "insert"
  BY QuietStep
<1>3. UNCHANGED <<now, store, redis, tvaVal, tvaEnd, blackEnd, early>>
  BY DEF CheckBlacklist, CheckThreshold, Serve, Stamp, ReadClock, CallFails, redis
<1>4. req[w] \in Requests
  BY <1>1 DEF TypeOK
<1>5. ASSUME req'[w].pc = "idle" PROVE RequestOK(req[w])'
  BY <1>5 DEF RequestOK, UserOK, RefreshOK, AccessOK, RevokeOK
<1>6. CASE CheckBlacklist(w)
  <2> DEFINE to == IF Blacklisted(req[w].acc) THEN "idle" ELSE "getTva"
  <2>1. to \in Steps /\ Goto(w, "exists", to)
    BY <1>6 DEF CheckBlacklist, Steps
  <2>2. to \in {"idle", "getTva"} /\ (to = "getTva" => ~Blacklisted(req[w].acc))
    OBVIOUS
  <2> HIDE DEF to
  <2>3. CASE to = "getTva"
    BY <1>1, <1>3, <2>1, <2>2, <2>3, GotoEffect
       DEF Moved, RequestOK, UserOK, RefreshOK, AccessOK, RevokeOK,
           Minted, Live, Blacklisted, store, redis
  <2>4. QED
    BY <1>1, <1>3, <1>5, <2>1, <2>2, <2>3, GotoEffect
<1>7. CASE CheckThreshold(w)
  BY <1>1, <1>3, <1>5, <1>7, ThresholdEffect
     DEF RequestOK, UserOK, RefreshOK, AccessOK, RevokeOK
<1>8. CASE Serve(w)
  <2>1. CASE Goto(w, "serve", "idle")
    BY <1>1, <1>3, <1>5, <2>1, GotoEffect DEF Steps
  <2>2. ASSUME NEW kind \in {"logoutAll", "revoke"},
               req' = [req EXCEPT ![w] = Arriving("revokeAll", kind,
                                            req[w].user, NoPair, NoPair)]
        PROVE  /\ \A v \in Workers \ {w} : req'[v] = req[v]
               /\ RequestOK(req[w])' /\ req'[w].pc # "insert"
    BY <1>1, <1>3, <1>8, <2>2
       DEF Serve, TypeOK, Arriving, RequestOK, UserOK, RefreshOK, AccessOK,
           RevokeOK
  <2>3. QED
    BY <1>3, <1>8, <2>1, <2>2 DEF Serve
<1>9. CASE Stamp(w)
  BY <1>1, <1>3, <1>9, GotoEffect
     DEF Stamp, Moved, Steps, RequestOK, UserOK, RefreshOK, AccessOK, RevokeOK,
         store
<1>10. CASE ReadClock(w)
  <2> DEFINE m == RevocationThreshold
  <2>1. m = now + 1
    BY DEF RevocationThreshold
  <2> HIDE DEF m
  <2>2. /\ req[w].pc = "threshold"
        /\ req' = [req EXCEPT ![w] = [@ EXCEPT !.pc = "store", !.mark = m]]
    BY <1>10 DEF ReadClock, m
  <2>3. /\ req'[w].pc = "store" /\ req'[w].mark = m
        /\ req'[w].user = req[w].user /\ req'[w].before = req[w].before
        /\ \A v \in Workers \ {w} : req'[v] = req[v]
    BY <1>1, <1>4, <2>2 DEF TypeOK, Requests
  <2>4. \A p \in req[w].before : iat[p] < m /\ owner[p] = req[w].user
    BY <1>1, <1>4, <2>1, <2>2
       DEF IInv, PairOK, TypeOK, RequestOK, RevokeOK, Requests
  <2>5. 0 < m /\ m <= now + 1
    BY <1>1, <2>1 DEF TypeOK
  <2>6. QED
    BY <1>1, <1>3, <2>2, <2>3, <2>4, <2>5
       DEF RequestOK, UserOK, RefreshOK, AccessOK, RevokeOK, store
<1>11. CASE CallFails(w)
  <2>1. OnError(w) \in Steps /\ Goto(w, req[w].pc, OnError(w))
    BY <1>11, OnErrorType DEF CallFails, Steps
  <2>2. CASE OnError(w) = "idle"
    BY <1>1, <1>3, <1>5, <2>1, <2>2, GotoEffect
  <2>3. CASE OnError(w) \in {"stamp", "threshold"}
    <3>1. req[w].pc \in {"revokeAll", "stamp"}
      BY <2>3 DEF OnError
    <3>2. QED
      BY <1>1, <1>3, <2>1, <2>3, <3>1, GotoEffect
         DEF Moved, RequestOK, UserOK, RefreshOK, AccessOK, RevokeOK, store
  <2>4. QED
    BY <2>2, <2>3, OnErrorType
<1>12. QED
  BY <1>3, <1>6, <1>7, <1>8, <1>9, <1>10, <1>11

LEMMA IdleIsOK ==
    ASSUME NEW w \in Workers, req'[w].pc = "idle"
    PROVE  RequestOK(req[w])'
BY DEF RequestOK, UserOK, RefreshOK, AccessOK, RevokeOK

\* A step of worker w that writes a table or a key.
LEMMA WriteStep ==
    ASSUME IInv, TypeOK', NEW w \in Workers, Monotone,
           \A v \in Workers \ {w} : req'[v] = req[v],
           \A v \in Workers \ {w} :
              req[v].pc = "insert" => req[v].new \notin sent',
           RequestOK(req[w])', \A p \in Pairs : PairOK(p)',
           \A u \in Users : ThresholdOK(u)', DistinctInserts'
    PROVE  IInv'
<1>1. ASSUME NEW v \in Workers \ {w} PROVE RequestOK(req[v])'
  BY Frame DEF IInv
<1>2. QED
  BY <1>1 DEF IInv

LEMMA MintStep ==
    ASSUME IInv, TypeOK', NEW w \in Workers, NEW p \in Pairs, Mint(w, p)
    PROVE  IInv'
<1> USE NullAssumption, LifetimeAssumption
<1>1. TypeOK /\ RequestOK(req[w]) /\ req[w] \in Requests
  BY DEF IInv, TypeOK
<1>2. /\ req[w].pc = "mint" /\ ~Minted(p)
      /\ owner' = [owner EXCEPT ![p] = req[w].user]
      /\ iat' = [iat EXCEPT ![p] = now]
      /\ parent' = [parent EXCEPT ![p] = req[w].ref]
      /\ UNCHANGED <<now, row, sent, redis>>
  BY DEF Mint
<1>3. /\ req'[w].pc = "insert" /\ req'[w].new = p
      /\ \A v \in Workers \ {w} : req'[v] = req[v]
  BY <1>1 DEF Mint, TypeOK, Requests
<1>4. req[w].user \in Users /\ req[w].user # NoUser
  BY <1>1, <1>2 DEF RequestOK, UserOK
<1>5. p \notin sent
  BY <1>2 DEF IInv, PairOK
<1>6. Monotone
  BY <1>1, <1>2 DEF Monotone, Minted, Blacklisted, TypeOK, redis
<1>7. Minted(p)'
  BY <1>1, <1>2, <1>4 DEF Minted, TypeOK
<1>8. RequestOK(req[w])'
  BY <1>2, <1>3, <1>5, <1>7
     DEF RequestOK, UserOK, RefreshOK, AccessOK, RevokeOK
<1>9. ASSUME NEW q \in Pairs PROVE PairOK(q)'
  <2>1. CASE q = p
    BY <1>1, <1>2, <1>5, <1>7, <2>1
       DEF IInv, PairOK, TypeOK, Minted, RequestOK, RefreshOK, redis
  <2>2. CASE q # p
    BY <1>1, <1>2, <2>2 DEF IInv, PairOK, TypeOK, Minted, redis
  <2>3. QED
    BY <2>1, <2>2
<1>10. ASSUME NEW u \in Users PROVE ThresholdOK(u)'
  BY <1>2 DEF IInv, ThresholdOK, redis
<1>11. ASSUME NEW v \in Workers \ {w}, req[v].pc = "insert"
       PROVE  req[v].new # p /\ req[v].new \notin sent'
  BY <1>2, <1>11 DEF IInv, RequestOK, RefreshOK
<1>12. DistinctInserts'
  BY <1>3, <1>11 DEF IInv, DistinctInserts
<1>13. QED
  BY <1>3, <1>6, <1>8, <1>9, <1>10, <1>11, <1>12, WriteStep

LEMMA InsertStep ==
    ASSUME IInv, TypeOK', NEW w \in Workers, Insert(w)
    PROVE  IInv'
<1> USE NullAssumption, LifetimeAssumption
<1>1. TypeOK /\ RequestOK(req[w])
  BY DEF IInv, TypeOK
<1>2. /\ req[w].pc = "insert" /\ req'[w].pc = "idle"
      /\ \A v \in Workers \ {w} : req'[v] = req[v]
  BY <1>1, GotoEffect DEF Insert, Steps
<1> DEFINE n == req[w].new
<1>3. n \in Pairs /\ Minted(n) /\ n \notin sent
  BY <1>1, <1>2 DEF RequestOK, RefreshOK
<1>4. /\ row' = [row EXCEPT ![n] = "valid"]
      /\ sent \subseteq sent' /\ sent' \subseteq sent \cup {n}
      /\ UNCHANGED <<now, owner, iat, parent, redis>>
  BY DEF Insert
<1>5. Monotone
  BY <1>1, <1>3, <1>4 DEF Monotone, Minted, Blacklisted, TypeOK, redis
<1>6. ASSUME NEW p \in Pairs PROVE PairOK(p)'
  BY <1>1, <1>3, <1>4 DEF IInv, PairOK, TypeOK, Minted, redis
<1>7. ASSUME NEW u \in Users PROVE ThresholdOK(u)'
  BY <1>4 DEF IInv, ThresholdOK, redis
<1>8. ASSUME NEW v \in Workers \ {w}, req[v].pc = "insert"
      PROVE  req[v].new \notin sent'
  BY <1>2, <1>4, <1>8 DEF IInv, DistinctInserts, RequestOK, RefreshOK
<1>9. DistinctInserts'
  BY <1>2 DEF IInv, DistinctInserts
<1>10. QED
  BY <1>2, <1>5, <1>6, <1>7, <1>8, <1>9, IdleIsOK, WriteStep

\* Rotate, RevokeAll and DropRefresh only turn valid rows into revoked ones.
LEMMA RevokeStep ==
    ASSUME IInv, TypeOK', NEW w \in Workers,
           Rotate(w) \/ RevokeAll(w) \/ DropRefresh(w)
    PROVE  IInv'
<1> USE NullAssumption, LifetimeAssumption
<1>1. TypeOK /\ RequestOK(req[w]) /\ req[w] \in Requests
  BY DEF IInv, TypeOK
<1>2. UNCHANGED <<now, owner, iat, parent, sent, redis>>
  BY DEF Rotate, RevokeAll, DropRefresh
<1>3. \A p \in Pairs : row[p] # "valid" => row'[p] # "valid"
  BY <1>1 DEF Rotate, RevokeAll, DropRefresh, RevokeRow, TypeOK
<1>4. Monotone
  BY <1>1, <1>2, <1>3 DEF Monotone, Blacklisted, TypeOK, redis
<1>5. ASSUME NEW p \in Pairs PROVE PairOK(p)'
  BY <1>1, <1>2, <1>3 DEF IInv, PairOK, TypeOK, Minted, redis
<1>6. ASSUME NEW u \in Users PROVE ThresholdOK(u)'
  BY <1>2 DEF IInv, ThresholdOK, redis
<1>7. /\ \A v \in Workers \ {w} : req'[v] = req[v]
      /\ RequestOK(req[w])' /\ req'[w].pc # "insert"
  <2>1. CASE Rotate(w) /\ Goto(w, "rotate", "mint")
    <3>1. Moved(req[w], req'[w], "mint") /\ req[w].pc = "rotate"
          /\ \A v \in Workers \ {w} : req'[v] = req[v]
      BY <1>1, <2>1, GotoEffect DEF Steps
    <3>2. req[w].ref \in sent /\ req[w].ref \in Pairs
      BY <1>1, <3>1 DEF RequestOK, RefreshOK, TypeOK
    <3>3. row'[req[w].ref] # "valid"
      BY <1>1, <2>1, <3>2 DEF Rotate, RevokeRow, TypeOK
    <3>4. QED
      BY <1>1, <1>2, <3>1, <3>2, <3>3
         DEF Moved, RequestOK, UserOK, RefreshOK, AccessOK, RevokeOK
  <2>2. CASE Goto(w, "rotate", "idle") \/ Goto(w, "dropRefresh", "idle")
    BY <1>1, <2>2, GotoEffect, IdleIsOK DEF Steps
  <2>3. CASE RevokeAll(w)
    <3> DEFINE owned == {p \in Pairs : owner[p] = req[w].user}
    <3>1. /\ req[w].pc = "revokeAll" /\ req'[w].pc = "stamp"
          /\ req'[w].user = req[w].user /\ req'[w].before = owned
          /\ \A v \in Workers \ {w} : req'[v] = req[v]
      BY <1>1, <2>3 DEF RevokeAll, TypeOK, Requests
    <3>2. QED
      BY <1>1, <1>2, <3>1
         DEF RequestOK, UserOK, RefreshOK, AccessOK, RevokeOK
  <2>4. QED
    BY <2>1, <2>2, <2>3 DEF Rotate, DropRefresh
<1>8. ASSUME NEW v \in Workers \ {w}, req[v].pc = "insert"
      PROVE  req[v].new \notin sent'
  BY <1>2, <1>8 DEF IInv, RequestOK, RefreshOK
<1>9. DistinctInserts'
  BY <1>7 DEF IInv, DistinctInserts
<1>10. QED
  BY <1>4, <1>5, <1>6, <1>7, <1>8, <1>9, WriteStep

LEMMA StoreThresholdStep ==
    ASSUME IInv, TypeOK', NEW w \in Workers, StoreThreshold(w)
    PROVE  IInv' /\ \A p \in req[w].before : Covered(p)'
<1> USE NullAssumption, LifetimeAssumption
<1>1. TypeOK /\ RequestOK(req[w]) /\ req[w] \in Requests
  BY DEF IInv, TypeOK
<1>2. /\ req[w].pc = "store" /\ req'[w].pc = "idle"
      /\ \A v \in Workers \ {w} : req'[v] = req[v]
  BY <1>1, GotoEffect DEF StoreThreshold, Steps
<1> DEFINE u == req[w].user
           m == req[w].mark
<1>3. u \in Users /\ m \in Nat /\ 0 < m /\ m <= now + 1
      /\ \A p \in req[w].before : p \in Pairs /\ owner[p] = u /\ iat[p] < m
  BY <1>1, <1>2 DEF RequestOK, UserOK, RevokeOK, Requests
<1>4. /\ tvaVal' = [tvaVal EXCEPT ![u] = m]
      /\ tvaEnd' = [tvaEnd EXCEPT ![u] = now + TvaTTL]
      /\ UNCHANGED <<now, store, blackEnd, early>>
  BY DEF StoreThreshold
<1> HIDE DEF u, m
<1>5. Monotone
  BY <1>1, <1>4 DEF Monotone, Blacklisted, TypeOK, store
<1>6. ASSUME NEW p \in Pairs PROVE PairOK(p)'
  BY <1>4 DEF IInv, PairOK, Minted, store
<1>7. ASSUME NEW x \in Users PROVE ThresholdOK(x)'
  BY <1>1, <1>3, <1>4 DEF IInv, ThresholdOK, TypeOK
<1>8. DistinctInserts'
  BY <1>2 DEF IInv, DistinctInserts
<1>9. ASSUME NEW v \in Workers \ {w}, req[v].pc = "insert"
      PROVE  req[v].new \notin sent'
  BY <1>4, <1>9 DEF IInv, RequestOK, RefreshOK, store
<1>10. IInv'
  BY <1>2, <1>5, <1>6, <1>7, <1>8, <1>9, IdleIsOK, WriteStep
<1>11. ASSUME NEW p \in req[w].before PROVE Covered(p)'
  <2>1. p \in Pairs /\ owner'[p] = u /\ iat'[p] = iat[p] /\ iat[p] < m
    BY <1>3, <1>4 DEF store
  <2>2. tvaVal'[u] = m /\ u # NoUser
    BY <1>1, <1>3, <1>4 DEF TypeOK
  <2>3. QED
    BY <1>3, <2>1, <2>2 DEF Covered, Minted
<1>12. QED
  BY <1>10, <1>11

LEMMA BlacklistStep ==
    ASSUME IInv, TypeOK', NEW w \in Workers, Blacklist(w)
    PROVE  IInv'
<1> USE NullAssumption, LifetimeAssumption
<1>1. TypeOK /\ RequestOK(req[w]) /\ req[w] \in Requests
  BY DEF IInv, TypeOK
<1>3. /\ req[w].pc = "blacklist"
      /\ req'[w].pc \in {"dropRefresh", "idle"}
      /\ req'[w].pc = "dropRefresh" => req'[w].ref \in Pairs
      /\ \A v \in Workers \ {w} : req'[v] = req[v]
  BY <1>1, BlacklistEffect
<1> DEFINE a == req[w].acc
           end == now + req[w].mark
<1>4. /\ a \in Pairs /\ Minted(a) /\ end \in Nat
      /\ a \notin early => iat[a] + AccessTTL <= end /\ end # 0
  BY <1>1, <1>3 DEF RequestOK, AccessOK, TypeOK, Requests
<1>5. /\ blackEnd' \in {blackEnd, [blackEnd EXCEPT ![a] = end]}
      /\ UNCHANGED <<now, store, tvaVal, tvaEnd, early>>
  BY DEF Blacklist
<1> HIDE DEF a, end
<1>6. Monotone
  BY <1>1, <1>4, <1>5 DEF Monotone, Blacklisted, TypeOK, store
<1>7. ASSUME NEW p \in Pairs PROVE PairOK(p)'
  BY <1>1, <1>4, <1>5 DEF IInv, PairOK, TypeOK, Minted, store
<1>8. ASSUME NEW u \in Users PROVE ThresholdOK(u)'
  BY <1>5 DEF IInv, ThresholdOK
<1>9. RequestOK(req[w])' /\ req'[w].pc # "insert"
  BY <1>3 DEF RequestOK, UserOK, RefreshOK, AccessOK, RevokeOK
<1>10. DistinctInserts'
  BY <1>3, <1>9 DEF IInv, DistinctInserts
<1>11. ASSUME NEW v \in Workers \ {w}, req[v].pc = "insert"
       PROVE  req[v].new \notin sent'
  BY <1>5, <1>11 DEF IInv, RequestOK, RefreshOK, store
<1>12. QED
  BY <1>3, <1>6, <1>7, <1>8, <1>9, <1>10, <1>11, WriteStep

\* The steps that belong to no request.
LEMMA EnvironmentStep ==
    ASSUME IInv, TypeOK', DeleteExpiredTokens \/ Tick
    PROVE  IInv'
<1> USE NullAssumption, LifetimeAssumption
<1>1. TypeOK
  BY DEF IInv
<1>2. /\ UNCHANGED <<owner, iat, parent, sent, early, req>> /\ now <= now'
      /\ \A p \in Pairs : row[p] # "valid" => row'[p] # "valid"
      /\ \A u \in Users :
            \/ tvaVal'[u] = 0
            \/ tvaVal'[u] = tvaVal[u] /\ tvaEnd'[u] = tvaEnd[u]
      /\ \A p \in Pairs :
            \/ blackEnd'[p] = blackEnd[p]
            \/ blackEnd'[p] = 0 /\ blackEnd[p] <= now'
  BY <1>1 DEF DeleteExpiredTokens, Tick, TypeOK, store, redis
<1>3. Monotone
  <2>1. ASSUME NEW p \in Pairs \ early', Blacklisted(p), Live(p)'
        PROVE  Blacklisted(p)'
    BY <1>1, <1>2, <2>1 DEF Blacklisted, Live, IInv, PairOK, TypeOK
  <2>2. QED
    BY <1>1, <1>2, <2>1 DEF Monotone, TypeOK
<1>4. ASSUME NEW w \in Workers PROVE RequestOK(req[w])'
  BY <1>1, <1>2, <1>3, Frame DEF IInv, RequestOK, RefreshOK
<1>5. ASSUME NEW p \in Pairs PROVE PairOK(p)'
  BY <1>1, <1>2 DEF IInv, PairOK, TypeOK, Minted
<1>6. ASSUME NEW u \in Users PROVE ThresholdOK(u)'
  BY <1>2 DEF IInv, ThresholdOK
<1>7. DistinctInserts'
  BY <1>2 DEF IInv, DistinctInserts
<1>8. QED
  BY <1>4, <1>5, <1>6, <1>7 DEF IInv

LEMMA JoinStep ==
    ASSUME IInv, TypeOK', NEW u \in Users, NEW p \in Pairs,
           JoinWithPassword(u, p)
    PROVE  IInv'
<1> USE NullAssumption, LifetimeAssumption
<1>1. TypeOK
  BY DEF IInv
<1>2. /\ ~Minted(p) /\ u # NoUser
      /\ owner' = [owner EXCEPT ![p] = u]
      /\ iat' = [iat EXCEPT ![p] = now]
      /\ sent' = sent \cup {p}
      /\ UNCHANGED <<now, parent, row, redis, req>>
  BY DEF JoinWithPassword
<1>3. Monotone
  BY <1>1, <1>2 DEF Monotone, Minted, Blacklisted, TypeOK, redis
<1>4. p \notin sent /\ Minted(p)'
  BY <1>1, <1>2 DEF IInv, PairOK, Minted, TypeOK
<1>5. ASSUME NEW w \in Workers PROVE RequestOK(req[w])'
  <2>1. req[w].pc = "insert" => req[w].new \notin sent'
    BY <1>2 DEF IInv, RequestOK, RefreshOK
  <2>2. QED
    BY <1>1, <1>2, <1>3, <2>1, Frame DEF IInv
<1>6. ASSUME NEW q \in Pairs PROVE PairOK(q)'
  <2>1. CASE q = p
    BY <1>1, <1>2, <1>4, <2>1 DEF IInv, PairOK, TypeOK, Minted, redis
  <2>2. CASE q # p
    BY <1>1, <1>2, <2>2 DEF IInv, PairOK, TypeOK, Minted, redis
  <2>3. QED
    BY <2>1, <2>2
<1>7. ASSUME NEW v \in Users PROVE ThresholdOK(v)'
  BY <1>2 DEF IInv, ThresholdOK, redis
<1>8. DistinctInserts'
  BY <1>2 DEF IInv, DistinctInserts
<1>9. QED
  BY <1>5, <1>6, <1>7, <1>8 DEF IInv

-----------------------------------------------------------------------------
\* The invariant holds at the start and every step preserves it.
LEMMA InvInit == Init => IInv
<1> SUFFICES ASSUME Init PROVE IInv
  OBVIOUS
<1>1. \A w \in Workers : RequestOK(req[w])
  BY DEF Init, Idle, Arriving, RequestOK, UserOK, RefreshOK, AccessOK, RevokeOK
<1>2. \A p \in Pairs : PairOK(p)
  BY DEF Init, PairOK
<1>3. \A u \in Users : ThresholdOK(u)
  BY DEF Init, ThresholdOK
<1>4. DistinctInserts
  BY DEF Init, Idle, Arriving, DistinctInserts
<1>5. QED
  BY <1>1, <1>2, <1>3, <1>4, TypeInit DEF IInv

LEMMA InvStep == IInv /\ [Next]_vars => IInv'
<1> SUFFICES ASSUME IInv, [Next]_vars PROVE IInv'
  OBVIOUS
<1>1. TypeOK'
  BY TypeStep DEF IInv
<1>2. ASSUME NEW w \in Workers, Start(w) PROVE IInv'
  BY <1>1, <1>2, StartStep
<1>3. ASSUME NEW w \in Workers, Continue(w) PROVE IInv'
  BY <1>1, <1>3, MintStep, InsertStep, RevokeStep, QuietContinue,
     StoreThresholdStep, BlacklistStep DEF Continue
<1>4. CASE DeleteExpiredTokens \/ Tick
  BY <1>1, <1>4, EnvironmentStep
<1>5. CASE UNCHANGED vars
  <2>1. /\ Monotone /\ UNCHANGED <<now, store, redis, req>>
    BY <1>5 DEF vars, store, redis, Monotone, Blacklisted, IInv, TypeOK
  <2>2. ASSUME NEW w \in Workers PROVE RequestOK(req[w])'
    BY <1>1, <2>1, Frame DEF IInv, RequestOK, RefreshOK, store
  <2>3. ASSUME NEW p \in Pairs PROVE PairOK(p)'
    BY <2>1 DEF IInv, PairOK, Minted, store, redis
  <2>4. ASSUME NEW u \in Users PROVE ThresholdOK(u)'
    BY <2>1 DEF IInv, ThresholdOK, redis
  <2>5. DistinctInserts'
    BY <2>1 DEF IInv, DistinctInserts
  <2>6. QED
    BY <1>1, <2>2, <2>3, <2>4, <2>5 DEF IInv
<1>6. ASSUME NEW u \in Users, NEW p \in Pairs, JoinWithPassword(u, p)
      PROVE  IInv'
  BY <1>1, <1>6, JoinStep
<1>7. QED
  BY <1>2, <1>3, <1>4, <1>5, <1>6 DEF Next

THEOREM Invariance == Spec => []IInv
BY InvInit, InvStep, PTL DEF Spec

-----------------------------------------------------------------------------
\* Every state is well typed: the tables and keys hold what the schema and
\* the Redis commands put there, and no time or ttl becomes negative.
THEOREM TypeCorrect == Spec => []TypeOK
<1>1. IInv => TypeOK
  BY DEF IInv
<1>2. QED
  BY <1>1, Invariance, PTL

\* Refresh token rotation: a token that was exchanged (RefreshToken) is never
\* usable beside the one it was exchanged for.
THEOREM RotationIsSafe == Spec => []RotatedOut
<1>1. IInv => RotatedOut
  BY DEF IInv, PairOK, RotatedOut
<1>2. QED
  BY <1>1, Invariance, PTL

\* A revocation that reaches Redis (cacheRevocation) cuts off every access
\* token its user held when the refresh tokens were revoked.
THEOREM RevocationCutsOff == Spec => CutsOff
<1> DEFINE A == \A w \in Workers :
                  StoreThreshold(w) => \A p \in req[w].before : Covered(p)'
<1>1. IInv /\ IInv' /\ [Next]_vars => [A]_vars
  BY StoreThresholdStep DEF IInv
<1>2. QED
  BY <1>1, Invariance, PTL DEF Spec, CutsOff

\* A token that a cached revocation covers stays refused by IsTokenRevoked
\* for TvaTTL, whatever its own lifetime is, unless the SET of an older
\* revocation arrives late.
THEOREM CutOffLasts == Spec => StaysCutOff
<1> DEFINE A == \A p \in Pairs :
                   Covered(p) /\ now' < tvaVal[owner[p]] - 1 + TvaTTL =>
                      \/ Covered(p)'
                      \/ \E w \in Workers : /\ StoreThreshold(w)
                                            /\ req[w].mark < tvaVal[owner[p]]
<1>1. ASSUME IInv, [Next]_vars PROVE A
  <2> USE LifetimeAssumption
  <2> SUFFICES ASSUME NEW p \in Pairs, Covered(p),
                      now' < tvaVal[owner[p]] - 1 + TvaTTL,
                      \A w \in Workers : StoreThreshold(w)
                          => ~(req[w].mark < tvaVal[owner[p]])
               PROVE  Covered(p)'
    OBVIOUS
  <2>1. TypeOK /\ Minted(p) /\ owner[p] \in Users
    BY <1>1 DEF IInv, TypeOK, Covered, Minted
  <2>3. CASE Tick
    <3>1. /\ now' = now + 1 /\ owner' = owner /\ iat' = iat
          /\ \A u \in Users : tvaVal'[u] =
                (IF tvaEnd[u] <= now' THEN 0 ELSE tvaVal[u])
      BY <2>3 DEF Tick, store
    <3>2. tvaVal[owner[p]] + TvaTTL <= tvaEnd[owner[p]] + 1
      BY <1>1, <2>1 DEF IInv, ThresholdOK, Covered
    <3>3. ~(tvaEnd[owner[p]] <= now')
      BY <2>1, <3>1, <3>2 DEF TypeOK
    <3>4. QED
      BY <2>1, <3>1, <3>3 DEF Covered, Minted
  <2>4. ASSUME NEW w \in Workers, StoreThreshold(w)
        PROVE  Covered(p)'
    <3>1. RequestOK(req[w]) /\ req[w].pc = "store"
          /\ req[w].mark \in Nat /\ req[w].user \in Users
      BY <1>1, <2>4
         DEF IInv, TypeOK, Requests, RequestOK, UserOK, StoreThreshold, Goto
    <3>2. /\ tvaVal' = [tvaVal EXCEPT ![req[w].user] = req[w].mark]
          /\ owner' = owner /\ iat' = iat
      BY <2>4 DEF StoreThreshold, store
    <3>3. tvaVal[owner[p]] \in Nat /\ iat[p] \in Nat
          /\ ~(req[w].mark < tvaVal[owner[p]])
          /\ tvaVal[owner[p]] # 0 /\ iat[p] < tvaVal[owner[p]]
      BY <2>1, <2>4 DEF TypeOK, Covered
    <3>4. QED
      BY <2>1, <3>1, <3>2, <3>3 DEF TypeOK, Covered, Minted
  <2>5. ASSUME NEW w \in Workers, NEW q \in Pairs, Mint(w, q)
        PROVE  Covered(p)'
    BY <2>1, <2>5 DEF Mint, Covered, Minted, TypeOK, redis
  <2>6. ASSUME NEW w \in Workers, Start(w)
        PROVE  UNCHANGED <<owner, iat, tvaVal>>
    BY <2>6 DEF Start, Login, ResetPassword, Refresh, RefreshReused, Arrive,
                Logout, store, redis
  <2>7. ASSUME NEW w \in Workers,
               Insert(w) \/ Rotate(w) \/ CheckBlacklist(w)
               \/ CheckThreshold(w) \/ Serve(w) \/ RevokeAll(w) \/ Stamp(w)
               \/ ReadClock(w) \/ Blacklist(w) \/ DropRefresh(w)
               \/ CallFails(w)
        PROVE  UNCHANGED <<owner, iat, tvaVal>>
    BY <2>7 DEF Insert, Rotate, CheckBlacklist, CheckThreshold, Serve,
                RevokeAll, Stamp, ReadClock, Blacklist, DropRefresh,
                CallFails, store, redis
  <2>8. ASSUME DeleteExpiredTokens \/ UNCHANGED vars
        PROVE  UNCHANGED <<owner, iat, tvaVal>>
    BY <2>8 DEF DeleteExpiredTokens, vars, store, redis
  <2>9. ASSUME UNCHANGED <<owner, iat, tvaVal>> PROVE Covered(p)'
    BY <2>9 DEF Covered, Minted
  <2>10. ASSUME NEW w \in Workers, Continue(w) PROVE Covered(p)'
    BY <2>4, <2>5, <2>7, <2>9, <2>10 DEF Continue
  <2>11. ASSUME NEW u \in Users, NEW q \in Pairs, JoinWithPassword(u, q)
         PROVE  Covered(p)'
    BY <2>1, <2>11 DEF JoinWithPassword, Covered, Minted, TypeOK, redis
  <2>12. QED
    BY <1>1, <2>3, <2>6, <2>8, <2>9, <2>10, <2>11 DEF Next
<1>2. IInv /\ [Next]_vars => [A]_vars
  BY <1>1
<1>3. QED
  BY <1>2, Invariance, PTL DEF Spec, StaysCutOff

\* The iat claim of a pair that was generated never changes.
LEMMA IssuedOnce ==
    ASSUME TypeOK, [Next]_vars, NEW p \in Pairs, Minted(p)
    PROVE  iat'[p] = iat[p]
<1>1. ASSUME NEW w \in Workers, NEW q \in Pairs, Mint(w, q)
      PROVE  iat'[p] = iat[p]
  BY <1>1 DEF Mint, TypeOK
<1>2. ASSUME NEW w \in Workers, Start(w) PROVE iat' = iat
  BY <1>2 DEF Start, Login, ResetPassword, Refresh, RefreshReused, Arrive,
              Logout, store
<1>3. ASSUME NEW w \in Workers, Continue(w) PROVE iat'[p] = iat[p]
  BY <1>1, <1>3 DEF Continue, Insert, Rotate, CheckBlacklist, CheckThreshold,
                    Serve, RevokeAll, Stamp, ReadClock, StoreThreshold,
                    Blacklist, DropRefresh, CallFails, store
<1>4. ASSUME NEW u \in Users, NEW q \in Pairs, JoinWithPassword(u, q)
      PROVE  iat'[p] = iat[p]
  BY <1>4 DEF JoinWithPassword, TypeOK
<1>5. CASE DeleteExpiredTokens \/ Tick \/ UNCHANGED vars
  BY <1>5 DEF DeleteExpiredTokens, Tick, vars, store
<1>6. QED
  BY <1>2, <1>3, <1>4, <1>5 DEF Next

\* With access tokens that live no longer than the threshold is kept, as the
\* default configuration has it, a token that is cut off stays so for life.
COROLLARY CutOffForLife ==
    ASSUME AccessTTL <= TvaTTL
    PROVE  Spec =>
             [][\A p \in Pairs : Covered(p) /\ Live(p)' =>
                   \/ Covered(p)'
                   \/ \E w \in Workers : /\ StoreThreshold(w)
                                         /\ req[w].mark < tvaVal[owner[p]]]_vars
<1> DEFINE A == \A p \in Pairs :
                   Covered(p) /\ now' < tvaVal[owner[p]] - 1 + TvaTTL =>
                      \/ Covered(p)'
                      \/ \E w \in Workers : /\ StoreThreshold(w)
                                            /\ req[w].mark < tvaVal[owner[p]]
           L == \A p \in Pairs :
                   Covered(p) /\ Live(p)' =>
                      \/ Covered(p)'
                      \/ \E w \in Workers : /\ StoreThreshold(w)
                                            /\ req[w].mark < tvaVal[owner[p]]
<1>1. ASSUME IInv, IInv', [Next]_vars, A PROVE L
  <2> SUFFICES ASSUME NEW p \in Pairs, Covered(p), Live(p)'
               PROVE  now' < tvaVal[owner[p]] - 1 + TvaTTL
    BY <1>1
  <2>1. iat'[p] = iat[p]
    BY <1>1, IssuedOnce DEF IInv, Covered
  <2>2. /\ owner[p] \in Users /\ tvaVal[owner[p]] \in Nat
        /\ iat[p] \in Nat /\ iat[p] < tvaVal[owner[p]]
    BY <1>1 DEF IInv, TypeOK, Covered, Minted
  <2>3. now' \in Nat /\ now' < iat[p] + AccessTTL
    BY <1>1, <2>1 DEF IInv, TypeOK, Live
  <2>4. QED
    BY <2>2, <2>3, LifetimeAssumption
<1>2. IInv /\ IInv' /\ [Next]_vars /\ [A]_vars => [L]_vars
  BY <1>1
<1>3. Spec => [][A]_vars
  BY CutOffLasts DEF StaysCutOff
<1>4. QED
  BY <1>2, <1>3, Invariance, PTL DEF Spec

\* A request with an access token that was blacklisted when it arrived is not
\* served while that token lives, unless a logout of it carried an earlier exp
\* than the signed one (Auth middleware and Logout).
THEOREM LogoutLasts == Spec => LoggedOutRefused
<1> DEFINE A == \A w \in Workers :
                  req[w].pc # "serve" /\ req'[w].pc = "serve"
                     => ~(/\ req[w].dead /\ Live(req[w].acc)
                          /\ req[w].acc \notin early)
<1>1. ASSUME IInv, [Next]_vars, NEW w \in Workers,
             req[w].pc # "serve", req'[w].pc = "serve"
      PROVE  req[w].pc = "getTva"
  <2> USE NullAssumption
  <2>1. TypeOK
    BY <1>1 DEF IInv
  <2>2. ASSUME NEW v \in Workers, Start(v) PROVE FALSE
    <3>1. PICK r : Take(v, r) /\ r.pc # "serve"
      <4>1. ASSUME NEW p \in Pairs, Arrive(v, p)
            PROVE  \E r : Take(v, r) /\ r.pc = "exists"
        BY <4>1 DEF Arrive, Arriving
      <4>2. ASSUME NEW a, NEW e, NEW q, Logout(v, a, e, q)
            PROVE  \E r : Take(v, r) /\ r.pc \in {"blacklist", "dropRefresh"}
        <5> DEFINE b == [Arriving("blacklist", "logout", NoUser, a, q)
                           EXCEPT !.mark = TimeLeft(e)]
                   d == Arriving("dropRefresh", "logout", NoUser, NoPair, q)
        <5>1. b.pc = "blacklist" /\ d.pc = "dropRefresh"
          BY DEF Arriving
        <5>2. Take(v, b) \/ Take(v, d)
          BY <4>2 DEF Logout
        <5> HIDE DEF b, d
        <5>3. QED
          BY <5>1, <5>2
      <4>3. ASSUME NEW u, Login(v, u) \/ ResetPassword(v, u)
            PROVE  \E r : Take(v, r) /\ r.pc \in {"mint", "revokeAll"}
        BY <4>3 DEF Login, ResetPassword, Arriving
      <4>4. ASSUME NEW p, Refresh(v, p) \/ RefreshReused(v, p)
            PROVE  \E r : Take(v, r) /\ r.pc \in {"rotate", "revokeAll"}
        BY <4>4 DEF Refresh, RefreshReused, Arriving
      <4>5. QED
        BY <2>2, <4>1, <4>2, <4>3, <4>4 DEF Start
    <3>2. QED
      BY <1>1, <2>1, <3>1 DEF Take, TypeOK
  <2>3. ASSUME NEW v \in Workers, NEW p \in Pairs, Mint(v, p) PROVE FALSE
    BY <1>1, <2>1, <2>3 DEF Mint, TypeOK, Requests
  <2>4. ASSUME NEW v \in Workers, RevokeAll(v) \/ ReadClock(v) PROVE FALSE
    <3>1. CASE RevokeAll(v)
      <4> DEFINE owned == {p \in Pairs : owner[p] = req[v].user}
      <4>1. req' = [req EXCEPT ![v] = [@ EXCEPT !.pc = "stamp",
                                                !.before = owned]]
        BY <3>1 DEF RevokeAll
      <4> HIDE DEF owned
      <4>2. QED
        BY <1>1, <2>1, <4>1 DEF TypeOK, Requests
    <3>2. CASE ReadClock(v)
      BY <1>1, <2>1, <3>2 DEF ReadClock, TypeOK, Requests
    <3>3. QED
      BY <2>4, <3>1, <3>2
  <2>5. ASSUME NEW v \in Workers, Serve(v) PROVE FALSE
    <3>1. CASE Goto(v, "serve", "idle")
      BY <1>1, <2>1, <3>1, GotoEffect DEF Steps
    <3>2. CASE ~Goto(v, "serve", "idle")
      BY <1>1, <2>1, <2>5, <3>2 DEF Serve, TypeOK, Arriving
    <3>3. QED
      BY <3>1, <3>2
  <2>6. ASSUME NEW v \in Workers, NEW from, NEW to \in Steps \ {"serve"},
               Goto(v, from, to)
        PROVE  FALSE
    BY <1>1, <2>1, <2>6, GotoEffect
  <2>7. ASSUME NEW v \in Workers, CheckThreshold(v)
        PROVE  req[w].pc = "getTva"
    BY <1>1, <2>1, <2>7, ThresholdEffect
  <2>8. ASSUME NEW v \in Workers,
               Insert(v) \/ Rotate(v) \/ CheckBlacklist(v) \/ Stamp(v)
               \/ StoreThreshold(v) \/ Blacklist(v) \/ DropRefresh(v)
               \/ CallFails(v)
        PROVE  FALSE
    <3>1. CASE Blacklist(v)
      BY <1>1, <2>1, <3>1, BlacklistEffect
    <3>2. CASE ~Blacklist(v)
      <4>1. OnError(v) \in Steps \ {"serve"}
        BY OnErrorType DEF Steps
      <4>2. \E from, to : to \in Steps \ {"serve"} /\ Goto(v, from, to)
        BY <2>8, <3>2, <4>1
           DEF Insert, Rotate, CheckBlacklist, Stamp, StoreThreshold,
               DropRefresh, CallFails, Steps
      <4>3. QED
        BY <2>6, <4>2
    <3>3. QED
      BY <3>1, <3>2
  <2>9. CASE DeleteExpiredTokens \/ Tick \/ UNCHANGED vars
    BY <1>1, <2>9 DEF DeleteExpiredTokens, Tick, vars
  <2>10. ASSUME NEW u \in Users, NEW p \in Pairs, JoinWithPassword(u, p)
         PROVE  FALSE
    BY <1>1, <2>10 DEF JoinWithPassword
  <2>11. QED
    BY <1>1, <2>2, <2>3, <2>4, <2>5, <2>7, <2>8, <2>9, <2>10 DEF Next, Continue
<1>2. IInv /\ [Next]_vars => [A]_vars
  BY <1>1 DEF IInv, RequestOK, AccessOK
<1>3. QED
  BY <1>2, Invariance, PTL DEF Spec, LoggedOutRefused
=============================================================================
