--------------------------- MODULE AccountsProofs ---------------------------
(***************************************************************************)
(* Proofs about Accounts, for any workers, users, rows and limits.         *)
(*                                                                         *)
(* Update writes rows back that were read long before, so what a request   *)
(* has read about is_verified must still agree with what became of the     *)
(* address: fates only go from "unproved" to "proved", "verified" and      *)
(* "undone", and a copy that says FALSE, in the hands of somebody who      *)
(* could sign in, was read after the fate was "undone".                    *)
(***************************************************************************)
EXTENDS Accounts, TLAPS

USE NullAssumption, LimitAssumption

Settled == {"verified", "undone"}

\* Requests that are going to write the row of an account they have read.
Holding(r) ==
    r.pc = "update" \/ (r.op = "verify" /\ r.pc \in {"findRow", "markUsed"})

\* What is known of a request, given the fates, who signed in, the passwords.
Fits(r, f, s, p) ==
    r.pc # "idle" =>
      /\ r.user \in Users
      /\ r.pc \in {"limit", "limitTTL"} => r.op \in Limited
      /\ r.op \in {"reset", "change"} => r.new \in Passwords
      /\ r.op \in {"profile", "change"} => r.user \in s
      /\ r.wasVerified => f[r.user] \in Settled
      /\ r.op = "verify" /\ r.pc \in {"markUsed", "update"} => f[r.user] # "unproved"
      /\ Holding(r) => p[r.user] # NoPassword /\ r.old \in Passwords
      /\ r.pc = "update" =>
           /\ r.op \in {"verify", "reset", "profile", "change"}
           /\ r.op \in {"profile", "change"} /\ ~r.wasVerified
                => f[r.user] = "undone"

InFlight == \A w \in Workers : Fits(req[w], fate, signedIn, password)

RowsFit ==
    \A i \in Rows : row[i].type = "reset_password" => row[i].owner \in Users

FatesFit ==
    /\ \A u \in verified \cup signedIn : fate[u] \in Settled
    /\ StaysVerified

IInv == TypeOK /\ RowsFit /\ InFlight /\ FatesFit /\ CountersEnd

\* What the steps do to what requests rely on.
Stable ==
    /\ signedIn \subseteq signedIn'
    /\ \A u \in Users :
          /\ password[u] # NoPassword => password'[u] # NoPassword
          /\ fate[u] # "unproved" => fate'[u] # "unproved"
          /\ fate[u] \in Settled => fate'[u] \in Settled
          /\ fate[u] = "undone" /\ password[u] # NoPassword => fate'[u] = "undone"

LEMMA FitsStable ==
  ASSUME Stable, NEW r, Fits(r, fate, signedIn, password)
  PROVE  Fits(r, fate', signedIn', password')
BY DEF Stable, Fits, Holding

LEMMA UnchangedStable ==
  ASSUME UNCHANGED <<fate, signedIn, password>>
  PROVE  Stable
BY DEF Stable

\* A request goes on to r.
LEMMA RequestMoves ==
  ASSUME IInv, NEW w \in Workers, NEW r \in Requests, req' = [req EXCEPT ![w] = r],
         Stable, Fits(r, fate', signedIn', password')
  PROVE  InFlight' /\ req' \in [Workers -> Requests]
<1>1. req' \in [Workers -> Requests] /\ req'[w] = r
      /\ \A v \in Workers \ {w} : req'[v] = req[v]
  BY DEF IInv, TypeOK
<1>2. \A v \in Workers : Fits(req'[v], fate', signedIn', password')
  BY <1>1, FitsStable DEF IInv, InFlight
<1> QED
  BY <1>1, <1>2 DEF InFlight

\* A counter whose request is not the one that moves is still going to end.
LEMMA CountersKept ==
  ASSUME IInv, NEW w \in Workers, NEW r, req' = [req EXCEPT ![w] = r],
         ~At(w, "limitTTL"), ~At(w, "attemptTTL"), UNCHANGED redis
  PROVE  CountersEnd'
<1>1. \A v \in Workers \ {w} : req'[v] = req[v]
  BY DEF IInv, TypeOK
<1> QED
  BY <1>1 DEF IInv, CountersEnd, At, LimitKey, AttemptsKey, redis

LEMMA IdleIsRequest ==
  /\ Idle \in Requests /\ Idle.pc = "idle"
  /\ \A f, s, p : Fits(Idle, f, s, p)
  BY DEF Idle, Requests, Steps, Ops, Fits

\* Goto as a step to one request.
Next1(w, to) == IF to = "idle" THEN Idle ELSE [req[w] EXCEPT !.pc = to]

LEMMA GotoIsMove ==
  ASSUME IInv, NEW w \in Workers, NEW to \in Steps, Goto(w, to)
  PROVE  /\ req' = [req EXCEPT ![w] = Next1(w, to)]
         /\ req'[w] = Next1(w, to) /\ Next1(w, to) \in Requests
         /\ \A v \in Workers \ {w} : req'[v] = req[v]
         /\ Next1(w, to).pc = to
         /\ to # "idle" =>
              /\ Next1(w, to).op = req[w].op /\ Next1(w, to).user = req[w].user
              /\ Next1(w, to).new = req[w].new /\ Next1(w, to).old = req[w].old
              /\ Next1(w, to).wasVerified = req[w].wasVerified
<1>1. req[w] \in Requests
  BY DEF IInv, TypeOK
<1>2. Next1(w, to) \in Requests /\ Next1(w, to).pc = to
  BY <1>1, IdleIsRequest DEF Next1, Requests
<1>3. req' = [req EXCEPT ![w] = Next1(w, to)]
  BY DEF Goto, Next1
<1> QED
  BY <1>1, <1>2, <1>3 DEF IInv, TypeOK, Next1, Requests

\* Going on to a step that does not rely on more than the last one.
Free1(w, to) ==
    \/ to \in {"idle", "attempt", "attemptTTL", "findUser", "create",
               "deleteCodes", "createRow", "forgetAttempts"}
    \/ to = "limitTTL" /\ req[w].op \in Limited
    \/ to \in {"findRow", "markUsed"} /\ req[w].op # "verify"

LEMMA GotoFits ==
  ASSUME IInv, NEW w \in Workers, NEW to \in Steps, Goto(w, to), ~At(w, "idle"),
         Free1(w, to), Stable
  PROVE  InFlight' /\ req' \in [Workers -> Requests]
<1> DEFINE r == Next1(w, to)
<1>1. /\ req' = [req EXCEPT ![w] = r] /\ r \in Requests /\ r.pc = to
      /\ to # "idle" =>
           /\ r.op = req[w].op /\ r.user = req[w].user
           /\ r.new = req[w].new /\ r.old = req[w].old
           /\ r.wasVerified = req[w].wasVerified
  BY GotoIsMove
<1> HIDE DEF r
<1>2. Fits(req[w], fate', signedIn', password')
  BY FitsStable DEF IInv, InFlight
<1>3. Fits(r, fate', signedIn', password')
  BY <1>1, <1>2 DEF Fits, Holding, Free1, At
<1> QED
  BY <1>1, <1>3, RequestMoves

LEMMA TypesOfRequest ==
  ASSUME IInv, NEW w \in Workers
  PROVE  /\ req[w] \in Requests
         /\ Fits(req[w], fate, signedIn, password)
         /\ ~At(w, "idle") => req[w].user \in Users /\ AttemptsKey(w) \in Keys
         /\ At(w, "limit") \/ At(w, "limitTTL") => LimitKey(w) \in Keys
<1>1. req[w] \in Requests /\ Fits(req[w], fate, signedIn, password)
  BY DEF IInv, TypeOK, InFlight
<1>2. ~At(w, "idle") => req[w].user \in Users
  BY <1>1 DEF Fits, At
<1>3. At(w, "limit") \/ At(w, "limitTTL") => req[w].op \in Limited
  BY <1>1 DEF Fits, At
<1> QED
  BY <1>1, <1>2, <1>3 DEF Keys, LimitKey, AttemptsKey

THEOREM Initial == Init => IInv
<1> SUFFICES ASSUME Init PROVE IInv
  OBVIOUS
<1>1. TypeOK
  <2>1. row \in [Rows -> Verifications]
    BY DEF Init, Fresh, Verifications
  <2>2. count \in [Keys -> 0..(MaxRequests + MaxAttempts)]
    BY DEF Init
  <2> QED
    BY <2>1, <2>2, IdleIsRequest DEF Init, TypeOK
<1>2. RowsFit
  BY DEF Init, RowsFit, Fresh
<1>3. InFlight
  BY IdleIsRequest DEF Init, InFlight
<1>4. FatesFit
  BY DEF Init, FatesFit, StaysVerified
<1>5. CountersEnd
  BY DEF Init, CountersEnd
<1> QED
  BY <1>1, <1>2, <1>3, <1>4, <1>5 DEF IInv

-----------------------------------------------------------------------------
\* Start takes the request r.
LEMMA TakeKeeps ==
  ASSUME IInv, NEW w \in Workers, NEW r \in Requests, Take(w, r),
         r.user \in Users, r.wasVerified = FALSE,
         r.op \in {"reset", "change"} => r.new \in Passwords,
         r.op \in {"profile", "change"} => r.user \in signedIn
  PROVE  IInv'
<1> DEFINE pc == IF r.op \in Limited THEN "limit" ELSE First(r.op)
           x == [r EXCEPT !.pc = pc]
<1>1. pc \in {"limit", "attempt", "findRow", "findUser"}
      /\ (pc = "limit" => r.op \in Limited) /\ (pc = "findRow" => r.op = "reset")
  BY DEF First
<1>2. At(w, "idle") /\ req' = [req EXCEPT ![w] = x] /\ UNCHANGED <<store, redis, fate>>
  BY DEF Take
<1> HIDE DEF pc
<1>3. /\ x \in Requests /\ x.pc = pc /\ x.op = r.op /\ x.user = r.user
      /\ x.new = r.new /\ x.old = r.old /\ x.wasVerified = FALSE
  BY <1>1 DEF Requests, Steps
<1> HIDE DEF x
<1>4. Stable /\ Fits(x, fate', signedIn', password')
  BY <1>1, <1>2, <1>3, UnchangedStable DEF store, Fits, Holding
<1>5. InFlight' /\ req' \in [Workers -> Requests]
  BY <1>2, <1>3, <1>4, RequestMoves
<1>6. CountersEnd'
  BY <1>2, CountersKept DEF At
<1> QED
  BY <1>2, <1>5, <1>6 DEF IInv, TypeOK, RowsFit, FatesFit, StaysVerified, store, redis

LEMMA StepStart ==
  ASSUME IInv, NEW w \in Workers, Start(w)
  PROVE  IInv'
<1> PICK u \in Users :
        \/ \E op \in {"register", "login", "accept"}, p \in Passwords :
              Take(w, [Idle EXCEPT !.op = op, !.user = u, !.new = p])
        \/ \E op \in {"resend", "verify", "forgot"} :
              Take(w, [Idle EXCEPT !.op = op, !.user = u])
        \/ \E i \in Rows, p \in Passwords :
              /\ row[i].type = "reset_password" /\ row[i].status # "none"
              /\ Take(w, [Idle EXCEPT !.op = "reset", !.user = row[i].owner,
                                      !.row = i, !.new = p])
        \/ /\ u \in signedIn
           /\ \/ Take(w, [Idle EXCEPT !.op = "profile", !.user = u])
              \/ \E p \in Passwords :
                    Take(w, [Idle EXCEPT !.op = "change", !.user = u, !.new = p])
  BY DEF Start
<1>1. ASSUME NEW op \in {"register", "login", "accept"}, NEW p \in Passwords,
             Take(w, [Idle EXCEPT !.op = op, !.user = u, !.new = p])
      PROVE  IInv'
  <2> DEFINE r == [Idle EXCEPT !.op = op, !.user = u, !.new = p]
  <2>1. r \in Requests /\ r.user = u /\ r.op = op /\ r.wasVerified = FALSE
    BY DEF Idle, Requests, Steps, Ops
  <2> HIDE DEF r
  <2> QED
    BY <1>1, <2>1, TakeKeeps DEF r
<1>2. ASSUME NEW op \in {"resend", "verify", "forgot"},
             Take(w, [Idle EXCEPT !.op = op, !.user = u])
      PROVE  IInv'
  <2> DEFINE r == [Idle EXCEPT !.op = op, !.user = u]
  <2>1. r \in Requests /\ r.user = u /\ r.op = op /\ r.wasVerified = FALSE
    BY DEF Idle, Requests, Steps, Ops
  <2> HIDE DEF r
  <2> QED
    BY <1>2, <2>1, TakeKeeps DEF r
<1>3. ASSUME NEW i \in Rows, NEW p \in Passwords,
             row[i].type = "reset_password", row[i].status # "none",
             Take(w, [Idle EXCEPT !.op = "reset", !.user = row[i].owner,
                                  !.row = i, !.new = p])
      PROVE  IInv'
  <2> DEFINE r == [Idle EXCEPT !.op = "reset", !.user = row[i].owner,
                               !.row = i, !.new = p]
  <2>0. row[i].owner \in Users
    BY <1>3 DEF IInv, RowsFit
  <2>1. /\ r \in Requests /\ r.user \in Users /\ r.op = "reset" /\ r.new = p
        /\ r.wasVerified = FALSE
    BY <2>0 DEF Idle, Requests, Steps, Ops
  <2> HIDE DEF r
  <2> QED
    BY <1>3, <2>1, TakeKeeps DEF r
<1>4. ASSUME u \in signedIn, Take(w, [Idle EXCEPT !.op = "profile", !.user = u])
      PROVE  IInv'
  <2> DEFINE r == [Idle EXCEPT !.op = "profile", !.user = u]
  <2>1. r \in Requests /\ r.user = u /\ r.op = "profile" /\ r.wasVerified = FALSE
    BY DEF Idle, Requests, Steps, Ops
  <2> HIDE DEF r
  <2> QED
    BY <1>4, <2>1, TakeKeeps DEF r
<1>5. ASSUME u \in signedIn, NEW p \in Passwords,
             Take(w, [Idle EXCEPT !.op = "change", !.user = u, !.new = p])
      PROVE  IInv'
  <2> DEFINE r == [Idle EXCEPT !.op = "change", !.user = u, !.new = p]
  <2>1. /\ r \in Requests /\ r.user = u /\ r.op = "change" /\ r.new = p
        /\ r.wasVerified = FALSE
    BY DEF Idle, Requests, Steps, Ops
  <2> HIDE DEF r
  <2> QED
    BY <1>5, <2>1, TakeKeeps DEF r
<1> QED
  BY <1>1, <1>2, <1>3, <1>4, <1>5

-----------------------------------------------------------------------------
\* What a count can be.
LEMMA BumpedFits ==
  ASSUME IInv, NEW k \in Keys
  PROVE  /\ Bumped(k) \in 0..(MaxRequests + MaxAttempts)
         /\ Bumped(k) > 0
         /\ count[k] = 0 => Bumped(k) = 1
         /\ Bumped(k) = 1 => count[k] = 0
         /\ count[k] \in Nat
<1>1. count[k] \in 0..(MaxRequests + MaxAttempts)
  BY DEF IInv, TypeOK
<1>2. MaxOf(k) \in {MaxRequests, MaxAttempts}
  BY DEF MaxOf
<1> QED
  BY <1>1, <1>2 DEF Bumped

\* Whoever gives a key its time to live.
EndsIt(w, k) == \/ At(w, "limitTTL") /\ k = LimitKey(w)
                \/ At(w, "attemptTTL") /\ k = AttemptsKey(w)

\* The count of the request's key either had an end, or the request, who was
\* the first, or the loss of its EXPIRE, is it.
LEMMA IncrKeeps ==
  ASSUME IInv, NEW w \in Workers, NEW k \in Keys, NEW ttl \in Steps, NEW next \in Steps,
         \/ At(w, "limit") /\ k = LimitKey(w) /\ ttl = "limitTTL"
         \/ At(w, "attempt") /\ k = AttemptsKey(w) /\ ttl = "attemptTTL",
         Free1(w, next), Incr(w, k, ttl, next)
  PROVE  IInv'
<1> DEFINE to == Admitted(Bumped(k), k, ttl, next)
<1>1. UNCHANGED <<store, timed, fate>> /\ Stable
  BY UnchangedStable DEF Incr, store
<1>2. ~At(w, "idle") /\ ~At(w, "limitTTL") /\ ~At(w, "attemptTTL")
  BY DEF At
<1>3. Free1(w, ttl) /\ Free1(w, "idle")
  BY TypesOfRequest DEF Free1, Fits, At
<1>4. to \in Steps /\ Free1(w, to)
  BY <1>3 DEF Admitted, Steps
<1>5. Goto(w, to) \/ Goto(w, next)
  BY DEF Incr
<1>6. InFlight' /\ req' \in [Workers -> Requests]
  BY <1>1, <1>2, <1>4, <1>5, GotoFits
<1>7. \A v \in Workers \ {w} : req'[v] = req[v]
  BY DEF IInv, TypeOK, Incr, Goto
<1>8. /\ count' \in [Keys -> 0..(MaxRequests + MaxAttempts)]
      /\ \A j \in Keys : j # k => count'[j] = count[j]
      /\ count[k] > 0 => count'[k] > 0
      /\ lost \subseteq lost' /\ lost' \in SUBSET Keys
  BY BumpedFits DEF IInv, TypeOK, Incr
<1>9. timed' \in SUBSET {j \in Keys : count'[j] > 0}
  BY <1>1, <1>8 DEF IInv, TypeOK
<1>10. TypeOK'
  BY <1>1, <1>6, <1>8, <1>9 DEF IInv, TypeOK, store
<1>11. \A j \in Keys, v \in Workers : EndsIt(v, j) => EndsIt(v, j)'
  BY <1>2, <1>7 DEF EndsIt, At, LimitKey, AttemptsKey
<1>12. \A j \in Keys : count[j] > 0 => \/ j \in timed' \cup lost'
                                       \/ \E v \in Workers : EndsIt(v, j)'
  BY <1>1, <1>8, <1>11 DEF IInv, CountersEnd, EndsIt
<1>13. ASSUME count[k] = 0, count'[k] > 0
       PROVE  k \in lost' \/ EndsIt(w, k)'
  <2>1. CASE Goto(w, to) /\ UNCHANGED lost
    <3>1. to = ttl
      BY <1>13, BumpedFits DEF Admitted
    <3>2. req'[w].pc = ttl /\ req'[w].op = req[w].op /\ req'[w].user = req[w].user
      BY <1>4, <2>1, <3>1, GotoIsMove
    <3> QED
      BY <3>2 DEF EndsIt, At, LimitKey, AttemptsKey
  <2>2. CASE lost' = IF count[k] = 0 THEN lost \cup {k} ELSE lost
    BY <1>13, <2>2
  <2>3. CASE UNCHANGED count
    BY <1>13, <2>3
  <2> QED
    BY <2>1, <2>2, <2>3 DEF Incr
<1>14. CountersEnd'
  <2> SUFFICES ASSUME NEW j \in Keys, count'[j] > 0
               PROVE  j \in timed' \cup lost' \/ \E v \in Workers : EndsIt(v, j)'
    BY DEF CountersEnd, EndsIt
  <2>1. count[j] \in Nat /\ (j # k => count'[j] = count[j])
    BY <1>8, BumpedFits
  <2> QED
    BY <1>12, <1>13, <2>1
<1> QED
  BY <1>1, <1>6, <1>10, <1>14 DEF IInv, RowsFit, FatesFit, StaysVerified, store

LEMMA SetExpiryKeeps ==
  ASSUME IInv, NEW w \in Workers, NEW k \in Keys, NEW next \in Steps,
         \/ At(w, "limitTTL") /\ k = LimitKey(w)
         \/ At(w, "attemptTTL") /\ k = AttemptsKey(w),
         Free1(w, next), SetExpiry(w, k, next)
  PROVE  IInv'
<1>1. UNCHANGED <<store, count, fate>> /\ Stable /\ Goto(w, next)
  BY UnchangedStable DEF SetExpiry, store
<1>2. InFlight' /\ req' \in [Workers -> Requests]
  BY <1>1, GotoFits DEF At
<1>3. \A v \in Workers \ {w} : req'[v] = req[v]
  BY <1>1 DEF IInv, TypeOK, Goto
<1>4. /\ timed' \in SUBSET {j \in Keys : count'[j] > 0} /\ lost' \in SUBSET Keys
      /\ timed \subseteq timed' /\ lost \subseteq lost'
      /\ count[k] > 0 => k \in timed' \cup lost'
  BY <1>1 DEF IInv, TypeOK, SetExpiry
<1>5. TypeOK'
  BY <1>1, <1>2, <1>4 DEF IInv, TypeOK, store
<1>6. CountersEnd'
  <2> SUFFICES ASSUME NEW j \in Keys, count[j] > 0
               PROVE  j \in timed' \cup lost' \/ \E v \in Workers : EndsIt(v, j)'
    BY <1>1 DEF CountersEnd, EndsIt
  <2>1. \A v \in Workers : EndsIt(v, j) => EndsIt(v, j)' \/ v = w
    BY <1>3 DEF EndsIt, At, LimitKey, AttemptsKey
  <2>2. EndsIt(w, j) => j = k
    BY DEF EndsIt, At
  <2> QED
    BY <1>4, <2>1, <2>2 DEF IInv, CountersEnd, EndsIt
<1> QED
  BY <1>1, <1>2, <1>5, <1>6 DEF IInv, RowsFit, FatesFit, StaysVerified, store

LEMMA StepCounters ==
  ASSUME IInv, NEW w \in Workers, RateLimit(w) \/ CountAttempt(w)
  PROVE  IInv'
<1>1. /\ First(req[w].op) \in Steps /\ Free1(w, First(req[w].op))
      /\ "findUser" \in Steps /\ Free1(w, "findUser")
      /\ "limitTTL" \in Steps /\ "attemptTTL" \in Steps
  BY DEF First, Free1, Steps
<1>2. /\ At(w, "limit") \/ At(w, "limitTTL") => LimitKey(w) \in Keys
      /\ At(w, "attempt") \/ At(w, "attemptTTL") => AttemptsKey(w) \in Keys
  BY TypesOfRequest DEF At
<1>3. CASE At(w, "limit") /\ Incr(w, LimitKey(w), "limitTTL", First(req[w].op))
  BY <1>1, <1>2, <1>3, IncrKeeps
<1>4. CASE At(w, "limitTTL") /\ SetExpiry(w, LimitKey(w), First(req[w].op))
  BY <1>1, <1>2, <1>4, SetExpiryKeeps
<1>5. CASE At(w, "attempt") /\ Incr(w, AttemptsKey(w), "attemptTTL", "findUser")
  BY <1>1, <1>2, <1>5, IncrKeeps
<1>6. CASE At(w, "attemptTTL") /\ SetExpiry(w, AttemptsKey(w), "findUser")
  BY <1>1, <1>2, <1>6, SetExpiryKeeps
<1> QED
  BY <1>3, <1>4, <1>5, <1>6 DEF RateLimit, CountAttempt

LEMMA DroppedKeeps ==
  ASSUME IInv, NEW k \in Keys, Dropped(k)
  PROVE  /\ count' \in [Keys -> 0..(MaxRequests + MaxAttempts)]
         /\ timed' \in SUBSET {j \in Keys : count'[j] > 0} /\ lost' \in SUBSET Keys
         /\ \A j \in Keys : count'[j] > 0 =>
               count[j] > 0 /\ (j \in timed \cup lost => j \in timed' \cup lost')
<1>1. count \in [Keys -> 0..(MaxRequests + MaxAttempts)] /\ 0 \in 0..(MaxRequests + MaxAttempts)
  BY DEF IInv, TypeOK
<1>2. count' \in [Keys -> 0..(MaxRequests + MaxAttempts)] /\ count'[k] = 0
      /\ \A j \in Keys \ {k} : count'[j] = count[j]
  BY <1>1 DEF Dropped
<1>3. timed' = timed \ {k} /\ lost' = lost \ {k} /\ lost \in SUBSET Keys
      /\ timed \in SUBSET {j \in Keys : count[j] > 0}
  BY DEF IInv, TypeOK, Dropped
<1>4. timed' \in SUBSET {j \in Keys : count'[j] > 0}
  BY <1>2, <1>3
<1> QED
  BY <1>2, <1>3, <1>4

LEMMA StepForgetAttempts ==
  ASSUME IInv, NEW w \in Workers, ForgetAttempts(w)
  PROVE  IInv'
<1>1. At(w, "forgetAttempts") /\ Goto(w, "idle") /\ UNCHANGED <<store, fate>> /\ Stable
  BY UnchangedStable DEF ForgetAttempts, store
<1>2. InFlight' /\ req' \in [Workers -> Requests]
  BY <1>1, GotoFits DEF At, Free1, Steps
<1>3. \A v \in Workers \ {w} : req'[v] = req[v]
  BY <1>1 DEF IInv, TypeOK, Goto
<1>4. /\ count' \in [Keys -> 0..(MaxRequests + MaxAttempts)]
      /\ timed' \in SUBSET {j \in Keys : count'[j] > 0} /\ lost' \in SUBSET Keys
      /\ \A j \in Keys : count'[j] > 0 =>
            count[j] > 0 /\ (j \in timed \cup lost => j \in timed' \cup lost')
  <2>1. CASE Dropped(AttemptsKey(w))
    BY <1>1, <2>1, TypesOfRequest, DroppedKeeps DEF At
  <2>2. CASE UNCHANGED redis
    BY <2>2 DEF redis, IInv, TypeOK
  <2> QED
    BY <2>1, <2>2 DEF ForgetAttempts
<1>5. TypeOK'
  BY <1>1, <1>2, <1>4 DEF IInv, TypeOK, store
<1>6. \A v \in Workers, j \in Keys : EndsIt(v, j) => EndsIt(v, j)'
  BY <1>1, <1>3 DEF EndsIt, At, LimitKey, AttemptsKey
<1>7. CountersEnd'
  BY <1>4, <1>6 DEF IInv, CountersEnd, EndsIt
<1> QED
  BY <1>1, <1>2, <1>5, <1>7 DEF IInv, RowsFit, FatesFit, StaysVerified, store

LEMMA StepKeyExpires ==
  ASSUME IInv, NEW k \in Keys, KeyExpires(k)
  PROVE  IInv'
<1>1. UNCHANGED <<password, verified, signedIn, row, req, fate>>
  BY DEF KeyExpires, store
<1>2. /\ count' \in [Keys -> 0..(MaxRequests + MaxAttempts)]
      /\ timed' \in SUBSET {j \in Keys : count'[j] > 0} /\ lost' \in SUBSET Keys
      /\ \A j \in Keys : count'[j] > 0 =>
            count[j] > 0 /\ (j \in timed \cup lost => j \in timed' \cup lost')
  BY DroppedKeeps DEF KeyExpires
<1>3. CountersEnd'
  BY <1>1, <1>2 DEF IInv, CountersEnd, At, LimitKey, AttemptsKey
<1> QED
  BY <1>1, <1>2, <1>3 DEF IInv, TypeOK, RowsFit, InFlight, FatesFit, StaysVerified

\* A process that dies between an INCR and its EXPIRE loses the EXPIRE.
LEMMA StepFails ==
  ASSUME IInv, NEW w \in Workers, Fails(w)
  PROVE  IInv'
<1>1. ~At(w, "idle") /\ Goto(w, "idle") /\ UNCHANGED <<store, count, timed, fate>> /\ Stable
  BY UnchangedStable DEF Fails, store
<1>2. InFlight' /\ req' \in [Workers -> Requests]
  BY <1>1, GotoFits DEF Free1, Steps
<1>3. \A v \in Workers \ {w} : req'[v] = req[v]
  BY <1>1 DEF IInv, TypeOK, Goto
<1>4. /\ lost' \in SUBSET Keys /\ lost \subseteq lost'
      /\ \A j \in Keys : count[j] > 0 /\ EndsIt(w, j) => j \in lost'
  BY DEF IInv, TypeOK, Fails, EndsIt
<1>5. TypeOK'
  BY <1>1, <1>2, <1>4 DEF IInv, TypeOK, store
<1>6. \A v \in Workers, j \in Keys : EndsIt(v, j) => EndsIt(v, j)' \/ v = w
  BY <1>3 DEF EndsIt, At, LimitKey, AttemptsKey
<1>7. CountersEnd'
  BY <1>1, <1>4, <1>6 DEF IInv, CountersEnd, EndsIt
<1> QED
  BY <1>1, <1>2, <1>5, <1>7 DEF IInv, RowsFit, FatesFit, StaysVerified, store

-----------------------------------------------------------------------------
\* Steps to the table of codes.
LEMMA RowsKeep ==
  ASSUME IInv, NEW w \in Workers, NEW to \in Steps, Goto(w, to), ~At(w, "idle"),
         ~At(w, "limitTTL"), ~At(w, "attemptTTL"), Free1(w, to),
         UNCHANGED <<password, verified, signedIn, redis, fate>>,
         row' \in [Rows -> Verifications], RowsFit'
  PROVE  IInv'
<1>1. Stable
  BY UnchangedStable
<1>2. InFlight' /\ req' \in [Workers -> Requests]
  BY <1>1, GotoFits
<1>3. CountersEnd'
  BY GotoIsMove, CountersKept
<1> QED
  BY <1>2, <1>3 DEF IInv, TypeOK, FatesFit, StaysVerified, redis

LEMMA IssuedFits ==
  ASSUME IInv, NEW i \in Rows, NEW u \in Users \cup Strangers,
         NEW type \in {"verify_email", "reset_password"}, Issued(i, u, type),
         type = "reset_password" => u \in Users
  PROVE  row' \in [Rows -> Verifications] /\ RowsFit'
<1> DEFINE x == [owner |-> u, type |-> type, status |-> "valid"]
<1>1. x \in Verifications /\ x.owner = u /\ x.type = type
  BY DEF Verifications
<1>2. row' = [row EXCEPT ![i] = x]
  BY DEF Issued
<1> HIDE DEF x
<1>3. row' \in [Rows -> Verifications] /\ row'[i] = x
      /\ \A j \in Rows \ {i} : row'[j] = row[j]
  BY <1>1, <1>2 DEF IInv, TypeOK
<1> QED
  BY <1>1, <1>3 DEF IInv, RowsFit

\* A row with another status keeps its owner and type.
LEMMA StatusFits ==
  ASSUME IInv, NEW i \in Rows, NEW st \in {"dead", "gone"}
  PROVE  /\ [row[i] EXCEPT !.status = st] \in Verifications
         /\ [row[i] EXCEPT !.status = st].owner = row[i].owner
         /\ [row[i] EXCEPT !.status = st].type = row[i].type
         /\ row[i] \in Verifications
BY DEF IInv, TypeOK, Verifications

LEMMA StepDeleteCodes ==
  ASSUME IInv, NEW w \in Workers, DeleteCodes(w)
  PROVE  IInv'
<1>1. /\ At(w, "deleteCodes") /\ Goto(w, "createRow")
      /\ UNCHANGED <<password, verified, signedIn, redis, fate>>
  BY DEF DeleteCodes
<1>2. row' \in [Rows -> Verifications] /\ RowsFit'
  <2>1. CASE UNCHANGED row
    BY <2>1 DEF IInv, TypeOK, RowsFit
  <2>2. CASE row' = [i \in Rows |->
                    IF row[i].owner = req[w].user /\ row[i].type = "verify_email"
                    THEN [row[i] EXCEPT !.status = "gone"] ELSE row[i]]
    <3>1. row' \in [Rows -> Verifications]
      BY <2>2, StatusFits
    <3>2. \A i \in Rows : row'[i].owner = row[i].owner /\ row'[i].type = row[i].type
      BY <2>2, StatusFits
    <3> QED
      BY <3>1, <3>2 DEF IInv, RowsFit
  <2> QED
    BY <2>1, <2>2 DEF DeleteCodes
<1> QED
  BY <1>1, <1>2, RowsKeep DEF At, Free1, Steps

LEMMA StepCreateRow ==
  ASSUME IInv, NEW w \in Workers, CreateRow(w)
  PROVE  IInv'
<1> PICK i \in Rows : Issued(i, req[w].user, IF req[w].op = "forgot"
                                   THEN "reset_password" ELSE "verify_email")
  BY DEF CreateRow
<1>1. At(w, "createRow") /\ Goto(w, "idle") /\ req[w].user \in Users
  BY TypesOfRequest DEF CreateRow, At
<1>2. row' \in [Rows -> Verifications] /\ RowsFit'
  BY <1>1, IssuedFits
<1> QED
  BY <1>1, <1>2, RowsKeep DEF At, Free1, Steps, Issued

LEMMA StepFindToken ==
  ASSUME IInv, NEW w \in Workers, FindToken(w)
  PROVE  IInv'
<1>1. /\ At(w, "findRow") /\ req[w].op = "reset"
      /\ UNCHANGED <<store, redis, fate>> /\ (Goto(w, "findUser") \/ Goto(w, "idle"))
  BY DEF FindToken
<1> QED
  BY <1>1, RowsKeep DEF At, Free1, Steps, store, IInv, TypeOK, RowsFit

LEMMA StepFindUserFails ==
  ASSUME IInv, NEW w \in Workers, FindUserFails(w)
  PROVE  IInv'
<1>1. /\ At(w, "findUser") /\ Goto(w, "create") /\ UNCHANGED <<store, redis, fate>>
  BY DEF FindUserFails
<1> QED
  BY <1>1, RowsKeep DEF At, Free1, Steps, store, IInv, TypeOK, RowsFit

\* Rows change without a request.
LEMMA StepRowExpiresStrangersCode ==
  ASSUME IInv, StrangersCode \/ \E i \in Rows : RowExpires(i)
  PROVE  IInv'
<1>1. UNCHANGED <<password, verified, signedIn, redis, fate, req>>
  BY DEF StrangersCode, Issued, RowExpires
<1>2. row' \in [Rows -> Verifications] /\ RowsFit'
  <2>1. CASE StrangersCode
    BY <2>1, IssuedFits DEF StrangersCode
  <2>2. ASSUME NEW i \in Rows, RowExpires(i)
        PROVE  row' \in [Rows -> Verifications] /\ RowsFit'
    <3>1. row' \in [Rows -> Verifications]
          /\ \A j \in Rows : row'[j].owner = row[j].owner /\ row'[j].type = row[j].type
      BY <2>2, StatusFits DEF IInv, TypeOK, RowExpires
    <3> QED
      BY <3>1 DEF IInv, RowsFit
  <2> QED
    BY <2>1, <2>2
<1> QED
  BY <1>1, <1>2 DEF IInv, TypeOK, InFlight, FatesFit, StaysVerified, CountersEnd,
     At, LimitKey, AttemptsKey, redis

\* A code of one's own proves the address.
LEMMA StepFindCode ==
  ASSUME IInv, NEW w \in Workers, FindCode(w)
  PROVE  IInv'
<1> PICK i \in Rows :
      /\ row[i].type = "verify_email"
      /\ Acceptable(i, req[w].user)
      /\ req' = [req EXCEPT ![w] = [req[w] EXCEPT !.pc = "markUsed", !.row = i]]
      /\ fate' = [u \in Users |-> IF u = row[i].owner /\ fate[u] = "unproved"
                                  THEN "proved" ELSE fate[u]]
  BY DEF FindCode
<1> DEFINE r == [req[w] EXCEPT !.pc = "markUsed", !.row = i]
<1>1. At(w, "findRow") /\ req[w].op = "verify" /\ UNCHANGED <<store, redis>>
  BY DEF FindCode
<1>2. req[w] \in Requests /\ Fits(req[w], fate, signedIn, password)
      /\ req[w].user \in Users
  BY <1>1, TypesOfRequest DEF At
<1>3. /\ r \in Requests /\ r.pc = "markUsed" /\ r.op = "verify" /\ r.user = req[w].user
      /\ r.old = req[w].old /\ r.new = req[w].new /\ r.wasVerified = req[w].wasVerified
  BY <1>1, <1>2 DEF Requests, Steps
<1>4. req' = [req EXCEPT ![w] = r]
  OBVIOUS
<1> HIDE DEF r
<1>5. fate' \in [Users -> {"unproved", "proved", "verified", "undone"}]
      /\ \A u \in Users : fate'[u] = fate[u] \/ (fate[u] = "unproved" /\ fate'[u] = "proved")
  BY DEF IInv, TypeOK
<1>6. Stable
  BY <1>1, <1>5 DEF Stable, store, Settled
<1>7. fate'[req[w].user] # "unproved"
  BY <1>2 DEF Acceptable, IInv, TypeOK
<1>8. Fits(req[w], fate', signedIn', password')
  BY <1>2, <1>6, FitsStable
<1>9. Fits(r, fate', signedIn', password')
  BY <1>1, <1>2, <1>3, <1>7, <1>8 DEF Fits, Holding, At
<1>10. InFlight' /\ req' \in [Workers -> Requests]
  BY <1>3, <1>4, <1>6, <1>9, RequestMoves
<1>11. CountersEnd'
  BY <1>1, <1>4, CountersKept DEF At
<1>12. FatesFit'
  BY <1>1, <1>5 DEF IInv, TypeOK, FatesFit, StaysVerified, Settled, store
<1> QED
  BY <1>1, <1>5, <1>10, <1>11, <1>12 DEF IInv, TypeOK, RowsFit, store, redis

LEMMA StepMarkUsed ==
  ASSUME IInv, NEW w \in Workers, MarkUsed(w)
  PROVE  IInv'
<1> DEFINE i == req[w].row
           to == IF req[w].op = "verify" THEN "update" ELSE "idle"
<1>1. /\ At(w, "markUsed") /\ Goto(w, to)
      /\ UNCHANGED <<password, verified, signedIn, redis, fate>>
  BY DEF MarkUsed
<1>2. Stable /\ to \in Steps
  BY <1>1, UnchangedStable DEF Steps
<1>3. RowsFit' /\ row' \in [Rows -> Verifications]
  <2> DEFINE x == IF row[i].status = "gone" THEN row[i]
                  ELSE [row[i] EXCEPT !.status = "dead"]
  <2>1. row' = [row EXCEPT ![i] = x]
    BY DEF MarkUsed
  <2>2. i \in Rows => x \in Verifications /\ x.owner = row[i].owner /\ x.type = row[i].type
    BY StatusFits
  <2> HIDE DEF x
  <2>3. row' \in [Rows -> Verifications]
        /\ \A j \in Rows : row'[j].owner = row[j].owner /\ row'[j].type = row[j].type
    BY <2>1, <2>2 DEF IInv, TypeOK
  <2> QED
    BY <2>3 DEF IInv, RowsFit
<1>4. CASE req[w].op # "verify"
  BY <1>1, <1>2, <1>3, <1>4, RowsKeep DEF At, Free1
<1>5. CASE req[w].op = "verify"
  <2> DEFINE r == Next1(w, to)
  <2>1. /\ req' = [req EXCEPT ![w] = r] /\ r \in Requests /\ r.pc = "update"
        /\ r.op = req[w].op /\ r.user = req[w].user
        /\ r.new = req[w].new /\ r.old = req[w].old
        /\ r.wasVerified = req[w].wasVerified
    BY <1>1, <1>2, <1>5, GotoIsMove
  <2> HIDE DEF r
  <2>2. Fits(req[w], fate', signedIn', password')
    BY <1>2, FitsStable, TypesOfRequest
  <2>3. Fits(r, fate', signedIn', password')
    BY <1>1, <1>5, <2>1, <2>2 DEF Fits, Holding, At
  <2>4. InFlight' /\ req' \in [Workers -> Requests]
    BY <1>2, <2>1, <2>3, RequestMoves
  <2>5. CountersEnd'
    BY <1>1, <2>1, CountersKept DEF At
  <2> QED
    BY <1>1, <1>3, <2>4, <2>5 DEF IInv, TypeOK, FatesFit, StaysVerified, redis
<1> QED
  BY <1>4, <1>5

-----------------------------------------------------------------------------
\* Login signs a verified user in; the others go on, or keep what they read.
LEMMA StepFindUser ==
  ASSUME IInv, NEW w \in Workers, FindUser(w)
  PROVE  IInv'
<1> DEFINE u == req[w].user
           op == req[w].op
           d == u \in verified
           x == [req[w] EXCEPT !.pc = IF op = "verify" THEN "findRow" ELSE "update",
                               !.old = password[u], !.wasVerified = d]
<1>1. /\ At(w, "findUser") /\ UNCHANGED <<password, verified, row, redis, fate>>
      /\ row' \in [Rows -> Verifications] /\ RowsFit'
  BY DEF FindUser, IInv, TypeOK, RowsFit
<1>2. req[w] \in Requests /\ Fits(req[w], fate, signedIn, password) /\ u \in Users
  BY <1>1, TypesOfRequest DEF At
<1>3. CASE \E to \in {"create", "deleteCodes", "createRow", "idle"} :
             Goto(w, to) /\ UNCHANGED signedIn
  BY <1>1, <1>3, RowsKeep DEF At, Free1, Steps
<1>4. CASE MaySignIn(w) /\ signedIn' = signedIn \cup {u} /\ Goto(w, "idle")
  <2>1. Stable /\ u \in verified
    BY <1>1, <1>4 DEF Stable, MaySignIn
  <2>2. InFlight' /\ req' \in [Workers -> Requests]
    BY <1>1, <1>4, <2>1, GotoFits DEF At, Free1, Steps
  <2>3. CountersEnd'
    <3>1. "idle" \in Steps
      BY DEF Steps
    <3> QED
      BY <1>1, <1>4, <3>1, GotoIsMove, CountersKept DEF At
  <2>4. FatesFit'
    BY <1>1, <1>4, <2>1 DEF IInv, FatesFit, StaysVerified
  <2> QED
    BY <1>1, <1>2, <1>4, <2>2, <2>3, <2>4 DEF IInv, TypeOK, redis
<1>5. CASE /\ Exists(u)
           /\ op \in {"reset", "profile", "change"} \/ (op = "verify" /\ u \notin verified)
           /\ req' = [req EXCEPT ![w] = x]
           /\ UNCHANGED signedIn
  <2>1. Stable
    BY <1>1, <1>5, UnchangedStable
  <2>2. d \in BOOLEAN /\ (d <=> u \in verified) /\ password[u] \in Passwords
    BY <1>2, <1>5 DEF Exists, IInv, TypeOK
  <2>0. req' = [req EXCEPT ![w] = x]
    BY <1>5
  <2> HIDE DEF d
  <2>3. /\ x \in Requests /\ x.op = op /\ x.user = u /\ x.new = req[w].new
        /\ x.pc = IF op = "verify" THEN "findRow" ELSE "update"
        /\ x.old = password[u] /\ x.wasVerified = d
    BY <1>2, <2>2 DEF Requests, Steps
  <2> HIDE DEF x
  <2>4. /\ u \in verified \cup signedIn => fate[u] \in Settled
        /\ fate[u] = "verified" => u \in verified
    BY <1>2 DEF IInv, FatesFit, StaysVerified
  <2>5. Fits(x, fate, signedIn, password)
    BY <1>1, <1>2, <1>5, <2>2, <2>3, <2>4 DEF Fits, Holding, At, Settled
  <2>6. InFlight' /\ req' \in [Workers -> Requests]
    BY <2>0, <2>1, <2>3, <2>5, FitsStable, RequestMoves
  <2>7. CountersEnd'
    BY <1>1, <2>0, CountersKept DEF At
  <2> QED
    BY <1>1, <1>5, <2>6, <2>7 DEF IInv, TypeOK, FatesFit, StaysVerified, redis
<1> QED
  BY <1>3, <1>4, <1>5 DEF FindUser

\* The account is new, so no request holds it.
LEMMA StepCreateUser ==
  ASSUME IInv, NEW w \in Workers, CreateUser(w)
  PROVE  IInv'
<1> DEFINE u == req[w].user
           to == IF req[w].op = "accept" THEN "idle" ELSE "deleteCodes"
<1>1. /\ At(w, "create") /\ password[u] = NoPassword /\ UNCHANGED <<row, redis>>
      /\ password' = [password EXCEPT ![u] = req[w].new]
      /\ Goto(w, to)
  BY DEF CreateUser, Free, Exists
<1>2. req[w] \in Requests /\ u \in Users
  BY <1>1, TypesOfRequest DEF At
<1>3. password' \in [Users -> Passwords \cup {NoPassword}]
      /\ \A v \in Users : password'[v] = password[v] \/ v = u
  BY <1>1, <1>2 DEF IInv, TypeOK, Requests
<1>4. \/ /\ verified' = verified \cup {u} /\ signedIn' = signedIn \cup {u}
         /\ fate' = [fate EXCEPT ![u] = "verified"]
      \/ UNCHANGED <<verified, signedIn, fate>>
  BY DEF CreateUser
<1>5. /\ fate' \in [Users -> {"unproved", "proved", "verified", "undone"}]
      /\ \A v \in Users : fate'[v] = fate[v] \/ (v = u /\ fate'[v] = "verified" /\ u \in verified')
      /\ verified' \in SUBSET Users /\ signedIn' \in SUBSET Users
  BY <1>2, <1>4 DEF IInv, TypeOK
<1>6. Stable
  BY <1>1, <1>3, <1>4, <1>5 DEF Stable, Settled
<1>7. to \in Steps /\ Free1(w, to)
  BY DEF Steps, Free1
<1>8. InFlight' /\ req' \in [Workers -> Requests]
  BY <1>1, <1>6, <1>7, GotoFits DEF At
<1>9. CountersEnd'
  BY <1>1, <1>7, GotoIsMove, CountersKept DEF At
<1>10. FatesFit'
  BY <1>2, <1>4, <1>5 DEF IInv, TypeOK, FatesFit, StaysVerified, Settled
<1> QED
  BY <1>1, <1>3, <1>5, <1>8, <1>9, <1>10 DEF IInv, TypeOK, RowsFit, redis

\* The copy that is written back agrees with the fate of the address.
LEMMA StepUpdateUser ==
  ASSUME IInv, NEW w \in Workers, UpdateUser(w)
  PROVE  IInv'
<1> DEFINE r == req[w]
           u == r.user
           to == IF r.op = "verify" THEN "forgetAttempts"
                 ELSE IF r.op = "reset" THEN "markUsed" ELSE "idle"
           nf == IF r.op = "verify" /\ fate[u] = "proved" THEN "verified"
                 ELSE IF r.op = "reset" /\ ~NewVerified(r) /\ fate[u] = "verified"
                      THEN "undone" ELSE fate[u]
<1>1. /\ r.pc = "update" /\ UNCHANGED <<signedIn, row, redis>>
      /\ password' = [password EXCEPT ![u] = NewPassword(r)]
      /\ verified' = IF NewVerified(r) THEN verified \cup {u} ELSE verified \ {u}
      /\ fate' = [fate EXCEPT ![u] = nf]
      /\ Goto(w, to)
  BY DEF UpdateUser, At
<1>2. r \in Requests /\ u \in Users /\ Fits(r, fate, signedIn, password)
  BY <1>1, TypesOfRequest DEF At
<1>3. /\ r.op \in {"verify", "reset", "profile", "change"}
      /\ r.op \in {"profile", "change"} /\ ~r.wasVerified => fate[u] = "undone"
      /\ r.op = "verify" => fate[u] # "unproved"
      /\ r.wasVerified => fate[u] \in Settled
      /\ NewPassword(r) \in Passwords
  BY <1>1, <1>2 DEF Fits, Holding, NewPassword
<1>4. fate[u] \in {"unproved", "proved", "verified", "undone"}
      /\ (fate[u] = "verified" => u \in verified)
      /\ (u \in verified \cup signedIn => fate[u] \in Settled)
  BY <1>2 DEF IInv, TypeOK, FatesFit, StaysVerified
<1> HIDE DEF nf
<1>5. /\ nf \in {"unproved", "proved", "verified", "undone"}
      /\ fate[u] # "unproved" => nf # "unproved"
      /\ fate[u] \in Settled => nf \in Settled
      /\ fate[u] = "undone" => nf = "undone"
      /\ NewVerified(r) => nf \in Settled
      /\ ~NewVerified(r) => nf # "verified"
  BY <1>3, <1>4 DEF nf, NewVerified, Settled
<1>6. /\ password' \in [Users -> Passwords \cup {NoPassword}]
      /\ password'[u] # NoPassword
      /\ \A v \in Users \ {u} : password'[v] = password[v]
  BY <1>1, <1>2, <1>3 DEF IInv, TypeOK
<1>7. /\ fate' \in [Users -> {"unproved", "proved", "verified", "undone"}]
      /\ fate'[u] = nf /\ \A v \in Users \ {u} : fate'[v] = fate[v]
      /\ verified' \in SUBSET Users
  BY <1>1, <1>2, <1>5 DEF IInv, TypeOK
<1>8. Stable
  BY <1>1, <1>5, <1>6, <1>7 DEF Stable
<1>9. to \in Steps /\ Free1(w, to)
  BY DEF Steps, Free1
<1>10. InFlight' /\ req' \in [Workers -> Requests]
  BY <1>1, <1>8, <1>9, GotoFits DEF At
<1>11. CountersEnd'
  BY <1>1, <1>9, GotoIsMove, CountersKept DEF At
<1>12. FatesFit'
  <2>1. \A v \in Users : v \in verified' <=> (v = u /\ NewVerified(r)) \/ (v # u /\ v \in verified)
    BY <1>1, <1>2
  <2>2. \A v \in Users : fate'[v] = "verified" => v \in verified'
    BY <1>5, <1>7, <2>1 DEF IInv, FatesFit, StaysVerified
  <2>3. \A v \in verified' \cup signedIn' : v \in Users /\ fate'[v] \in Settled
    BY <1>1, <1>4, <1>5, <1>7, <2>1 DEF IInv, TypeOK, FatesFit
  <2> QED
    BY <2>2, <2>3 DEF FatesFit, StaysVerified
<1> QED
  BY <1>1, <1>6, <1>7, <1>10, <1>11, <1>12 DEF IInv, TypeOK, RowsFit, redis

-----------------------------------------------------------------------------
THEOREM Inductive == IInv /\ [Next]_vars => IInv'
<1> SUFFICES ASSUME IInv, [Next]_vars PROVE IInv'
  OBVIOUS
<1>1. CASE UNCHANGED vars
  BY <1>1 DEF vars, store, redis, IInv, TypeOK, RowsFit, InFlight, FatesFit,
     StaysVerified, CountersEnd, At, LimitKey, AttemptsKey
<1>2. CASE Next
  <2>1. ASSUME NEW w \in Workers, Continue(w)
        PROVE  IInv'
    BY <2>1, StepCounters, StepForgetAttempts, StepFindUser, StepFindUserFails,
       StepCreateUser, StepDeleteCodes, StepCreateRow, StepFindCode,
       StepFindToken, StepMarkUsed, StepUpdateUser, StepFails DEF Continue
  <2> QED
    BY <1>2, <2>1, StepStart, StepKeyExpires, StepRowExpiresStrangersCode DEF Next
<1> QED
  BY <1>1, <1>2

THEOREM Invariant == Spec => []IInv
  BY Initial, Inductive, PTL DEF Spec

\* The tables, counters and requests of accounts keep their types.
THEOREM TypeCorrect == Spec => []TypeOK
<1>1. IInv => TypeOK
  BY DEF IInv
<1> QED
  BY Invariant, <1>1, PTL

\* Nobody is verified or signed in whose address was not proved, whatever rows
\* are written back and whatever codes coincide.
THEOREM VerifiedOnlyIfProved == Spec => []VerifiedWasProved
<1>1. IInv => VerifiedWasProved
  BY DEF IInv, FatesFit, VerifiedWasProved, Settled
<1> QED
  BY Invariant, <1>1, PTL

\* A verified address stays verified, unless a reset undid it.
THEOREM VerificationLasts == Spec => []StaysVerified
<1>1. IInv => StaysVerified
  BY DEF IInv, FatesFit
<1> QED
  BY Invariant, <1>1, PTL

\* A counter has a time to live, is about to get one, or its EXPIRE was lost.
THEOREM NoCounterForEver == Spec => []CountersEnd
<1>1. IInv => CountersEnd
  BY DEF IInv
<1> QED
  BY Invariant, <1>1, PTL
=============================================================================
