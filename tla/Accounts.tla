------------------------------ MODULE Accounts ------------------------------
(***************************************************************************)
(* Accounts: tables users and email_verifications, the Redis counters of   *)
(* middleware/ratelimit.go and of the OTP attempts, and the requests of    *)
(* internal/service/auth_service.go that write them.                       *)
(*                                                                         *)
(* userRepo.Update writes the whole row of a user, as it was when the      *)
(* request read it, with the field the request is about changed.  A        *)
(* counter is an INCR and, when it returned 1, an EXPIRE whose error is    *)
(* ignored.                                                                *)
(*                                                                         *)
(* Left out: names and avatars, the passwords' hashing, sessions once they *)
(* are issued (module Sessions), is_active, which nothing clears, and the  *)
(* value of a code: a request that presents a code presents one of some    *)
(* rows, and as codes are not unique the row found may be any user's.      *)
(***************************************************************************)
EXTENDS Naturals

CONSTANTS Workers, Users, Strangers, Passwords, Rows,
          NoPassword, NoUser, NoRow,
          Limited,      \* the operations whose rate limit is modelled
          MaxRequests,  \* RateLimitConfig.MaxRequests
          MaxAttempts   \* maxOTPAttempts

ASSUME NullAssumption == /\ NoPassword \notin Passwords /\ NoRow \notin Rows
                         /\ NoUser \notin Users \cup Strangers
                         /\ Users \cap Strangers = {}
ASSUME LimitAssumption == MaxRequests \in Nat \ {0} /\ MaxAttempts \in Nat \ {0}

VARIABLES
    password,  \* users.password_hash, NoPassword: no row for the address
    verified,  \* users with is_verified
    signedIn,  \* users who hold an access token
    row,       \* email_verifications
    count,     \* Redis counters; 0: no such key
    timed,     \* counters with a time to live
    req,       \* req[w]: the request worker w is serving
    fate,      \* history: what became of the verification of an address
    lost       \* history: counters whose EXPIRE did not happen

store == <<password, verified, signedIn, row>>
redis == <<count, timed, lost>>
vars == <<store, redis, req, fate>>

Ops == {"register", "resend", "verify", "login", "forgot", "reset",
        "profile", "change", "accept"}
Steps == {"idle", "limit", "limitTTL", "attempt", "attemptTTL", "findRow",
          "findUser", "create", "deleteCodes", "createRow", "markUsed",
          "update", "forgetAttempts"}

\* status "dead": expired or used (IsValid is false), "gone": deleted.
Verifications == [owner : Users \cup Strangers \cup {NoUser},
                  type : {"verify_email", "reset_password"},
                  status : {"none", "valid", "dead", "gone"}]
Fresh == [owner |-> NoUser, type |-> "verify_email", status |-> "none"]

Requests == [pc : Steps, op : Ops, user : Users \cup {NoUser},
             row : Rows \cup {NoRow},
             new : Passwords \cup {NoPassword},  \* the password it brings
             old : Passwords \cup {NoPassword},  \* the row of the user
             wasVerified : BOOLEAN]              \*    as it read it
Idle == [pc |-> "idle", op |-> "login", user |-> NoUser, row |-> NoRow,
         new |-> NoPassword, old |-> NoPassword, wasVerified |-> FALSE]

Keys == {<<"ratelimit", op>> : op \in Limited} \cup {<<"otp_attempts", u>> : u \in Users}
LimitKey(w) == <<"ratelimit", req[w].op>>
AttemptsKey(w) == <<"otp_attempts", req[w].user>>
MaxOf(k) == IF k[1] = "ratelimit" THEN MaxRequests ELSE MaxAttempts

TypeOK ==
    /\ password \in [Users -> Passwords \cup {NoPassword}]
    /\ verified \in SUBSET Users
    /\ signedIn \in SUBSET Users
    /\ row \in [Rows -> Verifications]
    /\ count \in [Keys -> 0..(MaxRequests + MaxAttempts)]
    /\ timed \in SUBSET {k \in Keys : count[k] > 0}
    /\ lost \in SUBSET Keys
    /\ req \in [Workers -> Requests]
    /\ fate \in [Users -> {"unproved", "proved", "verified", "undone"}]

Init ==
    /\ password = [u \in Users |-> NoPassword]
    /\ verified = {} /\ signedIn = {}
    /\ row = [i \in Rows |-> Fresh]
    /\ count = [k \in Keys |-> 0] /\ timed = {} /\ lost = {}
    /\ req = [w \in Workers |-> Idle]
    /\ fate = [u \in Users |-> "unproved"]

-----------------------------------------------------------------------------
Exists(u) == password[u] # NoPassword

Goto(w, to) == req' = [req EXCEPT ![w] = IF to = "idle" THEN Idle
                                         ELSE [req[w] EXCEPT !.pc = to]]
At(w, pc) == req[w].pc = pc

\* The first statement of op after the rate limit.
First(op) == IF op = "verify" THEN "attempt"
             ELSE IF op = "reset" THEN "findRow"
             ELSE "findUser"

Take(w, r) ==
    /\ At(w, "idle")
    /\ req' = [req EXCEPT ![w] =
                 [r EXCEPT !.pc = IF r.op \in Limited THEN "limit" ELSE First(r.op)]]
    /\ UNCHANGED <<store, redis, fate>>

Start(w) ==
    \E u \in Users :
        \/ \E op \in {"register", "login", "accept"}, p \in Passwords :
              Take(w, [Idle EXCEPT !.op = op, !.user = u, !.new = p])
        \/ \E op \in {"resend", "verify", "forgot"} :
              Take(w, [Idle EXCEPT !.op = op, !.user = u])
        \/ \E i \in Rows, p \in Passwords :
              /\ row[i].type = "reset_password" /\ row[i].status # "none"
              /\ Take(w, [Idle EXCEPT !.op = "reset", !.user = row[i].owner,
                                      !.row = i, !.new = p])
        \/ /\ u \in signedIn
           /\ \/ Take(w, [Idle EXCEPT !.op = "profile", !.user = u])
              \/ \E p \in Passwords :
                    Take(w, [Idle EXCEPT !.op = "change", !.user = u, !.new = p])

-----------------------------------------------------------------------------
\* Counters.  Values above the maximum count as one: no code tells them apart.
Bumped(k) == IF count[k] > MaxOf(k) THEN count[k] ELSE count[k] + 1

\* Mutant: the key gets its time to live once the maximum is passed.
AdmittedLate(n, k, ttl, next) ==
    IF n > MaxOf(k) + 1 THEN ttl ELSE IF n > MaxOf(k) THEN "idle" ELSE next

\* Where a request goes with the n-th count of k.
Admitted(n, k, ttl, next) ==
    IF n = 1 THEN ttl ELSE IF n > MaxOf(k) THEN "idle" ELSE next

\* INCR; when it returns an error the request goes on, and it may have been
\* applied.
Incr(w, k, ttl, next) ==
    /\ \/ /\ count' = [count EXCEPT ![k] = Bumped(k)]
          /\ Goto(w, Admitted(Bumped(k), k, ttl, next))
          /\ UNCHANGED lost
       \/ /\ count' = [count EXCEPT ![k] = Bumped(k)]
          /\ Goto(w, next)
          /\ lost' = IF count[k] = 0 THEN lost \cup {k} ELSE lost
       \/ Goto(w, next) /\ UNCHANGED <<count, lost>>
    /\ UNCHANGED <<store, timed, fate>>

\* EXPIRE, or an error that is ignored.
SetExpiry(w, k, next) ==
    /\ \/ timed' = (IF count[k] > 0 THEN timed \cup {k} ELSE timed) /\ UNCHANGED lost
       \/ lost' = (IF count[k] > 0 THEN lost \cup {k} ELSE lost) /\ UNCHANGED timed
    /\ Goto(w, next)
    /\ UNCHANGED <<store, count, fate>>

RateLimit(w) ==
    \/ At(w, "limit") /\ Incr(w, LimitKey(w), "limitTTL", First(req[w].op))
    \/ At(w, "limitTTL") /\ SetExpiry(w, LimitKey(w), First(req[w].op))

CountAttempt(w) ==
    \/ At(w, "attempt") /\ Incr(w, AttemptsKey(w), "attemptTTL", "findUser")
    \/ At(w, "attemptTTL") /\ SetExpiry(w, AttemptsKey(w), "findUser")

Dropped(k) == /\ count' = [count EXCEPT ![k] = 0]
              /\ timed' = timed \ {k} /\ lost' = lost \ {k}

\* Mutant: the attempts are set to 0, which leaves the key and its time.
ForgetAttemptsBySet(w) ==
    /\ At(w, "forgetAttempts") /\ Goto(w, "idle")
    /\ count' = [count EXCEPT ![AttemptsKey(w)] = 0]
    /\ UNCHANGED <<store, timed, lost, fate>>

\* Delete of the attempts, the error ignored.
ForgetAttempts(w) ==
    /\ At(w, "forgetAttempts") /\ Goto(w, "idle")
    /\ Dropped(AttemptsKey(w)) \/ UNCHANGED redis
    /\ UNCHANGED <<store, fate>>

\* Redis drops a key whose time is over.
KeyExpires(k) == /\ k \in timed /\ Dropped(k)
                 /\ UNCHANGED <<store, req, fate>>

-----------------------------------------------------------------------------
\* Mutant: Login does not ask for is_verified.
MaySignInUnverified(w) == Exists(req[w].user) /\ password[req[w].user] = req[w].new

MaySignIn(w) == /\ password[req[w].user] = req[w].new
                /\ req[w].user \in verified

\* FindByEmail or FindByID, and what the request makes of the row.
FindUser(w) ==
    LET u == req[w].user
        op == req[w].op
    IN  /\ At(w, "findUser")
        /\ \/ op \in {"register", "accept"} /\ ~Exists(u)
              /\ Goto(w, "create") /\ UNCHANGED signedIn
           \/ op = "resend" /\ Exists(u) /\ u \notin verified
              /\ Goto(w, "deleteCodes") /\ UNCHANGED signedIn
           \/ op = "forgot" /\ Exists(u)
              /\ Goto(w, "createRow") /\ UNCHANGED signedIn
           \/ op = "login" /\ Exists(u) /\ MaySignIn(w)
              /\ signedIn' = signedIn \cup {u} /\ Goto(w, "idle")
           \/ /\ Exists(u)
              /\ op \in {"reset", "profile", "change"} \/ (op = "verify" /\ u \notin verified)
              /\ req' = [req EXCEPT ![w] =
                           [req[w] EXCEPT !.pc = IF op = "verify" THEN "findRow" ELSE "update",
                                          !.old = password[u],
                                          !.wasVerified = u \in verified]]
              /\ UNCHANGED signedIn
           \/ Goto(w, "idle") /\ UNCHANGED signedIn  \* refused, or an error
        /\ UNCHANGED <<password, verified, row, redis, fate>>

\* FindByEmail fails and AcceptWithPassword goes on.
FindUserFails(w) ==
    /\ At(w, "findUser") /\ req[w].op = "accept"
    /\ Goto(w, "create")
    /\ UNCHANGED <<store, redis, fate>>

\* The unique key on users.email.
Free(u) == ~Exists(u)

\* INSERT of the user, by Register and by AcceptWithPassword, which takes the
\* invitation for the proof of the address and signs the user in.
CreateUser(w) ==
    LET u == req[w].user
    IN  /\ At(w, "create") /\ Free(u)
        /\ password' = [password EXCEPT ![u] = req[w].new]
        /\ IF req[w].op = "accept"
           THEN /\ verified' = verified \cup {u} /\ signedIn' = signedIn \cup {u}
                /\ fate' = [fate EXCEPT ![u] = "verified"]
                /\ Goto(w, "idle")
           ELSE /\ UNCHANGED <<verified, signedIn, fate>>
                /\ Goto(w, "deleteCodes")
        /\ UNCHANGED <<row, redis>>

\* DeleteByUserAndType, the error ignored.
DeleteCodes(w) ==
    /\ At(w, "deleteCodes") /\ Goto(w, "createRow")
    /\ \/ row' = [i \in Rows |->
                    IF row[i].owner = req[w].user /\ row[i].type = "verify_email"
                    THEN [row[i] EXCEPT !.status = "gone"] ELSE row[i]]
       \/ UNCHANGED row
    /\ UNCHANGED <<password, verified, signedIn, redis, fate>>

Issued(i, u, type) ==
    /\ row[i].status = "none"
    /\ row' = [row EXCEPT ![i] = [owner |-> u, type |-> type, status |-> "valid"]]
    /\ UNCHANGED <<password, verified, signedIn, redis, fate>>

\* Create of a code or a reset token, which is then mailed.
CreateRow(w) ==
    /\ At(w, "createRow") /\ Goto(w, "idle")
    /\ \E i \in Rows : Issued(i, req[w].user, IF req[w].op = "forgot"
                                              THEN "reset_password" ELSE "verify_email")

\* Another user's code, which may equal any code.
StrangersCode == /\ \E i \in Rows, s \in Strangers : Issued(i, s, "verify_email")
                 /\ UNCHANGED req

RowExpires(i) ==
    /\ row[i].status = "valid"
    /\ row' = [row EXCEPT ![i] = [row[i] EXCEPT !.status = "dead"]]
    /\ UNCHANGED <<password, verified, signedIn, redis, req, fate>>

\* Mutant: VerifyEmail does not compare the owner of the code.
AcceptableAnyones(i, u) == row[i].status = "valid"

Acceptable(i, u) == row[i].status = "valid" /\ row[i].owner = u

\* FindByToken of a code: any row that is there may be the one.
FindCode(w) ==
    /\ At(w, "findRow") /\ req[w].op = "verify"
    /\ \E i \in Rows :
          /\ row[i].type = "verify_email"
          /\ Acceptable(i, req[w].user)
          /\ req' = [req EXCEPT ![w] = [req[w] EXCEPT !.pc = "markUsed", !.row = i]]
          /\ fate' = [u \in Users |-> IF u = row[i].owner /\ fate[u] = "unproved"
                                      THEN "proved" ELSE fate[u]]
    /\ UNCHANGED <<store, redis>>

\* FindByToken of a reset token.
FindToken(w) ==
    /\ At(w, "findRow") /\ req[w].op = "reset"
    /\ Goto(w, IF row[req[w].row].status = "valid" THEN "findUser" ELSE "idle")
    /\ UNCHANGED <<store, redis, fate>>

\* MarkUsed: before the UPDATE of the user by VerifyEmail, after it by
\* ResetPassword.
MarkUsed(w) ==
    LET i == req[w].row
    IN  /\ At(w, "markUsed")
        /\ row' = [row EXCEPT ![i] = IF row[i].status = "gone" THEN row[i]
                                     ELSE [row[i] EXCEPT !.status = "dead"]]
        /\ Goto(w, IF req[w].op = "verify" THEN "update" ELSE "idle")
        /\ UNCHANGED <<password, verified, signedIn, redis, fate>>

\* The columns the UPDATE writes.
NewPassword(r) == IF r.op \in {"reset", "change"} THEN r.new ELSE r.old
NewVerified(r) == r.op = "verify" \/ r.wasVerified

\* Update of the whole row.
UpdateUser(w) ==
    LET r == req[w]
    IN  /\ At(w, "update")
        /\ password' = [password EXCEPT ![r.user] = NewPassword(r)]
        /\ verified' = IF NewVerified(r) THEN verified \cup {r.user}
                       ELSE verified \ {r.user}
        /\ fate' = [fate EXCEPT ![r.user] =
                      IF r.op = "verify" /\ @ = "proved" THEN "verified"
                      ELSE IF r.op = "reset" /\ ~NewVerified(r) /\ @ = "verified"
                           THEN "undone" ELSE @]
        /\ Goto(w, IF r.op = "verify" THEN "forgetAttempts"
                   ELSE IF r.op = "reset" THEN "markUsed" ELSE "idle")
        /\ UNCHANGED <<signedIn, row, redis>>

\* A statement fails without effect, or the process dies; an EXPIRE that was
\* still to come is lost.
Fails(w) ==
    /\ ~At(w, "idle") /\ Goto(w, "idle")
    /\ lost' = lost \cup {k \in Keys : /\ count[k] > 0
                                       /\ \/ At(w, "limitTTL") /\ k = LimitKey(w)
                                          \/ At(w, "attemptTTL") /\ k = AttemptsKey(w)}
    /\ UNCHANGED <<store, count, timed, fate>>

Continue(w) ==
    \/ RateLimit(w) \/ CountAttempt(w) \/ ForgetAttempts(w)
    \/ FindUser(w) \/ FindUserFails(w) \/ CreateUser(w)
    \/ DeleteCodes(w) \/ CreateRow(w)
    \/ FindCode(w) \/ FindToken(w) \/ MarkUsed(w) \/ UpdateUser(w)
    \/ Fails(w)

Next ==
    \/ \E w \in Workers : Start(w) \/ Continue(w)
    \/ \E k \in Keys : KeyExpires(k)
    \/ \E i \in Rows : RowExpires(i)
    \/ StrangersCode

Spec == Init /\ [][Next]_vars

-----------------------------------------------------------------------------
\* Only who showed a code of their own, or followed an invitation, is verified
\* or signed in: codes are not unique, and copies of old rows are written back.
VerifiedWasProved ==
    \A u \in verified \cup signedIn : fate[u] # "unproved"

\* A verified address stays verified whatever profile, avatar and password
\* changes are in flight, because they belong to users who could sign in.  Only
\* a reset, which an unverified user may start, can write is_verified back.
StaysVerified ==
    \A u \in Users : fate[u] = "verified" => u \in verified

\* A counter that is there will end: it has a time to live, a request is about
\* to give it one, or the EXPIRE was lost.  Otherwise clients would be refused
\* for good; a delete between an INCR and its EXPIRE does not lead there.
CountersEnd ==
    \A k \in Keys :
        count[k] > 0 => \/ k \in timed \cup lost
                        \/ \E w \in Workers :
                              \/ At(w, "limitTTL") /\ k = LimitKey(w)
                              \/ At(w, "attemptTTL") /\ k = AttemptsKey(w)
=============================================================================
