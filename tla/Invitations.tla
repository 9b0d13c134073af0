---------------------------- MODULE Invitations ----------------------------
(***************************************************************************)
(* Invitations to one board: table board_invitations, with the memberships *)
(* and accounts that answering one creates, and the requests of            *)
(* internal/service/invitation_service.go and of board_service.go's        *)
(* Invite and RevokeInvitation.                                            *)
(*                                                                         *)
(* A user stands for an e-mail address, which has an account or not.  One  *)
(* action is one SQL statement.  Errors that the code assigns to _ let the *)
(* request go on; after any other error, or when the process dies, it ends *)
(* there.                                                                  *)
(*                                                                         *)
(* Left out: the message and the inviter of an invitation, the e-mail that *)
(* carries it, and deletion of the board, which hides neither the          *)
(* invitation nor the memberships from these requests.                     *)
(***************************************************************************)
EXTENDS Naturals

CONSTANTS Workers, Users,
          Owner,      \* the user who created the board
          NoUser,
          MaxInvs     \* bounds the invitations ever created

ASSUME NullAssumption == Owner \in Users /\ NoUser \notin Users

VARIABLES
    status,    \* status[i]: "none" before, "deleted" after the row of i
    email,     \* email[i]: invitee_email
    rank,      \* rank[i]: the role offered
    past,      \* invitations whose expires_at has passed
    role,      \* role[u]: board_members.role of u, "none": no row
    staff,     \* members of the workspace of the board
    accounts,  \* users with a (verified) account
    admitted,  \* history: everyone who was a board member once
    req        \* req[w]: the request worker w is serving

table == <<status, email, rank, past>>
people == <<role, staff, accounts, admitted>>
vars == <<table, people, req>>

Invs == 1..MaxInvs
NoInv == 0
Ranks == {"admin", "member"}          \* "viewer" is checked as "member" is
Managers == {"owner", "admin"}        \* BoardRole.CanManage
Statuses == {"none", "pending", "accepted", "declined", "expired", "deleted"}
Steps == {"idle", "checkInvitee", "findPending", "deleteOld", "createInv",
          "listPending", "checkRevoker", "markExpired", "findMember", "findUser",
          "createUser", "addMember", "findOrg", "addOrg", "markAccepted",
          "markDeclined"}

Requests ==
    [pc : Steps,
     inv : Invs \cup {NoInv},
     actor : Users \cup {NoUser},   \* the invitee, or who revokes
     rank : Ranks]

Idle == [pc |-> "idle", inv |-> NoInv, actor |-> NoUser, rank |-> "member"]

TypeOK ==
    /\ status \in [Invs -> Statuses]
    /\ email \in [Invs -> Users \cup {NoUser}]
    /\ rank \in [Invs -> Ranks]
    /\ past \in SUBSET Invs
    /\ role \in [Users -> Ranks \cup {"owner", "none"}]
    /\ staff \in SUBSET Users /\ accounts \in SUBSET Users
    /\ admitted \in SUBSET Users
    /\ req \in [Workers -> Requests]

Init ==
    /\ status = [i \in Invs |-> "none"]
    /\ email = [i \in Invs |-> NoUser]
    /\ rank = [i \in Invs |-> "member"]
    /\ past = {}
    /\ role = [u \in Users |-> IF u = Owner THEN "owner" ELSE "none"]
    /\ staff = {Owner} /\ accounts = {Owner} /\ admitted = {Owner}
    /\ req = [w \in Workers |-> Idle]

-----------------------------------------------------------------------------
\* FindByToken finds i.
Exists(i) == status[i] \notin {"none", "deleted"}

Pending(i) == status[i] = "pending"

\* FindByBoardAndEmail: the pending invitations of u, latest last.
PendingOf(u) == {i \in Invs : Pending(i) /\ email[i] = u}

\* FindPendingByBoardID; every row of the table is of this board.
FindPendingByBoardID(id) ==
    {i \in Invs : id = "board" /\ Pending(i) /\ i \notin past}

Step(w, from, to) ==
    /\ req[w].pc = from
    /\ req' = [req EXCEPT ![w] = IF to = "idle" THEN Idle
                                 ELSE [req[w] EXCEPT !.pc = to]]

Take(w, pc, i, u, r) ==
    /\ req[w].pc = "idle"
    /\ req' = [req EXCEPT ![w] = [pc |-> pc, inv |-> i, actor |-> u,
                                  rank |-> r]]

-----------------------------------------------------------------------------
\* Invite: CanUserAccess finds that "by" manages the board.
Invite(w, by, u, r) ==
    /\ role[by] \in Managers
    /\ Take(w, "checkInvitee", NoInv, u, r)
    /\ UNCHANGED <<table, people>>

\* FindByEmail and FindMember refuse a member; their errors are ignored.
CheckInvitee(w) ==
    /\ \/ Step(w, "checkInvitee", "findPending")
       \/ Step(w, "checkInvitee", "idle") /\ role[req[w].actor] # "none"
    /\ UNCHANGED <<table, people>>

\* FindByBoardAndEmail: the latest pending invitation, if it has not expired,
\* is to be replaced; an error is ignored.
FindPending(w) ==
    /\ \/ Step(w, "findPending", "createInv")
       \/ /\ req[w].pc = "findPending"
          /\ \E i \in PendingOf(req[w].actor) \ past :
                /\ \A j \in PendingOf(req[w].actor) : j <= i
                /\ req' = [req EXCEPT ![w] =
                             [req[w] EXCEPT !.pc = "deleteOld", !.inv = i]]
    /\ UNCHANGED <<table, people>>

\* Delete, whatever became of that invitation meanwhile; an error is ignored.
DeleteOld(w) ==
    /\ Step(w, "deleteOld", "createInv")
    /\ status' \in {status, [status EXCEPT ![req[w].inv] = "deleted"]}
    /\ UNCHANGED <<email, rank, past, people>>

CreateInv(w) ==
    /\ \E i \in Invs :
          /\ status[i] = "none" /\ \A j \in 1..(i - 1) : status[j] # "none"
          /\ status' = [status EXCEPT ![i] = "pending"]
          /\ email' = [email EXCEPT ![i] = req[w].actor]
          /\ rank' = [rank EXCEPT ![i] = req[w].rank]
    /\ Step(w, "createInv", "idle")
    /\ UNCHANGED <<past, people>>

\* RevokeInvitation asks for the pending invitations of board "" ...
Revoke(w, by, i) ==
    /\ Exists(i)
    /\ Take(w, "listPending", i, by, "member")
    /\ UNCHANGED <<table, people>>

\* ... and goes on to check its actor and to delete the invitation only if it
\* is among them.  There are none, so what follows is never reached and has no
\* action here.
ListPending(w) ==
    /\ Step(w, "listPending", IF req[w].inv \in FindPendingByBoardID("")
                              THEN "checkRevoker" ELSE "idle")
    /\ UNCHANGED <<table, people>>

-----------------------------------------------------------------------------
\* GetByToken, when it writes: it marks an expired pending invitation.
GetByToken(w, i) ==
    /\ Pending(i) /\ i \in past
    /\ Take(w, "markExpired", i, NoUser, "member")
    /\ UNCHANGED <<table, people>>

\* FindByToken and IsExpired of an answer to i by u: an expired invitation is
\* marked, a pending one is answered from step pc on.
Answer(w, i, u, pc) ==
    /\ \/ Exists(i) /\ i \in past /\ Take(w, "markExpired", i, u, rank[i])
       \/ Pending(i) /\ i \notin past /\ email[i] = u /\ Take(w, pc, i, u, rank[i])
    /\ UNCHANGED <<table, people>>

\* Accept; the e-mail address of the account is compared after the expiry.
Accept(w, i, u) == u \in accounts /\ Answer(w, i, u, "findMember")

\* AcceptWithPassword, for whoever holds the token.
AcceptWithPassword(w, i) == Answer(w, i, email[i], "findUser")

\* Decline does not look at the expiry.
Decline(w, i, u) ==
    /\ u \in accounts /\ email[i] = u /\ Pending(i)
    /\ Take(w, "markDeclined", i, u, "member")
    /\ UNCHANGED <<table, people>>

\* Mutant: a failed FindMember counts as a membership.
FindMemberOptimist(w) ==
    /\ \/ Step(w, "findMember", "markAccepted")
       \/ Step(w, "findMember", "addMember") /\ role[req[w].actor] = "none"
    /\ UNCHANGED <<table, people>>

\* FindMember in Accept: a member only marks the invitation; an error counts
\* as no membership.
FindMember(w) ==
    /\ \/ Step(w, "findMember", "addMember")
       \/ Step(w, "findMember", "markAccepted") /\ role[req[w].actor] # "none"
    /\ UNCHANGED <<table, people>>

\* FindByEmail in AcceptWithPassword; an error counts as no account.
FindUser(w) ==
    /\ \/ Step(w, "findUser", "createUser")
       \/ req[w].actor \in accounts /\ Step(w, "findUser", "idle")
    /\ UNCHANGED <<table, people>>

\* Create of the user; the address is a unique key.
CreateUser(w) ==
    /\ IF req[w].actor \in accounts THEN Step(w, "createUser", "idle")
       ELSE Step(w, "createUser", "addMember")
    /\ accounts' = accounts \cup {req[w].actor}
    /\ UNCHANGED <<table, role, staff, admitted>>

\* Mutant: the member is added without a role.
AddMemberWithoutRole(w) ==
    LET u == req[w].actor
    IN  /\ \/ /\ Step(w, "addMember", "findOrg") /\ role[u] = "none"
              /\ role' = [role EXCEPT ![u] = ""]
              /\ admitted' = admitted \cup {u}
           \/ /\ Step(w, "addMember", "idle") /\ role[u] # "none"
              /\ UNCHANGED <<role, admitted>>
        /\ UNCHANGED <<table, staff, accounts>>

\* AddMember; (board, user) is a unique key.
AddMember(w) ==
    LET u == req[w].actor
    IN  /\ \/ /\ Step(w, "addMember", "findOrg") /\ role[u] = "none"
              /\ role' = [role EXCEPT ![u] = req[w].rank]
              /\ admitted' = admitted \cup {u}
           \/ /\ Step(w, "addMember", "idle") /\ role[u] # "none"
              /\ UNCHANGED <<role, admitted>>
        /\ UNCHANGED <<table, staff, accounts>>

\* FindByID of the board and FindMember of its workspace: nothing to add if
\* the board is gone or the user is a member; an error of the second counts
\* as no membership.
FindOrg(w) ==
    /\ Step(w, "findOrg", "addOrg") \/ Step(w, "findOrg", "markAccepted")
    /\ UNCHANGED <<table, people>>

\* AddMember of the workspace; an error is ignored.
AddOrg(w) ==
    /\ Step(w, "addOrg", "markAccepted")
    /\ staff' \in {staff, staff \cup {req[w].actor}}
    /\ UNCHANGED <<table, role, accounts, admitted>>

\* Mutant: UpdateStatus is an upsert.
UpdateStatusUpsert(i, s) == status' = [status EXCEPT ![i] = s]

\* UpdateStatus, by id and whatever the status is; there may be no row.
UpdateStatus(i, s) ==
    status' = [status EXCEPT ![i] = IF @ = "deleted" THEN @ ELSE s]

MarkAnswered(w) ==
    /\ \/ Step(w, "markExpired", "idle") /\ UpdateStatus(req[w].inv, "expired")
       \/ Step(w, "markAccepted", "idle") /\ UpdateStatus(req[w].inv, "accepted")
       \/ Step(w, "markDeclined", "idle") /\ UpdateStatus(req[w].inv, "declined")
    /\ UNCHANGED <<email, rank, past, people>>

\* An error that is returned, or the process dies.
Fails(w) ==
    /\ req[w].pc # "idle" /\ Step(w, req[w].pc, "idle")
    /\ UNCHANGED <<table, people>>

-----------------------------------------------------------------------------
\* Three days pass.
Expire(i) ==
    /\ Exists(i) /\ i \notin past
    /\ past' = past \cup {i}
    /\ UNCHANGED <<status, email, rank, people, req>>

\* RemoveMember or Leave of board_service.
LeaveBoard(u) ==
    /\ role[u] \notin {"none", "owner"}
    /\ role' = [role EXCEPT ![u] = "none"]
    /\ UNCHANGED <<table, staff, accounts, admitted, req>>

\* Register and VerifyEmail of auth_service.
Register(u) ==
    /\ u \notin accounts
    /\ accounts' = accounts \cup {u}
    /\ UNCHANGED <<table, role, staff, admitted, req>>

Start(w) ==
    \/ \E by, u \in Users, r \in Ranks : Invite(w, by, u, r)
    \/ \E i \in Invs :
          \/ GetByToken(w, i) \/ AcceptWithPassword(w, i)
          \/ \E u \in Users :
                Accept(w, i, u) \/ Decline(w, i, u) \/ Revoke(w, u, i)

Continue(w) ==
    \/ CheckInvitee(w) \/ FindPending(w) \/ DeleteOld(w) \/ CreateInv(w)
    \/ ListPending(w) \/ FindMember(w) \/ FindUser(w) \/ CreateUser(w)
    \/ AddMember(w) \/ FindOrg(w) \/ AddOrg(w) \/ MarkAnswered(w) \/ Fails(w)

Next ==
    \/ \E w \in Workers : Start(w) \/ Continue(w)
    \/ \E i \in Invs : Expire(i)
    \/ \E u \in Users : LeaveBoard(u) \/ Register(u)

Spec == Init /\ [][Next]_vars

-----------------------------------------------------------------------------
\* No invitation is used up without letting its invitee in: whatever fails on
\* the way, an accepted invitation's invitee has been a member of the board,
\* so that a half-done acceptance can be tried again.
AcceptedWasAdmitted ==
    \A i \in Invs : status[i] = "accepted" => email[i] \in admitted

\* An invitation that was replaced by a new one stays gone, even if an answer
\* to it was under way.
ReplacedStaysGone ==
    [][\A i \in Invs : status[i] = "deleted" => status'[i] = "deleted"]_vars
=============================================================================
