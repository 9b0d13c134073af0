------------------------------- MODULE Boards -------------------------------
(***************************************************************************)
(* Boards and their members: tables boards and board_members, and the      *)
(* requests that write them, in internal/service/board_service.go and,     *)
(* for the workspace-wide role change, organization_service.go.            *)
(*                                                                         *)
(* Access is decided by board_members alone (CanUserAccess).  Membership   *)
(* of the workspace (FindMemberBySlug) is read once, by the creation of a  *)
(* board and by the workspace-wide route.  It is module Organizations',    *)
(* and a user may gain or lose it at any time, so here any user may have   *)
(* passed that check: these two requests arrive after it.                  *)
(* One action is one SQL statement; a request may die between any two.     *)
(*                                                                         *)
(* Left out: the fields of a board (title, visibility, is_closed, ...),    *)
(* which none of these requests reads, and the invitation behind a join    *)
(* (module Invitations).                                                   *)
(***************************************************************************)
CONSTANTS Workers, Users, Orgs, Boards, NoUser, NoOrg, NoBoard

ASSUME NullAssumption ==
    NoUser \notin Users /\ NoOrg \notin Orgs /\ NoBoard \notin Boards

VARIABLES
    home,     \* home[b]: boards.organization_id, NoOrg: not created
    ownerId,  \* ownerId[b]: boards.owner_id
    deleted,  \* boards with deleted_at set
    role,     \* role[b][u]: board_members.role, "none": no row
    staffed,  \* history: boards that have had a member, who could invite
    req       \* req[w]: the request worker w is serving

vars == <<home, ownerId, deleted, role, staffed, req>>

Ranks == {"admin", "member"}          \* "viewer" is checked as "member" is
Roles == Ranks \cup {"owner", "none"}
Managers == {"owner", "admin"}        \* BoardRole.CanManage
Ops == {"create", "setRole", "remove", "leave", "delete", "join",
        "workspaceSetRole"}

Requests ==
    [pc : {"idle", "insertBoard", "addOwner", "findBoard", "findTarget",
           "write"},
     op : Ops,
     org : Orgs \cup {NoOrg},
     board : Boards \cup {NoBoard},
     actor : Users \cup {NoUser},
     target : Users \cup {NoUser},
     rank : Ranks,                \* the role asked for
     mine : Roles]                \* the actor's role as it was read, until
                                  \* it is compared with the target's

Idle == [pc |-> "idle", op |-> "create", org |-> NoOrg, board |-> NoBoard,
         actor |-> NoUser, target |-> NoUser, rank |-> "member",
         mine |-> "none"]

TypeOK ==
    /\ home \in [Boards -> Orgs \cup {NoOrg}]
    /\ ownerId \in [Boards -> Users \cup {NoUser}]
    /\ deleted \in SUBSET Boards
    /\ role \in [Boards -> [Users -> Roles]]
    /\ staffed \in SUBSET Boards
    /\ req \in [Workers -> Requests]

Init ==
    /\ home = [b \in Boards |-> NoOrg]
    /\ ownerId = [b \in Boards |-> NoUser]
    /\ deleted = {}
    /\ role = [b \in Boards |-> [u \in Users |-> "none"]]
    /\ staffed = {}
    /\ req = [w \in Workers |-> Idle]

-----------------------------------------------------------------------------
\* IsWorkspaceOwner: u owns some board of o that is not deleted.
WorkspaceOwner(o, u) ==
    \E b \in Boards \ deleted : home[b] = o /\ role[b][u] = "owner"

\* Worker w goes on, or its request is over.
Step(w, to) ==
    req' = [req EXCEPT ![w] = IF to = "idle" THEN Idle
                              ELSE [req[w] EXCEPT !.pc = to, !.mine = "none"]]

Take(w, r) == req[w].pc = "idle" /\ req' = [req EXCEPT ![w] = r]

\* Create, after FindMemberBySlug found the creator in the workspace.
Create(w, o, u) ==
    /\ Take(w, [Idle EXCEPT !.pc = "insertBoard", !.org = o, !.actor = u])
    /\ UNCHANGED <<home, ownerId, deleted, role, staffed>>

InsertBoard(w, b) ==
    /\ req[w].pc = "insertBoard"
    /\ home[b] = NoOrg
    /\ home' = [home EXCEPT ![b] = req[w].org]
    /\ ownerId' = [ownerId EXCEPT ![b] = req[w].actor]
    /\ req' = [req EXCEPT ![w] = [req[w] EXCEPT !.pc = "addOwner", !.board = b]]
    /\ UNCHANGED <<deleted, role, staffed>>

AddOwner(w) ==
    /\ req[w].pc = "addOwner"
    /\ role' = [role EXCEPT ![req[w].board][req[w].actor] = "owner"]
    /\ staffed' = staffed \cup {req[w].board}
    /\ Step(w, "idle")
    /\ UNCHANGED <<home, ownerId, deleted>>

\* The actor's membership is read: by CanUserAccess for a role change, a
\* removal or a deletion, by FindMember for a leave.  A deleted board still
\* has its members.
ReadActor(w, op, b, u, t, r) ==
    /\ home[b] # NoOrg
    /\ \/ op \in {"setRole", "remove"} /\ role[b][u] \in Managers
       \/ op = "delete" /\ role[b][u] = "owner"
       \/ op = "leave" /\ role[b][u] \notin {"none", "owner"}
    /\ Take(w, [Idle EXCEPT !.op = op, !.board = b, !.actor = u,
                   !.target = t, !.rank = r,
                   !.mine = IF op \in {"leave", "delete"} THEN "none"
                            ELSE role[b][u],
                   !.pc = IF op \in {"leave", "delete"} THEN "write"
                          ELSE "findTarget"])
    /\ UNCHANGED <<home, ownerId, deleted, role, staffed>>

\* An invitation is accepted, which somebody on the board had sent (everybody
\* may have left since): FindMember finds no membership yet.
Join(w, b, u, r) ==
    /\ b \in staffed
    /\ role[b][u] = "none"
    /\ Take(w, [Idle EXCEPT !.pc = "write", !.op = "join", !.board = b,
                            !.actor = u, !.target = u, !.rank = r])
    /\ UNCHANGED <<home, ownerId, deleted, role, staffed>>

\* UpdateBoardMemberRole of the workspace, after FindMemberBySlug:
\* IsWorkspaceOwner finds a board of the actor's ...
StartWorkspaceSetRole(w, o, b, u, t, r) ==
    /\ WorkspaceOwner(o, u)
    /\ Take(w, [pc |-> "findBoard", op |-> "workspaceSetRole", org |-> o,
                board |-> b, actor |-> u, target |-> t, rank |-> r,
                mine |-> "none"])
    /\ UNCHANGED <<home, ownerId, deleted, role, staffed>>

\* ... FindByID of the board, which must be one of the workspace.
FindBoard(w) ==
    /\ req[w].pc = "findBoard"
    /\ Step(w, IF home[req[w].board] = req[w].org /\ req[w].board \notin deleted
               THEN "findTarget" ELSE "idle")
    /\ UNCHANGED <<home, ownerId, deleted, role, staffed>>

\* Mutant: owners may demote themselves.
MayTouchSelf(r, theirs) ==
    /\ theirs # "none"
    /\ r.op # "workspaceSetRole" =>
          theirs # "owner" /\ ~(r.mine = "admin" /\ theirs = "admin")

\* Mutant: the board's own routes do not ask whether the target is the owner.
MayTouchOwner(r, theirs) ==
    /\ theirs # "none"
    /\ IF r.op = "workspaceSetRole"
       THEN ~(r.actor = r.target /\ theirs = "owner")
       ELSE ~(r.mine = "admin" /\ theirs = "admin")

\* What the checks on the target's membership demand.
MayTouch(r, theirs) ==
    /\ theirs # "none"
    /\ IF r.op = "workspaceSetRole"
       THEN ~(r.actor = r.target /\ theirs = "owner")
       ELSE theirs # "owner" /\ ~(r.mine = "admin" /\ theirs = "admin")

FindTarget(w) ==
    /\ req[w].pc = "findTarget"
    /\ Step(w, IF MayTouch(req[w], role[req[w].board][req[w].target])
               THEN "write" ELSE "idle")
    /\ UNCHANGED <<home, ownerId, deleted, role, staffed>>

\* Mutant: UpdateMemberRole is an upsert.
WrittenUpsert(op, rank, old) ==
    IF op \in {"remove", "leave"} THEN "none" ELSE rank

\* Mutant: a join does not fill in the role.
WrittenWithoutRole(op, rank, old) ==
    CASE op \in {"remove", "leave"} -> "none"
      [] op = "join" -> IF old = "none" THEN "" ELSE old
      [] op \in {"setRole", "workspaceSetRole"} ->
            IF old = "none" THEN "none" ELSE rank

\* The role that the statement of op leaves where it finds role old: the
\* INSERT fails on the unique key, the UPDATE finds no row.
Written(op, rank, old) ==
    CASE op \in {"remove", "leave"} -> "none"
      [] op = "join" -> IF old = "none" THEN rank ELSE old
      [] op \in {"setRole", "workspaceSetRole"} ->
            IF old = "none" THEN "none" ELSE rank

\* AddMember, UpdateMemberRole or RemoveMember.
WriteMember(w) ==
    /\ req[w].pc = "write" /\ req[w].op # "delete"
    /\ role' = [role EXCEPT ![req[w].board][req[w].target] =
                  Written(req[w].op, req[w].rank, @)]
    /\ Step(w, "idle")
    /\ UNCHANGED <<home, ownerId, deleted, staffed>>

SoftDelete(w) ==
    /\ req[w].pc = "write" /\ req[w].op = "delete"
    /\ deleted' = deleted \cup {req[w].board}
    /\ Step(w, "idle")
    /\ UNCHANGED <<home, ownerId, role, staffed>>

\* A statement fails without effect, or the process dies.
Fails(w) ==
    /\ req[w].pc # "idle"
    /\ Step(w, "idle")
    /\ UNCHANGED <<home, ownerId, deleted, role, staffed>>

Start(w) ==
    \/ \E o \in Orgs, u \in Users : Create(w, o, u)
    \/ \E b \in Boards, u \in Users :
          \/ \E op \in {"leave", "delete"} :
                ReadActor(w, op, b, u, u, "member")
          \/ \E t \in Users : ReadActor(w, "remove", b, u, t, "member")
          \/ \E t \in Users, r \in Ranks : ReadActor(w, "setRole", b, u, t, r)
          \/ \E r \in Ranks : Join(w, b, u, r)
          \/ \E o \in Orgs, t \in Users, r \in Ranks :
                StartWorkspaceSetRole(w, o, b, u, t, r)

Continue(w) ==
    \/ \E b \in Boards : InsertBoard(w, b)
    \/ AddOwner(w) \/ FindBoard(w) \/ FindTarget(w)
    \/ WriteMember(w) \/ SoftDelete(w) \/ Fails(w)

Next ==
    \E w \in Workers : Start(w) \/ Continue(w)

Spec == Init /\ [][Next]_vars

-----------------------------------------------------------------------------
\* How far the creation of b has come, for the abstract roster.
Stage(b) ==
    IF home[b] = NoOrg THEN "none"
    ELSE IF \E w \in Workers : req[w].pc = "addOwner" /\ req[w].board = b
         THEN "founded" ELSE "open"

B == INSTANCE BoardRoster
        WITH founder <- ownerId, stage <- [b \in Boards |-> Stage(b)]

\* Whatever the interleaving of the requests, and wherever they die: a board has
\* no members before its creation ends, nobody but the creator is ever its
\* owner, and no leave, removal, join or role change of a board's own route
\* that was checked against an older role takes an owner off the board.
KeepsItsFounder == B!BoardRosterSpec

\* An owner stops being one only through the workspace-wide route and by
\* somebody else's request, even when the creation of the board and the
\* request overlap ("Prevent owners from demoting themselves").
OwnersDemotedByOthers ==
    [][\A b \in Boards, u \in Users :
          role[b][u] = "owner" /\ role'[b][u] # "owner" =>
              \E w \in Workers :
                  /\ req[w].pc = "write" /\ req'[w] = Idle
                  /\ req[w].op = "workspaceSetRole"
                  /\ req[w].board = b /\ req[w].actor # u]_vars

\* Who left or was removed comes back only by accepting an invitation: a role
\* change that had passed its checks does not restore the membership.
RemovedStaysOut ==
    [][\A b \in Boards, u \in Users :
          role[b][u] = "none" /\ role'[b][u] # "none" =>
              \E w \in Workers :
                  /\ req[w].board = b /\ req[w].op \in {"create", "join"}
                  /\ req'[w] = Idle]_vars
=============================================================================
