--------------------------- MODULE Organizations ---------------------------
(***************************************************************************)
(* Workspaces and their members: tables organizations and                  *)
(* organization_members, and the requests of                               *)
(* internal/service/organization_service.go that write them.               *)
(*                                                                         *)
(* A request reads the actor's membership, then the target's, then writes; *)
(* each is one SQL statement and no transaction holds them together, so a  *)
(* worker performs them as separate actions.  A statement that fails, or a *)
(* process that dies, ends the request there.                              *)
(*                                                                         *)
(* Left out: the name, description and slug of a workspace.  Create may    *)
(* also fail on the slug, which leaves nothing behind.                     *)
(***************************************************************************)
EXTENDS Naturals

CONSTANTS Workers, Users, Orgs, NoUser, NoOrg

ASSUME NullAssumption == NoUser \notin Users /\ NoOrg \notin Orgs

VARIABLES
    ownerId,  \* ownerId[o]: organizations.owner_id, NoUser: not created
    deleted,  \* organizations with deleted_at set
    role,     \* role[o][u]: organization_members.role, "none": no row
    req       \* req[w]: the request worker w is serving

vars == <<ownerId, deleted, role, req>>

Ranks == {"admin", "member"}
Roles == Ranks \cup {"owner", "none"}
Ops == {"create", "invite", "setRole", "remove", "leave", "delete"}

Requests ==
    [pc : {"idle", "addOwner", "findTarget", "write"},
     op : Ops,
     org : Orgs \cup {NoOrg},
     actor : Users \cup {NoUser},
     target : Users \cup {NoUser},
     rank : Ranks,                \* the role of an invitation or a change
     mine : Roles]                \* the actor's role as it was read

Idle == [pc |-> "idle", op |-> "create", org |-> NoOrg, actor |-> NoUser,
         target |-> NoUser, rank |-> "member", mine |-> "none"]

TypeOK ==
    /\ ownerId \in [Orgs -> Users \cup {NoUser}]
    /\ deleted \in SUBSET Orgs
    /\ role \in [Orgs -> [Users -> Roles]]
    /\ req \in [Workers -> Requests]

Init ==
    /\ ownerId = [o \in Orgs |-> NoUser]
    /\ deleted = {}
    /\ role = [o \in Orgs |-> [u \in Users |-> "none"]]
    /\ req = [w \in Workers |-> Idle]

-----------------------------------------------------------------------------
\* OrgRole.Level and HasPermission
Level(r) == CASE r = "owner" -> 3
              [] r = "admin" -> 2
              [] r = "member" -> 1
              [] r = "none" -> 0

HasPermission(r, required) == Level(r) >= Level(required)

\* Mutant: Leave does not refuse the owner.
MayStartOwnerLeaves(op, mine) ==
    \/ op = "delete" /\ mine = "owner"
    \/ op = "leave" /\ mine # "none"
    \/ op \in {"invite", "setRole", "remove"} /\ HasPermission(mine, "admin")

\* What the actor's own role must be for op.
MayStart(op, mine) ==
    \/ op = "delete" /\ mine = "owner"
    \/ op = "leave" /\ mine \notin {"none", "owner"}
    \/ op \in {"invite", "setRole", "remove"} /\ HasPermission(mine, "admin")

\* Mutant: UpdateMemberRole and RemoveMember do not refuse the owner.
MayTouchOwner(op, mine, theirs) ==
    IF op = "invite" THEN theirs = "none"
    ELSE theirs # "none" /\ ~(mine = "admin" /\ theirs = "admin")

\* What the target's role must be for op, given the actor's.
MayTouch(op, mine, theirs) ==
    IF op = "invite" THEN theirs = "none"
    ELSE /\ theirs \notin {"none", "owner"}
         /\ ~(mine = "admin" /\ theirs = "admin")

\* Worker w goes on, or its request is over.
Step(w, to) ==
    req' = [req EXCEPT ![w] = IF to = "idle" THEN Idle
                              ELSE [@ EXCEPT !.pc = to]]

\* Create, up to the INSERT of the organization.
Create(w, o, u) ==
    /\ req[w].pc = "idle"
    /\ ownerId[o] = NoUser
    /\ ownerId' = [ownerId EXCEPT ![o] = u]
    /\ req' = [req EXCEPT ![w] = [Idle EXCEPT !.pc = "addOwner", !.org = o,
                                              !.actor = u]]
    /\ UNCHANGED <<deleted, role>>

\* ... and the INSERT of its owner's membership.
AddOwner(w) ==
    /\ req[w].pc = "addOwner"
    /\ role' = [role EXCEPT ![req[w].org][req[w].actor] = "owner"]
    /\ Step(w, "idle")
    /\ UNCHANGED <<ownerId, deleted>>

\* FindMemberBySlug for actor u, with the check on its role: a leave or a
\* delete writes next, the others read their target.
FindMemberBySlug(w, op, o, u, t, r) ==
    /\ req[w].pc = "idle"
    /\ o \notin deleted
    /\ MayStart(op, role[o][u])
    /\ req' = [req EXCEPT ![w] =
                 [pc |-> IF op \in {"leave", "delete"} THEN "write"
                         ELSE "findTarget",
                  op |-> op, org |-> o, actor |-> u, target |-> t,
                  rank |-> r, mine |-> role[o][u]]]
    /\ UNCHANGED <<ownerId, deleted, role>>

\* FindMember for the target; a refusal ends the request.
FindTarget(w) ==
    /\ req[w].pc = "findTarget"
    /\ Step(w, IF MayTouch(req[w].op, req[w].mine,
                           role[req[w].org][req[w].target])
               THEN "write" ELSE "idle")
    /\ UNCHANGED <<ownerId, deleted, role>>

\* Mutant: UpdateMemberRole is an upsert.
WrittenUpsert(op, rank, old) ==
    CASE op \in {"remove", "leave"} -> "none"
      [] op \in {"invite", "setRole"} -> rank

\* Mutant: InviteMember forgets the Role field of the new member.
WrittenWithoutRole(op, rank, old) ==
    CASE op \in {"remove", "leave"} -> "none"
      [] op = "invite" -> IF old = "none" THEN "" ELSE old
      [] op = "setRole" -> IF old = "none" THEN "none" ELSE rank

\* The role that the statement of op leaves where it finds role old: the
\* INSERT fails on the unique key, the UPDATE finds no row.
Written(op, rank, old) ==
    CASE op \in {"remove", "leave"} -> "none"
      [] op = "invite" -> IF old = "none" THEN rank ELSE old
      [] op = "setRole" -> IF old = "none" THEN "none" ELSE rank

\* AddMember, UpdateMemberRole or RemoveMember of the request's target.
WriteMember(w) ==
    /\ req[w].pc = "write" /\ req[w].op # "delete"
    /\ role' = [role EXCEPT ![req[w].org][req[w].target] =
                  Written(req[w].op, req[w].rank, @)]
    /\ Step(w, "idle")
    /\ UNCHANGED <<ownerId, deleted>>

SoftDelete(w) ==
    /\ req[w].pc = "write" /\ req[w].op = "delete"
    /\ deleted' = deleted \cup {req[w].org}
    /\ Step(w, "idle")
    /\ UNCHANGED <<ownerId, role>>

\* A statement fails without effect, or the process dies.
Fails(w) ==
    /\ req[w].pc # "idle"
    /\ Step(w, "idle")
    /\ UNCHANGED <<ownerId, deleted, role>>

Next ==
    \E w \in Workers :
        \/ \E o \in Orgs, u \in Users : Create(w, o, u)
        \/ \E o \in Orgs, u, t \in Users, r \in Ranks :
              \E op \in {"invite", "setRole"} :
                  FindMemberBySlug(w, op, o, u, t, r)
        \/ \E o \in Orgs, u, t \in Users :
              FindMemberBySlug(w, "remove", o, u, t, "member")
        \/ \E o \in Orgs, u \in Users, op \in {"leave", "delete"} :
              FindMemberBySlug(w, op, o, u, u, "member")
        \/ AddOwner(w) \/ FindTarget(w)
        \/ WriteMember(w) \/ SoftDelete(w) \/ Fails(w)

Spec == Init /\ [][Next]_vars

-----------------------------------------------------------------------------
R == INSTANCE Roster WITH Groups <- Orgs, owner <- ownerId

\* Whatever the interleaving of the requests, a workspace keeps the one owner
\* who created it: no invitation, role change, removal or leave ever touches
\* that membership, or comes before it.
KeepsItsOwner == R!RosterSpec

\* A workspace with members has its owner among them, and no second owner.
OneOwner ==
    \A o \in Orgs :
        /\ \A u \in Users : role[o][u] = "owner" => u = ownerId[o]
        /\ (\E u \in Users : role[o][u] # "none") => R!Seated(o)

\* Who left or was removed comes back only by a new invitation: a role change
\* that had passed its checks before does not restore the membership.
RemovedStaysOut ==
    [][\A o \in Orgs, u \in Users :
          role[o][u] = "none" /\ role'[o][u] # "none" =>
              \E w \in Workers :
                  /\ req[w].org = o /\ req[w].op \in {"create", "invite"}
                  /\ req'[w] = Idle]_vars
=============================================================================
