---------------------------- MODULE MembersProofs ----------------------------
(***************************************************************************)
(* Proofs about who is a member of a board and what that admits to: Boards *)
(* and, as instances below, Invitations and Comments, for any workers,     *)
(* users, workspaces, boards, invitations, cards and comments.             *)
(*                                                                         *)
(* What a request has read about a role is old when it writes.  The owner  *)
(* is safe from that because the role of owner is written once, when the   *)
(* creation ends, and until then nobody has a role on the board that       *)
(* another request could have found (Unfounded).                           *)
(***************************************************************************)
EXTENDS Boards, Integers, Sequences, WellFoundedInduction, TLAPS

USE NullAssumption

\* Nobody is a member of b yet: its creation has not ended.
Unfounded(b) ==
    \/ home[b] = NoOrg
    \/ \E w \in Workers : req[w].pc = "addOwner" /\ req[w].board = b

UnfoundedIsEmpty ==
    \A b \in Boards : Unfounded(b) => \A u \in Users : role[b][u] = "none"

\* The boards an invitation to may be out have been founded.
StaffedAreFounded == \A b \in staffed : ~Unfounded(b)

\* Nobody but the creator of a board has the owner role.
NoSecondOwner ==
    \A b \in Boards, u \in Users : role[b][u] = "owner" => u = ownerId[b]

\* Each board is founded by one request, in the name of its owner.
Founding(w) == req[w].pc = "addOwner"
FoundersFit ==
    /\ \A w \in Workers : Founding(w) =>
          /\ req[w].op = "create"
          /\ req[w].board \in Boards /\ home[req[w].board] # NoOrg
          /\ req[w].actor \in Users /\ req[w].actor = ownerId[req[w].board]
    /\ \A v, w \in Workers : v # w /\ Founding(v) /\ Founding(w)
                                => req[v].board # req[w].board

\* Requests whose write must not find an owner.
SparesOwner(r) ==
    \/ r.op \in {"setRole", "remove", "leave"}
    \/ r.op = "workspaceSetRole" /\ r.actor = r.target

\* What is known of a request after each of its statements.
Fits(r) ==
    /\ r.pc = "insertBoard" => r.op = "create" /\ r.org \in Orgs /\ r.actor \in Users
    /\ r.pc \in {"findBoard", "findTarget", "write"} =>
          r.board \in Boards /\ r.target \in Users /\ r.op # "create"
    /\ r.pc = "write" =>
          /\ ~Unfounded(r.board)
          /\ SparesOwner(r) => role[r.board][r.target] # "owner"

InFlight == \A w \in Workers : Fits(req[w])

IInv ==
    /\ TypeOK /\ UnfoundedIsEmpty /\ StaffedAreFounded
    /\ FoundersFit /\ InFlight /\ NoSecondOwner

-----------------------------------------------------------------------------
LEMMA IdleIsRequest == Idle \in Requests /\ Idle.pc = "idle"
  BY DEF Idle, Requests, Ops, Ranks, Roles

\* A request that becomes r, while no board is created and no role is written.
LEMMA RequestMoves ==
  ASSUME IInv, NEW w \in Workers, NEW r \in Requests, req' = [req EXCEPT ![w] = r],
         UNCHANGED <<home, ownerId, role, staffed>>, deleted' \in SUBSET Boards,
         r.pc # "addOwner", Fits(r)
  PROVE  IInv'
<1>1. req' \in [Workers -> Requests] /\ req'[w] = r
      /\ \A v \in Workers \ {w} : req'[v] = req[v]
  BY DEF IInv, TypeOK
<1>2. \A b : Unfounded(b)' => Unfounded(b)
  BY <1>1 DEF Unfounded
<1>3. UnfoundedIsEmpty' /\ StaffedAreFounded' /\ NoSecondOwner'
  BY <1>2 DEF IInv, UnfoundedIsEmpty, StaffedAreFounded, NoSecondOwner
<1>4. FoundersFit'
  BY <1>1 DEF IInv, FoundersFit, Founding
<1>5. InFlight'
  <2> SUFFICES ASSUME NEW v \in Workers PROVE Fits(req[v])'
    BY DEF InFlight
  <2>1. Fits(req'[v])
    BY <1>1 DEF IInv, InFlight
  <2> QED
    BY <2>1, <1>2 DEF Fits, SparesOwner
<1> QED
  BY <1>1, <1>3, <1>4, <1>5 DEF IInv, TypeOK

LEMMA RequestEnds ==
  ASSUME IInv, NEW w \in Workers, req' = [req EXCEPT ![w] = Idle],
         UNCHANGED <<home, ownerId, role, staffed>>, deleted' \in SUBSET Boards
  PROVE  IInv'
<1>1. Fits(Idle)
  BY IdleIsRequest DEF Fits
<1> QED
  BY <1>1, IdleIsRequest, RequestMoves

THEOREM Initial == Init => IInv
<1> SUFFICES ASSUME Init PROVE IInv
  OBVIOUS
<1>1. \A w \in Workers : req[w] = Idle
  BY DEF Init
<1>2. TypeOK
  BY IdleIsRequest DEF Init, TypeOK, Roles
<1>3. /\ UnfoundedIsEmpty /\ StaffedAreFounded
      /\ FoundersFit /\ InFlight /\ NoSecondOwner
  BY <1>1, IdleIsRequest DEF Init, UnfoundedIsEmpty, StaffedAreFounded,
                             FoundersFit, Founding, InFlight, Fits, NoSecondOwner
<1> QED
  BY <1>2, <1>3 DEF IInv

-----------------------------------------------------------------------------
LEMMA StepStart ==
  ASSUME IInv, NEW w \in Workers, Start(w)
  PROVE  IInv'
<1>1. ASSUME NEW o \in Orgs, NEW u \in Users, Create(w, o, u)
      PROVE  IInv'
  <2> DEFINE r == [Idle EXCEPT !.pc = "insertBoard", !.org = o, !.actor = u]
  <2>1. r \in Requests /\ r.pc # "addOwner" /\ Fits(r)
    BY DEF Idle, Requests, Ops, Ranks, Roles, Fits
  <2>2. req' = [req EXCEPT ![w] = r] /\ UNCHANGED <<home, ownerId, deleted, role, staffed>>
    BY <1>1 DEF Create, Take
  <2> HIDE DEF r
  <2> QED
    BY <2>1, <2>2, RequestMoves DEF IInv, TypeOK
<1>2. ASSUME NEW op \in {"leave", "delete", "remove", "setRole"}, NEW b \in Boards,
             NEW u \in Users, NEW t \in Users, NEW k \in Ranks,
             op \in {"leave", "delete"} => t = u, ReadActor(w, op, b, u, t, k)
      PROVE  IInv'
  <2> DEFINE mine == IF op \in {"leave", "delete"} THEN "none" ELSE role[b][u]
             pc == IF op \in {"leave", "delete"} THEN "write" ELSE "findTarget"
             r == [Idle EXCEPT !.op = op, !.board = b, !.actor = u, !.target = t,
                               !.rank = k, !.mine = mine, !.pc = pc]
  <2>1. role[b][u] \in Roles /\ role[b][u] # "none"
    BY <1>2 DEF ReadActor, IInv, TypeOK, Managers
  <2>2. ~Unfounded(b)
    BY <2>1 DEF IInv, UnfoundedIsEmpty
  <2>3. op = "leave" => role[b][t] # "owner"
    BY <1>2 DEF ReadActor
  <2>4. req' = [req EXCEPT ![w] = r] /\ UNCHANGED <<home, ownerId, deleted, role, staffed>>
    BY <1>2 DEF ReadActor, Take
  <2>5. mine \in Roles /\ pc \in {"write", "findTarget"}
        /\ (pc = "write" => op \in {"leave", "delete"})
    BY <2>1 DEF Roles
  <2> HIDE DEF mine, pc
  <2>6. r \in Requests /\ r.pc # "addOwner"
    BY <2>5 DEF Idle, Requests, Ops
  <2>7. Fits(r)
    BY <2>2, <2>3, <2>5 DEF Idle, Fits, SparesOwner
  <2> HIDE DEF r
  <2> QED
    BY <2>4, <2>6, <2>7, RequestMoves DEF IInv, TypeOK
<1>3. ASSUME NEW b \in Boards, NEW u \in Users, NEW k \in Ranks, Join(w, b, u, k)
      PROVE  IInv'
  <2> DEFINE r == [Idle EXCEPT !.pc = "write", !.op = "join", !.board = b,
                               !.actor = u, !.target = u, !.rank = k]
  <2>1. ~Unfounded(b)
    BY <1>3 DEF Join, IInv, StaffedAreFounded
  <2>2. r \in Requests /\ r.pc # "addOwner"
    BY DEF Idle, Requests, Ops, Roles
  <2>3. Fits(r)
    BY <2>1 DEF Idle, Fits, SparesOwner
  <2>4. req' = [req EXCEPT ![w] = r] /\ UNCHANGED <<home, ownerId, deleted, role, staffed>>
    BY <1>3 DEF Join, Take
  <2> HIDE DEF r
  <2> QED
    BY <2>2, <2>3, <2>4, RequestMoves DEF IInv, TypeOK
<1>4. ASSUME NEW o \in Orgs, NEW b \in Boards, NEW u \in Users, NEW t \in Users,
             NEW k \in Ranks, StartWorkspaceSetRole(w, o, b, u, t, k)
      PROVE  IInv'
  <2> DEFINE r == [pc |-> "findBoard", op |-> "workspaceSetRole", org |-> o,
                   board |-> b, actor |-> u, target |-> t, rank |-> k,
                   mine |-> "none"]
  <2>1. r \in Requests /\ r.pc # "addOwner" /\ Fits(r)
    BY DEF Requests, Ops, Roles, Fits
  <2>2. req' = [req EXCEPT ![w] = r] /\ UNCHANGED <<home, ownerId, deleted, role, staffed>>
    BY <1>4 DEF StartWorkspaceSetRole, Take
  <2> HIDE DEF r
  <2> QED
    BY <2>1, <2>2, RequestMoves DEF IInv, TypeOK
<1>5. "member" \in Ranks
  BY DEF Ranks
<1> QED
  BY <1>1, <1>2, <1>3, <1>4, <1>5 DEF Start

\* FindBoard and FindTarget: a request that goes on has a target whose role it
\* may touch.
LEMMA StepFind ==
  ASSUME IInv, NEW w \in Workers, FindBoard(w) \/ FindTarget(w)
  PROVE  IInv'
<1> DEFINE To(pc) == [req[w] EXCEPT !.pc = pc, !.mine = "none"]
<1>0. req[w] \in Requests /\ Fits(req[w])
      /\ UNCHANGED <<home, ownerId, deleted, role, staffed>>
  BY DEF IInv, TypeOK, InFlight, FindBoard, FindTarget
<1>1. ASSUME NEW pc \in {"findTarget", "write"}, req[w].pc \in {"findBoard", "findTarget"},
             req' = [req EXCEPT ![w] = To(pc)],
             pc = "write" => MayTouch(req[w], role[req[w].board][req[w].target])
      PROVE  IInv'
  <2>1. /\ To(pc) \in Requests /\ To(pc).pc = pc
        /\ To(pc).op = req[w].op /\ To(pc).board = req[w].board
        /\ To(pc).actor = req[w].actor /\ To(pc).target = req[w].target
    BY <1>0 DEF Requests, Roles
  <2> HIDE DEF To
  <2>2. req[w].board \in Boards /\ req[w].target \in Users /\ req[w].op # "create"
    BY <1>0, <1>1 DEF Fits
  <2>3. CASE pc = "findTarget"
    <3>1. Fits(To(pc))
      BY <2>1, <2>2, <2>3 DEF Fits
    <3> QED
      BY <1>0, <1>1, <2>1, <2>3, <3>1, RequestMoves DEF IInv, TypeOK
  <2>4. CASE pc = "write"
    <3>1. MayTouch(req[w], role[req[w].board][req[w].target])
      BY <1>1, <2>4
    <3>2. ~Unfounded(req[w].board)
      BY <3>1, <2>2 DEF MayTouch, IInv, UnfoundedIsEmpty
    <3>3. SparesOwner(req[w]) => role[req[w].board][req[w].target] # "owner"
      BY <3>1 DEF MayTouch, SparesOwner
    <3>4. Fits(To(pc))
      BY <2>1, <2>2, <2>4, <3>2, <3>3 DEF Fits, SparesOwner
    <3> QED
      BY <1>0, <1>1, <2>1, <2>4, <3>4, RequestMoves DEF IInv, TypeOK
  <2> QED
    BY <2>3, <2>4
<1>2. ASSUME req' = [req EXCEPT ![w] = Idle]
      PROVE  IInv'
  BY <1>0, <1>2, RequestEnds DEF IInv, TypeOK
<1>3. CASE FindBoard(w)
  BY <1>1, <1>2, <1>3 DEF FindBoard, Step
<1>4. CASE FindTarget(w)
  <2>1. CASE MayTouch(req[w], role[req[w].board][req[w].target])
    BY <1>1, <1>4, <2>1 DEF FindTarget, Step
  <2>2. CASE ~MayTouch(req[w], role[req[w].board][req[w].target])
    BY <1>2, <1>4, <2>2 DEF FindTarget, Step
  <2> QED
    BY <2>1, <2>2
<1> QED
  BY <1>3, <1>4

LEMMA StepSoftDeleteOrFails ==
  ASSUME IInv, NEW w \in Workers, SoftDelete(w) \/ Fails(w)
  PROVE  IInv'
<1>1. req' = [req EXCEPT ![w] = Idle] /\ UNCHANGED <<home, ownerId, role, staffed>>
  BY DEF SoftDelete, Fails, Step
<1>2. deleted' \in SUBSET Boards
  <2>1. CASE SoftDelete(w)
    BY <2>1 DEF SoftDelete, IInv, TypeOK, InFlight, Fits
  <2>2. CASE Fails(w)
    BY <2>2 DEF Fails, IInv, TypeOK
  <2> QED
    BY <2>1, <2>2
<1> QED
  BY <1>1, <1>2, RequestEnds

LEMMA StepInsertBoard ==
  ASSUME IInv, NEW w \in Workers, NEW b \in Boards, InsertBoard(w, b)
  PROVE  IInv'
<1> DEFINE r == [req[w] EXCEPT !.pc = "addOwner", !.board = b]
<1>1. /\ req[w].pc = "insertBoard" /\ home[b] = NoOrg
      /\ home' = [home EXCEPT ![b] = req[w].org]
      /\ ownerId' = [ownerId EXCEPT ![b] = req[w].actor]
      /\ req' = [req EXCEPT ![w] = r]
      /\ UNCHANGED <<deleted, role, staffed>>
  BY DEF InsertBoard
<1>2. req[w] \in Requests /\ req[w].op = "create" /\ req[w].org \in Orgs
      /\ req[w].actor \in Users
  BY <1>1 DEF IInv, TypeOK, InFlight, Fits
<1>3. /\ r \in Requests /\ r.pc = "addOwner" /\ r.board = b
      /\ r.op = "create" /\ r.actor = req[w].actor
  BY <1>2 DEF Requests
<1> HIDE DEF r
<1>4. req' \in [Workers -> Requests] /\ req'[w] = r
      /\ \A v \in Workers \ {w} : req'[v] = req[v]
  BY <1>1, <1>3 DEF IInv, TypeOK
<1>5. /\ home'[b] = req[w].org /\ ownerId'[b] = req[w].actor
      /\ \A c \in Boards \ {b} : home'[c] = home[c] /\ ownerId'[c] = ownerId[c]
  BY <1>1 DEF IInv, TypeOK
<1>6. Unfounded(b) /\ \A u \in Users : role[b][u] = "none"
  BY <1>1 DEF Unfounded, IInv, UnfoundedIsEmpty
<1>7. \A c \in Boards : Unfounded(c)' => Unfounded(c)
  <2> SUFFICES ASSUME NEW c \in Boards, c # b, Unfounded(c)'
               PROVE  Unfounded(c)
    BY <1>6
  <2> QED
    BY <1>3, <1>4, <1>5 DEF Unfounded
<1>8. TypeOK'
  BY <1>1, <1>2, <1>4 DEF IInv, TypeOK
<1>9. UnfoundedIsEmpty' /\ StaffedAreFounded'
  BY <1>1, <1>7 DEF IInv, TypeOK, UnfoundedIsEmpty, StaffedAreFounded
<1>10. FoundersFit'
  BY <1>1, <1>2, <1>3, <1>4, <1>5 DEF IInv, FoundersFit, Founding
<1>11. InFlight'
  <2> SUFFICES ASSUME NEW v \in Workers PROVE Fits(req[v])'
    BY DEF InFlight
  <2>1. CASE v = w
    BY <1>3, <1>4, <2>1 DEF Fits
  <2>2. CASE v # w
    <3>1. req'[v] = req[v] /\ Fits(req[v])
      BY <1>4, <2>2 DEF IInv, InFlight
    <3> QED
      BY <1>1, <1>7, <3>1 DEF Fits, SparesOwner
  <2> QED
    BY <2>1, <2>2
<1>12. NoSecondOwner'
  <2> SUFFICES ASSUME NEW c \in Boards, NEW u \in Users, role[c][u] = "owner"
               PROVE  u = ownerId'[c]
    BY <1>1 DEF NoSecondOwner
  <2> QED
    BY <1>5, <1>6 DEF IInv, NoSecondOwner
<1> QED
  BY <1>8, <1>9, <1>10, <1>11, <1>12 DEF IInv

LEMMA StepAddOwner ==
  ASSUME IInv, NEW w \in Workers, AddOwner(w)
  PROVE  /\ IInv'
         /\ \A b \in Boards, u \in Users : role'[b][u] # role[b][u] =>
              /\ role[b][u] = "none" /\ role'[b][u] = "owner"
              /\ req[w].board = b /\ req[w].op = "create" /\ req'[w] = Idle
<1> DEFINE b == req[w].board  a == req[w].actor
<1>1. /\ Founding(w) /\ role' = [role EXCEPT ![b][a] = "owner"]
      /\ req' = [req EXCEPT ![w] = Idle]
      /\ staffed' = staffed \cup {b}
      /\ UNCHANGED <<home, ownerId, deleted>>
  BY DEF AddOwner, Step, Founding
<1>2. /\ b \in Boards /\ home[b] # NoOrg /\ a \in Users /\ a = ownerId[b]
      /\ req[w].op = "create"
      /\ \A v \in Workers \ {w} : Founding(v) => req[v].board # b
  BY <1>1 DEF IInv, FoundersFit
<1>3. Unfounded(b) /\ \A u \in Users : role[b][u] = "none"
  BY <1>1, <1>2 DEF Unfounded, Founding, IInv, UnfoundedIsEmpty
<1> HIDE DEF b, a
<1>4. req' \in [Workers -> Requests] /\ req'[w] = Idle
      /\ \A v \in Workers \ {w} : req'[v] = req[v]
  BY <1>1, IdleIsRequest DEF IInv, TypeOK
<1>5. /\ role' \in [Boards -> [Users -> Roles]] /\ role'[b][a] = "owner"
      /\ \A u \in Users \ {a} : role'[b][u] = role[b][u]
      /\ \A c \in Boards \ {b} : role'[c] = role[c]
  BY <1>1, <1>2 DEF IInv, TypeOK, Roles
<1>6. \A c \in Boards : Unfounded(c)' => Unfounded(c) /\ c # b
  BY <1>1, <1>2, <1>4, IdleIsRequest DEF Unfounded, Founding
<1>7. TypeOK'
  BY <1>1, <1>4, <1>5 DEF IInv, TypeOK
<1>8. UnfoundedIsEmpty' /\ StaffedAreFounded'
  BY <1>1, <1>2, <1>5, <1>6 DEF IInv, TypeOK, UnfoundedIsEmpty, StaffedAreFounded
<1>9. FoundersFit'
  BY <1>1, <1>4, IdleIsRequest DEF IInv, FoundersFit, Founding
<1>10. InFlight'
  <2> SUFFICES ASSUME NEW v \in Workers PROVE Fits(req[v])'
    BY DEF InFlight
  <2>1. CASE v = w
    BY <1>4, <2>1, IdleIsRequest DEF Fits
  <2>2. CASE v # w
    <3>1. req'[v] = req[v] /\ Fits(req[v])
      BY <1>4, <2>2 DEF IInv, InFlight
    <3>2. req[v].pc = "write" => req[v].board \in Boards /\ req[v].board # b
      BY <1>3, <3>1 DEF Fits
    <3>3. req[v].pc = "write" => role'[req[v].board] = role[req[v].board]
      BY <1>5, <3>2
    <3> QED
      BY <1>6, <3>1, <3>2, <3>3 DEF Fits, SparesOwner
  <2> QED
    BY <2>1, <2>2
<1>11. NoSecondOwner'
  <2> SUFFICES ASSUME NEW c \in Boards, NEW u \in Users, role'[c][u] = "owner"
               PROVE  u = ownerId[c]
    BY <1>1 DEF NoSecondOwner
  <2> QED
    BY <1>2, <1>3, <1>5 DEF IInv, NoSecondOwner
<1>12. ASSUME NEW c \in Boards, NEW u \in Users, role'[c][u] # role[c][u]
       PROVE  /\ role[c][u] = "none" /\ role'[c][u] = "owner"
              /\ req[w].board = c /\ req[w].op = "create" /\ req'[w] = Idle
  <2>1. c = b /\ u = a
    BY <1>5, <1>12
  <2> QED
    BY <1>2, <1>3, <1>4, <1>5, <2>1 DEF b
<1> QED
  BY <1>7, <1>8, <1>9, <1>10, <1>11, <1>12 DEF IInv

\* What Written leaves, by operation.
LEMMA WrittenEffect ==
  ASSUME NEW op \in Ops \ {"create", "delete"}, NEW k \in Ranks, NEW old \in Roles
  PROVE  LET new == Written(op, k, old)
         IN  /\ new \in Roles /\ (new = "owner" => old = "owner")
             /\ old = "none" /\ new # "none" => op = "join"
             /\ op = "join" /\ old # "none" => new = old
BY DEF Written, Ops, Ranks, Roles

LEMMA StepWriteMember ==
  ASSUME IInv, NEW w \in Workers, WriteMember(w)
  PROVE  /\ IInv'
         /\ \A b \in Boards, u \in Users : role'[b][u] # role[b][u] =>
              /\ req[w].pc = "write" /\ req[w].board = b /\ req'[w] = Idle
              /\ role[b][u] = "owner" =>
                    req[w].op = "workspaceSetRole" /\ req[w].actor # u
              /\ role[b][u] = "none" => req[w].op = "join"
<1> DEFINE b == req[w].board  t == req[w].target  op == req[w].op
           new == Written(op, req[w].rank, role[b][t])
<1>1. /\ req[w].pc = "write" /\ op # "delete"
      /\ role' = [role EXCEPT ![b][t] = new]
      /\ req' = [req EXCEPT ![w] = Idle]
      /\ UNCHANGED <<home, ownerId, deleted, staffed>>
  BY DEF WriteMember, Step
<1>2. /\ req[w] \in Requests /\ b \in Boards /\ t \in Users /\ op # "create"
      /\ ~Unfounded(b)
      /\ SparesOwner(req[w]) => role[b][t] # "owner"
  BY <1>1 DEF IInv, TypeOK, InFlight, Fits
<1>3. op \in Ops \ {"create", "delete"} /\ req[w].rank \in Ranks /\ role[b][t] \in Roles
  BY <1>1, <1>2 DEF Requests, IInv, TypeOK
<1>4. /\ new \in Roles /\ (new = "owner" => role[b][t] = "owner")
      /\ role[b][t] = "none" /\ new # "none" => op = "join"
      /\ op = "join" /\ role[b][t] # "none" => new = role[b][t]
  <2> HIDE DEF b, t, op
  <2> QED
    BY <1>3, WrittenEffect
<1>5. ASSUME role[b][t] = "owner", new # role[b][t]
      PROVE  op = "workspaceSetRole" /\ req[w].actor # t
  BY <1>2, <1>3, <1>4, <1>5 DEF SparesOwner, Ops
<1> HIDE DEF b, t, op, new
<1>6. req' \in [Workers -> Requests] /\ req'[w] = Idle
      /\ \A v \in Workers \ {w} : req'[v] = req[v]
  BY <1>1, IdleIsRequest DEF IInv, TypeOK
<1>7. /\ role' \in [Boards -> [Users -> Roles]] /\ role'[b][t] = new
      /\ \A u \in Users \ {t} : role'[b][u] = role[b][u]
      /\ \A c \in Boards \ {b} : role'[c] = role[c]
  BY <1>1, <1>2, <1>4 DEF IInv, TypeOK
<1>8. \A c \in Boards : Unfounded(c)' => Unfounded(c) /\ c # b
  BY <1>1, <1>2, <1>6, IdleIsRequest DEF Unfounded
<1>9. TypeOK'
  BY <1>1, <1>6, <1>7 DEF IInv, TypeOK
<1>10. UnfoundedIsEmpty' /\ StaffedAreFounded'
  BY <1>1, <1>7, <1>8 DEF IInv, TypeOK, UnfoundedIsEmpty, StaffedAreFounded
<1>11. FoundersFit'
  BY <1>1, <1>6, IdleIsRequest DEF IInv, FoundersFit, Founding
<1>12. \A c \in Boards, u \in Users : role'[c][u] = "owner" => role[c][u] = "owner"
  BY <1>4, <1>7
<1>13. InFlight'
  <2> SUFFICES ASSUME NEW v \in Workers PROVE Fits(req[v])'
    BY DEF InFlight
  <2>1. CASE v = w
    BY <1>6, <2>1, IdleIsRequest DEF Fits
  <2>2. CASE v # w
    <3>1. req'[v] = req[v] /\ Fits(req[v])
      BY <1>6, <2>2 DEF IInv, InFlight
    <3> QED
      BY <1>8, <1>12, <3>1 DEF Fits, SparesOwner
  <2> QED
    BY <2>1, <2>2
<1>14. NoSecondOwner'
  BY <1>1, <1>12 DEF IInv, NoSecondOwner
<1>15. ASSUME NEW c \in Boards, NEW u \in Users, role'[c][u] # role[c][u]
       PROVE  /\ req[w].pc = "write" /\ req[w].board = c /\ req'[w] = Idle
              /\ role[c][u] = "owner" =>
                    req[w].op = "workspaceSetRole" /\ req[w].actor # u
              /\ role[c][u] = "none" => req[w].op = "join"
  <2>1. c = b /\ u = t /\ new # role[b][t]
    BY <1>7, <1>15
  <2> QED
    BY <1>1, <1>4, <1>5, <1>6, <2>1 DEF b, op
<1> QED
  BY <1>9, <1>10, <1>11, <1>13, <1>14, <1>15 DEF IInv

-----------------------------------------------------------------------------
LEMMA RolesKept ==
  ASSUME NEW w \in Workers, Start(w) \/ Continue(w), ~AddOwner(w), ~WriteMember(w)
  PROVE  role' = role
BY DEF Start, Continue, Create, ReadActor, Join, StartWorkspaceSetRole,
       InsertBoard, FindBoard, FindTarget, SoftDelete, Fails

THEOREM Inductive == IInv /\ [Next]_vars => IInv'
<1> SUFFICES ASSUME IInv, [Next]_vars PROVE IInv'
  OBVIOUS
<1>1. CASE UNCHANGED vars
  BY <1>1 DEF vars, IInv, TypeOK, UnfoundedIsEmpty, Unfounded, StaffedAreFounded,
              FoundersFit, Founding, InFlight, Fits, SparesOwner, NoSecondOwner
<1>2. CASE Next
  BY <1>2, StepStart, StepInsertBoard, StepAddOwner, StepFind, StepWriteMember,
     StepSoftDeleteOrFails DEF Next, Continue
<1> QED
  BY <1>1, <1>2

THEOREM Invariant == Spec => []IInv
  BY Initial, Inductive, PTL DEF Spec

\* The tables and requests of boards keep their types.
THEOREM TypeCorrect == Spec => []TypeOK
<1>1. IInv => TypeOK
  BY DEF IInv
<1> QED
  BY Invariant, <1>1, PTL

\* Nobody but the creator of a board is ever its owner, for any number of
\* requests on any number of boards.
THEOREM OneOwnerEach == Spec => []NoSecondOwner
<1>1. IInv => NoSecondOwner
  BY DEF IInv
<1> QED
  BY Invariant, <1>1, PTL

\* An owner is demoted only by somebody else and through the workspace route.
THEOREM DemotionByOthers == Spec => OwnersDemotedByOthers
<1> DEFINE A == \A b \in Boards, u \in Users :
                  role[b][u] = "owner" /\ role'[b][u] # "owner" =>
                      \E w \in Workers :
                          /\ req[w].pc = "write" /\ req'[w] = Idle
                          /\ req[w].op = "workspaceSetRole"
                          /\ req[w].board = b /\ req[w].actor # u
<1>1. IInv /\ [Next]_vars => A
  <2> SUFFICES ASSUME IInv, [Next]_vars, NEW b \in Boards, NEW u \in Users,
                      role[b][u] = "owner", role'[b][u] # "owner"
               PROVE  \E w \in Workers :
                          /\ req[w].pc = "write" /\ req'[w] = Idle
                          /\ req[w].op = "workspaceSetRole"
                          /\ req[w].board = b /\ req[w].actor # u
    OBVIOUS
  <2>1. PICK w \in Workers : Start(w) \/ Continue(w)
    BY DEF Next, vars
  <2>2. WriteMember(w)
    BY <2>1, RolesKept, StepAddOwner
  <2> QED
    BY <2>2, StepWriteMember
<1>2. IInv /\ [Next]_vars => [A]_vars
  BY <1>1
<1> QED
  BY Invariant, <1>2, PTL DEF Spec, OwnersDemotedByOthers

\* A membership that is gone comes back only by a creation or an invitation.
THEOREM RemovalLasts == Spec => RemovedStaysOut
<1> DEFINE A == \A b \in Boards, u \in Users :
                  role[b][u] = "none" /\ role'[b][u] # "none" =>
                      \E w \in Workers :
                          /\ req[w].board = b /\ req[w].op \in {"create", "join"}
                          /\ req'[w] = Idle
<1>1. IInv /\ [Next]_vars => A
  <2> SUFFICES ASSUME IInv, [Next]_vars, NEW b \in Boards, NEW u \in Users,
                      role[b][u] = "none", role'[b][u] # "none"
               PROVE  \E w \in Workers :
                          /\ req[w].board = b /\ req[w].op \in {"create", "join"}
                          /\ req'[w] = Idle
    OBVIOUS
  <2>1. PICK w \in Workers : Start(w) \/ Continue(w)
    BY DEF Next, vars
  <2>2. CASE AddOwner(w)
    BY <2>2, StepAddOwner
  <2>3. CASE WriteMember(w)
    BY <2>3, StepWriteMember
  <2> QED
    BY <2>1, <2>2, <2>3, RolesKept
<1>2. IInv /\ [Next]_vars => [A]_vars
  BY <1>1
<1> QED
  BY Invariant, <1>2, PTL DEF Spec, RemovedStaysOut

\* What the requests that found no board do: r is what becomes of w's.
Moves(w) ==
    /\ UNCHANGED <<home, ownerId, role>> /\ req[w].pc # "addOwner"
    /\ \E r : r.pc # "addOwner" /\ req' = [req EXCEPT ![w] = r]

LEMMA StartMoves ==
  ASSUME NEW w \in Workers, Start(w)
  PROVE  Moves(w)
<1>1. ASSUME NEW o, NEW u, Create(w, o, u)
      PROVE  Moves(w)
  <2> DEFINE r == [Idle EXCEPT !.pc = "insertBoard", !.org = o, !.actor = u]
  <2>1. r.pc # "addOwner"
    BY DEF Idle
  <2> HIDE DEF r
  <2>2. req' = [req EXCEPT ![w] = r]
    BY <1>1 DEF Create, Take, r
  <2> QED
    BY <1>1, <2>1, <2>2 DEF Create, Take, Moves
<1>2. ASSUME NEW op, NEW b, NEW u, NEW t, NEW k, ReadActor(w, op, b, u, t, k)
      PROVE  Moves(w)
  <2> DEFINE mine == IF op \in {"leave", "delete"} THEN "none" ELSE role[b][u]
             pc == IF op \in {"leave", "delete"} THEN "write" ELSE "findTarget"
             r == [Idle EXCEPT !.op = op, !.board = b, !.actor = u, !.target = t,
                               !.rank = k, !.mine = mine, !.pc = pc]
  <2>1. pc # "addOwner"
    OBVIOUS
  <2> HIDE DEF mine, pc
  <2>2. r.pc # "addOwner"
    BY <2>1 DEF Idle
  <2> USE DEF mine, pc
  <2> HIDE DEF r
  <2>3. req' = [req EXCEPT ![w] = r]
    BY <1>2 DEF ReadActor, Take, r
  <2> QED
    BY <1>2, <2>2, <2>3 DEF ReadActor, Take, Moves
<1>3. ASSUME NEW b, NEW u, NEW k, Join(w, b, u, k)
      PROVE  Moves(w)
  <2> DEFINE r == [Idle EXCEPT !.pc = "write", !.op = "join", !.board = b,
                               !.actor = u, !.target = u, !.rank = k]
  <2>1. r.pc # "addOwner"
    BY DEF Idle
  <2> HIDE DEF r
  <2>2. req' = [req EXCEPT ![w] = r]
    BY <1>3 DEF Join, Take, r
  <2> QED
    BY <1>3, <2>1, <2>2 DEF Join, Take, Moves
<1>4. ASSUME NEW o, NEW b, NEW u, NEW t, NEW k, StartWorkspaceSetRole(w, o, b, u, t, k)
      PROVE  Moves(w)
  <2> DEFINE r == [pc |-> "findBoard", op |-> "workspaceSetRole", org |-> o,
                   board |-> b, actor |-> u, target |-> t, rank |-> k, mine |-> "none"]
  <2>1. r.pc # "addOwner"
    OBVIOUS
  <2> HIDE DEF r
  <2>2. req' = [req EXCEPT ![w] = r]
    BY <1>4 DEF StartWorkspaceSetRole, Take, r
  <2> QED
    BY <1>4, <2>1, <2>2 DEF StartWorkspaceSetRole, Take, Moves
<1> QED
  BY <1>1, <1>2, <1>3, <1>4 DEF Start

LEMMA ContinueMoves ==
  ASSUME TypeOK, NEW w \in Workers, FindBoard(w) \/ FindTarget(w) \/ SoftDelete(w)
  PROVE  Moves(w)
<1>1. PICK to \in {"findTarget", "write", "idle"} : Step(w, to)
  BY DEF FindBoard, FindTarget, SoftDelete
<1> DEFINE r == IF to = "idle" THEN Idle
                ELSE [req[w] EXCEPT !.pc = to, !.mine = "none"]
<1>2. r.pc # "addOwner"
  BY IdleIsRequest DEF TypeOK, Requests
<1> HIDE DEF r
<1>3. req' = [req EXCEPT ![w] = r]
  BY <1>1 DEF Step, r
<1> QED
  BY <1>2, <1>3 DEF FindBoard, FindTarget, SoftDelete, Moves

\* Every request but a creation leaves the stages of the boards.
LEMMA StagesKept ==
  ASSUME IInv, NEW w \in Workers, req[w].pc # "addOwner",
         NEW r, r.pc # "addOwner", req' = [req EXCEPT ![w] = r], UNCHANGED home
  PROVE  [b \in Boards |-> Stage(b)]' = [b \in Boards |-> Stage(b)]
<1>1. req'[w] = r /\ \A v \in Workers \ {w} : req'[v] = req[v]
  BY DEF IInv, TypeOK
<1>2. \A b \in Boards : Stage(b)' = Stage(b)
  BY <1>1 DEF Stage
<1> QED
  BY <1>2

\* The end of a creation opens the board.
LEMMA StageOpens ==
  ASSUME IInv, NEW w \in Workers, NEW b \in Boards, Founding(w),
         req[w].board = b, req' = [req EXCEPT ![w] = Idle], UNCHANGED home
  PROVE  LET stage == [c \in Boards |-> Stage(c)]
         IN  /\ stage[b] = "founded"
             /\ stage' = [stage EXCEPT ![b] = "open"]
<1> DEFINE stage == [c \in Boards |-> Stage(c)]
<1>1. /\ home[b] # NoOrg /\ Stage(b) = "founded"
      /\ \A v \in Workers \ {w} : Founding(v) => req[v].board # b
  BY DEF IInv, FoundersFit, Founding, Stage
<1>2. req'[w] = Idle /\ \A v \in Workers \ {w} : req'[v] = req[v]
  BY DEF IInv, TypeOK
<1>3. Stage(b)' = "open"
  <2>1. ~\E v \in Workers : req'[v].pc = "addOwner" /\ req'[v].board = b
    BY <1>1, <1>2, IdleIsRequest DEF Founding
  <2> QED
    BY <1>1, <2>1 DEF Stage
<1>4. \A c \in Boards : c # b => Stage(c)' = Stage(c)
  BY <1>2, IdleIsRequest DEF Stage, Founding
<1> QED
  BY <1>1, <1>3, <1>4

\* The requests of board_service.go, with the role change of
\* organization_service.go, implement the abstract roster of a board.
THEOREM ImplementsBoardRoster == Spec => KeepsItsFounder
<1> DEFINE stage == [b \in Boards |-> Stage(b)]
<1>1. Init => B!BoardRosterInit
  BY DEF Init, B!BoardRosterInit, Stage
<1>2. IInv /\ [Next]_vars => [B!BoardRosterNext]_<<ownerId, stage, role>>
  <2> SUFFICES ASSUME IInv, [Next]_vars
               PROVE  B!BoardRosterNext \/ UNCHANGED <<ownerId, stage, role>>
    OBVIOUS
  <2>1. CASE UNCHANGED vars
    <3>1. \A b \in Boards : Stage(b)' = Stage(b)
      BY <2>1 DEF vars, Stage
    <3> QED
      BY <2>1, <3>1 DEF vars
  <2>2. ASSUME NEW w \in Workers, NEW b \in Boards, InsertBoard(w, b)
        PROVE  B!BoardRosterNext
    <3> DEFINE r == [req[w] EXCEPT !.pc = "addOwner", !.board = b]
    <3>1. /\ home[b] = NoOrg /\ home' = [home EXCEPT ![b] = req[w].org]
          /\ ownerId' = [ownerId EXCEPT ![b] = req[w].actor]
          /\ req[w].pc = "insertBoard" /\ req' = [req EXCEPT ![w] = r]
          /\ UNCHANGED role
      BY <2>2 DEF InsertBoard
    <3>2. req[w].org \in Orgs /\ req[w].actor \in Users /\ req[w] \in Requests
      BY <3>1 DEF IInv, TypeOK, InFlight, Fits
    <3>3. r.pc = "addOwner" /\ r.board = b
      BY <3>2 DEF Requests
    <3> HIDE DEF r
    <3>4. /\ req'[w] = r /\ \A v \in Workers \ {w} : req'[v] = req[v]
          /\ home'[b] # NoOrg /\ \A c \in Boards \ {b} : home'[c] = home[c]
      BY <3>1, <3>2 DEF IInv, TypeOK
    <3>5. Stage(b) = "none" /\ Stage(b)' = "founded"
      BY <3>1, <3>3, <3>4 DEF Stage
    <3>6. \A c \in Boards : c # b => Stage(c)' = Stage(c)
      BY <3>1, <3>3, <3>4 DEF Stage
    <3>7. stage' = [stage EXCEPT ![b] = "founded"] /\ stage[b] = "none"
      BY <3>5, <3>6
    <3> HIDE DEF stage
    <3>8. B!Found(b, req[w].actor)
      BY <3>1, <3>7 DEF B!Found, stage
    <3> QED
      BY <3>2, <3>8 DEF B!BoardRosterNext
  <2>3. ASSUME NEW w \in Workers, AddOwner(w)
        PROVE  B!BoardRosterNext
    <3>0. Founding(w) /\ req[w].board \in Boards
      BY <2>3 DEF AddOwner, Founding, IInv, FoundersFit
    <3> PICK b \in Boards : b = req[w].board
      BY <3>0
    <3>1. /\ Founding(w) /\ req' = [req EXCEPT ![w] = Idle]
          /\ role' = [role EXCEPT ![b][req[w].actor] = "owner"]
          /\ UNCHANGED <<home, ownerId>>
      BY <2>3 DEF AddOwner, Step, Founding
    <3>2. b \in Boards /\ req[w].actor = ownerId[b]
      BY <3>1 DEF IInv, FoundersFit
    <3>3. role[b] = [u \in Users |-> "none"]
      <4>1. \A u \in Users : role[b][u] = "none"
        BY <3>1, <3>2 DEF Founding, Unfounded, IInv, UnfoundedIsEmpty
      <4> QED
        BY <3>2, <4>1 DEF IInv, TypeOK
    <3>4. stage[b] = "founded" /\ stage' = [stage EXCEPT ![b] = "open"]
      BY <3>1, StageOpens
    <3> HIDE DEF stage
    <3>5. B!Seat(b)
      BY <3>1, <3>2, <3>3, <3>4 DEF B!Seat, stage
    <3> QED
      BY <3>2, <3>5 DEF B!BoardRosterNext
  <2>4. ASSUME NEW w \in Workers, Fails(w)
        PROVE  B!BoardRosterNext \/ UNCHANGED <<ownerId, stage, role>>
    <3>1. req' = [req EXCEPT ![w] = Idle] /\ UNCHANGED <<home, ownerId, role>>
      BY <2>4 DEF Fails, Step
    <3>2. CASE Founding(w)
      <4>0. req[w].board \in Boards
        BY <3>2 DEF IInv, FoundersFit
      <4> PICK b \in Boards : b = req[w].board
        BY <4>0
      <4>1. /\ b \in Boards /\ stage[b] = "founded"
            /\ stage' = [stage EXCEPT ![b] = "open"]
        BY <3>1, <3>2, StageOpens
      <4> HIDE DEF stage
      <4>2. B!Abandon(b)
        BY <3>1, <4>1 DEF B!Abandon, stage
      <4> QED
        BY <4>1, <4>2 DEF B!BoardRosterNext
    <3>3. CASE ~Founding(w)
      BY <3>1, <3>3, StagesKept, IdleIsRequest DEF Founding
    <3> QED
      BY <3>2, <3>3
  <2>5. ASSUME NEW w \in Workers, WriteMember(w)
        PROVE  B!BoardRosterNext \/ UNCHANGED <<ownerId, stage, role>>
    <3>0. req[w].board \in Boards /\ req[w].target \in Users
      BY <2>5 DEF WriteMember, IInv, TypeOK, InFlight, Fits
    <3> PICK b \in Boards, t \in Users : b = req[w].board /\ t = req[w].target
      BY <3>0
    <3> DEFINE new == Written(req[w].op, req[w].rank, role[b][t])
    <3>1. /\ req[w].pc = "write" /\ req[w].op # "delete"
          /\ role' = [role EXCEPT ![b][t] = new]
          /\ req' = [req EXCEPT ![w] = Idle]
          /\ UNCHANGED <<home, ownerId>>
      BY <2>5 DEF WriteMember, Step
    <3>2. /\ b \in Boards /\ t \in Users /\ ~Unfounded(b) /\ req[w] \in Requests
          /\ req[w].op # "create" /\ role[b][t] \in Roles
          /\ SparesOwner(req[w]) => role[b][t] # "owner"
      BY <3>1 DEF IInv, TypeOK, InFlight, Fits
    <3>3. stage[b] = "open"
      BY <3>2 DEF Unfounded, Stage
    <3>4. stage' = stage
      BY <3>1, StagesKept, IdleIsRequest
    <3>5. req[w].op \in Ops \ {"create", "delete"} /\ req[w].rank \in Ranks
      BY <3>1, <3>2 DEF Requests
    <3>6. new \in Ranks \cup {"none", "owner"} /\ (new = "owner" => role[b][t] = "owner")
      BY <3>2, <3>5 DEF Written, Ops, Ranks, Roles
    <3>7. CASE role[b][t] = "owner"
      <4>1. t = ownerId[b]
        BY <3>2, <3>7 DEF IInv, NoSecondOwner
      <4>2. req[w].op \in {"join", "workspaceSetRole"}
        BY <3>2, <3>5, <3>7 DEF SparesOwner, Ops
      <4>3. \/ req[w].op = "join" /\ new = "owner"
            \/ req[w].op = "workspaceSetRole" /\ new \in Ranks
        BY <3>5, <3>7, <4>2 DEF Written
      <4> HIDE DEF stage, new
      <4>4. CASE new = "owner"
        BY <3>1, <3>2, <3>4, <3>7, <4>4 DEF IInv, TypeOK
      <4>5. CASE new \in Ranks
        <5>1. B!Demote(b, new)
          BY <3>1, <3>3, <3>4, <3>7, <4>1 DEF B!Demote, stage
        <5> QED
          BY <3>2, <4>5, <5>1 DEF B!BoardRosterNext
      <4> QED
        BY <4>3, <4>4, <4>5
    <3>8. CASE role[b][t] # "owner"
      <4>1. new \in Ranks \cup {"none"}
        BY <3>6, <3>8
      <4> HIDE DEF stage, new
      <4>2. B!Assign(b, t, new)
        BY <3>1, <3>3, <3>4, <3>8 DEF B!Assign, stage
      <4> QED
        BY <3>2, <4>1, <4>2 DEF B!BoardRosterNext
    <3> QED
      BY <3>7, <3>8
  <2>6. ASSUME NEW w \in Workers, Start(w) \/ FindBoard(w) \/ FindTarget(w) \/ SoftDelete(w)
        PROVE  UNCHANGED <<ownerId, stage, role>>
    <3>1. Moves(w)
      BY <2>6, StartMoves, ContinueMoves DEF IInv
    <3> QED
      BY <3>1, StagesKept DEF Moves
  <2> QED
    BY <2>1, <2>2, <2>3, <2>4, <2>5, <2>6 DEF Next, Continue
<1> QED
  BY <1>1, <1>2, Invariant, PTL DEF Spec, KeepsItsFounder, B!BoardRosterSpec

-----------------------------------------------------------------------------
(***************************************************************************)
(* Invitations, for any workers, users and number of invitations.  What an *)
(* acceptance has looked up stays true because an invitation keeps its     *)
(* address once it is there, and whoever was admitted stays in the         *)
(* history; what it has done before it marks the invitation is what        *)
(* AcceptedWasAdmitted asks for.                                           *)
(***************************************************************************)
CONSTANTS Owner, MaxInvs
VARIABLES status, email, rank, past, members, staff, accounts, admitted, answers

I == INSTANCE Invitations WITH role <- members, req <- answers

Accepting == {"findMember", "findUser", "createUser", "addMember", "findOrg",
              "addOrg", "markAccepted"}
Admitting == {"findOrg", "addOrg", "markAccepted"}
Inviting == {"checkInvitee", "findPending", "deleteOld", "createInv"}
Marking == {"deleteOld", "markExpired", "markDeclined"}

\* What is known of a request, given the invitations s and their addresses e,
\* and who was admitted, a.
AnswerFits(r, s, e, a) ==
    /\ r.pc \in Inviting => r.actor \in Users
    /\ r.pc \in Marking \cup Accepting => r.inv \in I!Invs /\ s[r.inv] # "none"
    /\ r.pc \in Accepting => r.actor = e[r.inv]
    /\ r.pc \in Admitting => r.actor \in a

AnswersFit == \A w \in Workers : AnswerFits(answers[w], status, email, admitted)

OffersFit == \A i \in I!Invs : status[i] # "none" => email[i] \in Users
MembersAdmitted == \A u \in Users : members[u] # "none" => u \in admitted

OInv ==
    /\ I!TypeOK /\ OffersFit /\ MembersAdmitted /\ AnswersFit
    /\ I!AcceptedWasAdmitted

\* What every step keeps of what requests rely on.
OffersKept ==
    /\ \A i \in I!Invs : status[i] # "none" => status'[i] # "none" /\ email'[i] = email[i]
    /\ admitted \subseteq admitted'

LEMMA AnswerFitsKept ==
  ASSUME OffersKept, NEW r, AnswerFits(r, status, email, admitted)
  PROVE  AnswerFits(r, status', email', admitted')
BY DEF OffersKept, AnswerFits, Marking, Accepting

LEMMA AnswersKept ==
  ASSUME OInv, OffersKept, answers' = answers
  PROVE  AnswersFit'
<1>1. \A w \in Workers : AnswerFits(answers[w], status', email', admitted')
  BY AnswerFitsKept DEF OInv, AnswersFit
<1> QED
  BY <1>1 DEF AnswersFit

\* A request becomes r.
LEMMA AnswerMoves ==
  ASSUME OInv, OffersKept, NEW w \in Workers, NEW r \in I!Requests,
         answers' = [answers EXCEPT ![w] = r],
         AnswerFits(r, status', email', admitted')
  PROVE  answers' \in [Workers -> I!Requests] /\ AnswersFit'
<1>1. answers' \in [Workers -> I!Requests] /\ answers'[w] = r
      /\ \A v \in Workers \ {w} : answers'[v] = answers[v]
  BY DEF OInv, I!TypeOK
<1>2. \A v \in Workers : AnswerFits(answers'[v], status', email', admitted')
  BY <1>1, AnswerFitsKept DEF OInv, AnswersFit
<1> QED
  BY <1>1, <1>2 DEF AnswersFit

\* ... while the tables stay.
LEMMA AnswerMovesOn ==
  ASSUME OInv, NEW w \in Workers, NEW r \in I!Requests,
         answers' = [answers EXCEPT ![w] = r],
         UNCHANGED <<I!table, I!people>>,
         AnswerFits(r, status, email, admitted)
  PROVE  OInv'
<1>1. UNCHANGED <<status, email, rank, past, members, staff, accounts, admitted>>
  BY DEF I!table, I!people
<1>2. OffersKept
  BY <1>1 DEF OffersKept
<1>3. answers' \in [Workers -> I!Requests] /\ AnswersFit'
  BY <1>1, <1>2, AnswerMoves
<1> QED
  BY <1>1, <1>3 DEF OInv, I!TypeOK, OffersFit, MembersAdmitted, I!AcceptedWasAdmitted

\* Step as a request that follows.
LEMMA StepIs ==
  ASSUME OInv, NEW w \in Workers, NEW from, NEW to \in I!Steps, I!Step(w, from, to)
  PROVE  \E r \in I!Requests :
           /\ answers[w] \in I!Requests /\ answers[w].pc = from
           /\ AnswerFits(answers[w], status, email, admitted)
           /\ answers' = [answers EXCEPT ![w] = r] /\ r.pc = to
           /\ to # "idle" => r.inv = answers[w].inv /\ r.actor = answers[w].actor
<1>1. answers[w] \in I!Requests /\ AnswerFits(answers[w], status, email, admitted)
  BY DEF OInv, I!TypeOK, AnswersFit
<1>2. CASE to = "idle"
  <2>1. I!Idle \in I!Requests /\ I!Idle.pc = "idle"
    BY DEF I!Idle, I!Requests, I!Steps, I!Ranks
  <2> QED
    BY <1>1, <1>2, <2>1 DEF I!Step
<1>3. CASE to # "idle"
  <2> DEFINE r == [answers[w] EXCEPT !.pc = to]
  <2>1. r \in I!Requests /\ r.pc = to /\ r.inv = answers[w].inv
        /\ r.actor = answers[w].actor
    BY <1>1 DEF I!Requests
  <2>2. answers[w].pc = from /\ answers' = [answers EXCEPT ![w] = r]
    BY <1>3 DEF I!Step
  <2> HIDE DEF r
  <2> QED
    BY <1>1, <2>1, <2>2
<1> QED
  BY <1>2, <1>3

LEMMA OffersInitial ==
  ASSUME Owner \in Users, I!Init
  PROVE  OInv
<1>1. I!Idle \in I!Requests /\ I!Idle.pc = "idle"
  BY DEF I!Idle, I!Requests, I!Steps, I!Ranks
<1>2. I!TypeOK
  BY <1>1 DEF I!Init, I!TypeOK, I!Statuses, I!Ranks
<1>3. AnswersFit
  BY <1>1 DEF I!Init, AnswersFit, AnswerFits, Inviting, Marking, Accepting, Admitting
<1>4. OffersFit /\ MembersAdmitted /\ I!AcceptedWasAdmitted
  BY DEF I!Init, OffersFit, MembersAdmitted, I!AcceptedWasAdmitted
<1> QED
  BY <1>2, <1>3, <1>4 DEF OInv

\* A request that begins at pc on invitation i, by u.
LEMMA OfferStarts ==
  ASSUME OInv, NEW w \in Workers, NEW pc \in I!Steps, NEW i \in I!Invs \cup {I!NoInv},
         NEW u \in Users \cup {NoUser}, NEW k \in I!Ranks, I!Take(w, pc, i, u, k),
         UNCHANGED <<I!table, I!people>>,
         pc \in Inviting => u \in Users,
         pc \in Marking \cup Accepting => i \in I!Invs /\ status[i] # "none",
         pc \in Accepting => u = email[i], pc \notin Admitting
  PROVE  OInv'
<1> DEFINE r == [pc |-> pc, inv |-> i, actor |-> u, rank |-> k]
<1>1. r \in I!Requests
  BY DEF I!Requests
<1>2. AnswerFits(r, status, email, admitted)
  BY DEF AnswerFits
<1>3. answers' = [answers EXCEPT ![w] = r]
  BY DEF I!Take
<1> HIDE DEF r
<1> QED
  BY <1>1, <1>2, <1>3, AnswerMovesOn

LEMMA OffersStart ==
  ASSUME OInv, NEW w \in Workers, I!Start(w)
  PROVE  OInv'
<1> USE DEF Inviting, Marking, Accepting, Admitting
<1>0. /\ \A i \in I!Invs : rank[i] \in I!Ranks /\ email[i] \in Users \cup {NoUser}
      /\ "member" \in I!Ranks
      /\ {"checkInvitee", "listPending", "markExpired", "findMember", "findUser",
          "markDeclined"} \subseteq I!Steps
  BY DEF OInv, I!TypeOK, I!Ranks, I!Steps
<1>1. ASSUME NEW by \in Users, NEW u \in Users, NEW k \in I!Ranks, I!Invite(w, by, u, k)
      PROVE  OInv'
  BY <1>0, <1>1, OfferStarts DEF I!Invite
<1>2. ASSUME NEW i \in I!Invs, I!GetByToken(w, i)
      PROVE  OInv'
  BY <1>0, <1>2, OfferStarts DEF I!GetByToken, I!Pending
<1>3. ASSUME NEW i \in I!Invs, NEW u \in Users, I!Decline(w, i, u)
      PROVE  OInv'
  BY <1>0, <1>3, OfferStarts DEF I!Decline, I!Pending
<1>4. ASSUME NEW i \in I!Invs, NEW u \in Users, I!Revoke(w, u, i)
      PROVE  OInv'
  BY <1>0, <1>4, OfferStarts DEF I!Revoke
<1>5. ASSUME NEW i \in I!Invs, NEW u \in Users \cup {NoUser},
             NEW pc \in {"findMember", "findUser"}, I!Answer(w, i, u, pc)
      PROVE  OInv'
  <2>1. CASE I!Exists(i) /\ I!Take(w, "markExpired", i, u, rank[i])
    BY <1>0, <1>5, <2>1, OfferStarts DEF I!Answer, I!Exists
  <2>2. CASE I!Pending(i) /\ email[i] = u /\ I!Take(w, pc, i, u, rank[i])
    BY <1>0, <1>5, <2>2, OfferStarts DEF I!Answer, I!Pending
  <2> QED
    BY <1>5, <2>1, <2>2 DEF I!Answer
<1>6. ASSUME NEW i \in I!Invs, I!AcceptWithPassword(w, i)
      PROVE  OInv'
  BY <1>0, <1>5, <1>6 DEF I!AcceptWithPassword
<1>7. ASSUME NEW i \in I!Invs, NEW u \in Users, I!Accept(w, i, u)
      PROVE  OInv'
  BY <1>5, <1>7 DEF I!Accept
<1> QED
  BY <1>1, <1>2, <1>3, <1>4, <1>6, <1>7 DEF I!Start

\* Statements that only read, and failures.
LEMMA OffersRead ==
  ASSUME OInv, NEW w \in Workers,
         \/ I!CheckInvitee(w) \/ I!FindPending(w) \/ I!ListPending(w)
         \/ I!FindMember(w) \/ I!FindUser(w) \/ I!FindOrg(w) \/ I!Fails(w)
  PROVE  OInv'
<1>0. UNCHANGED <<I!table, I!people>>
  BY DEF I!CheckInvitee, I!FindPending, I!ListPending, I!FindMember, I!FindUser,
         I!FindOrg, I!Fails
<1>1. ASSUME NEW from, NEW to \in I!Steps, I!Step(w, from, to),
             to \in Inviting => from \in Inviting,
             to \notin Marking, to \in Accepting => from \in Accepting,
             to \in Admitting =>
                \/ from \in Admitting
                \/ from \in Accepting /\ members[answers[w].actor] # "none"
      PROVE  OInv'
  <2>1. PICK r \in I!Requests :
           /\ answers[w].pc = from /\ AnswerFits(answers[w], status, email, admitted)
           /\ answers' = [answers EXCEPT ![w] = r] /\ r.pc = to
           /\ to # "idle" => r.inv = answers[w].inv /\ r.actor = answers[w].actor
    BY <1>1, StepIs
  <2>2. to \in Inviting \cup Marking \cup Accepting => to # "idle"
    BY DEF Inviting, Marking, Accepting
  <2>3. Admitting \subseteq Accepting
    BY DEF Admitting, Accepting
  <2>4. from \in Accepting => answers[w].actor \in Users
    BY <2>1 DEF AnswerFits, OInv, OffersFit
  <2>5. r.pc \in Admitting => r.actor \in admitted
    BY <1>1, <2>1, <2>2, <2>3, <2>4 DEF AnswerFits, OInv, MembersAdmitted
  <2>6. AnswerFits(r, status, email, admitted)
    BY <1>1, <2>1, <2>2, <2>5 DEF AnswerFits
  <2> QED
    BY <1>0, <2>1, <2>6, AnswerMovesOn
<1> USE DEF Inviting, Marking, Accepting, Admitting, I!Steps
<1>2. CASE I!CheckInvitee(w)
  BY <1>1, <1>2 DEF I!CheckInvitee
<1>3. CASE I!FindPending(w)
  <2>1. CASE I!Step(w, "findPending", "createInv")
    BY <1>1, <2>1
  <2>2. ASSUME NEW i \in I!PendingOf(answers[w].actor), answers[w].pc = "findPending",
               answers' = [answers EXCEPT ![w] =
                             [answers[w] EXCEPT !.pc = "deleteOld", !.inv = i]]
        PROVE  OInv'
    <3> DEFINE r == [answers[w] EXCEPT !.pc = "deleteOld", !.inv = i]
    <3>1. i \in I!Invs /\ status[i] # "none"
      BY <2>2 DEF I!PendingOf, I!Pending
    <3>2. answers[w] \in I!Requests /\ answers[w].actor \in Users
      BY <2>2 DEF OInv, I!TypeOK, AnswersFit, AnswerFits
    <3>3. r \in I!Requests /\ r.pc = "deleteOld" /\ r.inv = i /\ r.actor \in Users
      BY <3>1, <3>2 DEF I!Requests
    <3>4. answers' = [answers EXCEPT ![w] = r]
      BY <2>2
    <3> HIDE DEF r
    <3>5. AnswerFits(r, status, email, admitted)
      BY <3>1, <3>3 DEF AnswerFits
    <3> QED
      BY <1>0, <3>3, <3>4, <3>5, AnswerMovesOn
  <2> QED
    BY <1>3, <2>1, <2>2 DEF I!FindPending
<1>4. CASE I!ListPending(w)
  BY <1>1, <1>4 DEF I!ListPending
<1>5. CASE I!FindMember(w)
  BY <1>1, <1>5 DEF I!FindMember
<1>6. CASE I!FindUser(w)
  BY <1>1, <1>6 DEF I!FindUser
<1>7. CASE I!FindOrg(w)
  <2>1. CASE I!Step(w, "findOrg", "addOrg")
    BY <1>1, <2>1
  <2>2. CASE I!Step(w, "findOrg", "markAccepted")
    BY <1>1, <2>2
  <2> QED
    BY <1>7, <2>1, <2>2 DEF I!FindOrg
<1>8. CASE I!Fails(w)
  BY <1>1, <1>8 DEF I!Fails
<1> QED
  BY <1>2, <1>3, <1>4, <1>5, <1>6, <1>7, <1>8

-----------------------------------------------------------------------------
\* A step of the acceptance that writes only what no request relies on.
LEMMA OffersCreateUserAddOrg ==
  ASSUME OInv, NEW w \in Workers, I!CreateUser(w) \/ I!AddOrg(w)
  PROVE  OInv'
<1>1. ASSUME NEW from \in Accepting, NEW to \in Accepting \cup {"idle"}, I!Step(w, from, to),
             to \in Admitting => from \in Admitting,
             UNCHANGED <<status, email, rank, past, members, admitted>>,
             accounts' \in {accounts, accounts \cup {answers[w].actor}},
             staff' \in {staff, staff \cup {answers[w].actor}}
      PROVE  OInv'
  <2>1. to \in I!Steps /\ to \notin Inviting /\ to \notin Marking
    BY DEF Accepting, Inviting, Marking, I!Steps
  <2>2. PICK r \in I!Requests :
           /\ answers[w].pc = from /\ AnswerFits(answers[w], status, email, admitted)
           /\ answers' = [answers EXCEPT ![w] = r] /\ r.pc = to
           /\ to # "idle" => r.inv = answers[w].inv /\ r.actor = answers[w].actor
    BY <1>1, <2>1, StepIs
  <2>3. AnswerFits(r, status, email, admitted)
    BY <1>1, <2>1, <2>2 DEF AnswerFits, Accepting, Admitting
  <2>4. answers' \in [Workers -> I!Requests] /\ AnswersFit'
    BY <1>1, <2>2, <2>3, AnswerMoves DEF OffersKept
  <2>5. answers[w].actor \in Users
    BY <2>2 DEF AnswerFits, OInv, OffersFit
  <2>6. I!TypeOK'
    BY <1>1, <2>4, <2>5 DEF OInv, I!TypeOK
  <2> QED
    BY <1>1, <2>4, <2>6 DEF OInv, OffersFit, MembersAdmitted, I!AcceptedWasAdmitted
<1>2. CASE I!CreateUser(w)
  <2>1. UNCHANGED <<status, email, rank, past, members, staff, admitted>>
    BY <1>2 DEF I!CreateUser, I!table
  <2>2. CASE I!Step(w, "createUser", "idle")
    BY <1>1, <1>2, <2>1, <2>2 DEF I!CreateUser, Accepting, Admitting
  <2>3. CASE I!Step(w, "createUser", "addMember")
    BY <1>1, <1>2, <2>1, <2>3 DEF I!CreateUser, Accepting, Admitting
  <2> QED
    BY <1>2, <2>2, <2>3 DEF I!CreateUser
<1>3. CASE I!AddOrg(w)
  <2>1. UNCHANGED <<status, email, rank, past, members, accounts, admitted>>
    BY <1>3 DEF I!AddOrg, I!table
  <2> QED
    BY <1>1, <1>3, <2>1 DEF I!AddOrg, Accepting, Admitting
<1> QED
  BY <1>2, <1>3

\* The member is added, and was admitted from then on; or it fails.
LEMMA OffersAddMember ==
  ASSUME OInv, NEW w \in Workers, I!AddMember(w)
  PROVE  OInv'
<1> DEFINE u == answers[w].actor
<1>0. "findOrg" \in I!Steps /\ "idle" \in I!Steps
  BY DEF I!Steps
<1>1. UNCHANGED <<status, email, rank, past, staff, accounts>>
  BY DEF I!AddMember, I!table
<1>2. CASE I!Step(w, "addMember", "findOrg") /\ members' = [members EXCEPT ![u] = answers[w].rank]
           /\ admitted' = admitted \cup {u}
  <2>1. PICK r \in I!Requests :
           /\ answers[w] \in I!Requests /\ answers[w].pc = "addMember"
           /\ AnswerFits(answers[w], status, email, admitted)
           /\ answers' = [answers EXCEPT ![w] = r] /\ r.pc = "findOrg"
           /\ r.inv = answers[w].inv /\ r.actor = answers[w].actor
    BY <1>0, <1>2, StepIs
  <2>2. /\ answers[w].inv \in I!Invs /\ status[answers[w].inv] # "none"
        /\ u = email[answers[w].inv] /\ u \in Users /\ answers[w].rank \in I!Ranks
    BY <2>1 DEF AnswerFits, Accepting, OInv, OffersFit, I!Requests
  <2>3. AnswerFits(r, status', email', admitted')
    BY <1>1, <1>2, <2>1, <2>2 DEF AnswerFits, Inviting, Marking
  <2>4. OffersKept
    BY <1>1, <1>2 DEF OffersKept
  <2>5. answers' \in [Workers -> I!Requests] /\ AnswersFit'
    BY <2>1, <2>3, <2>4, AnswerMoves
  <2> HIDE DEF u
  <2>6. members' \in [Users -> I!Ranks \cup {"owner", "none"}]
        /\ \A v \in Users \ {u} : members'[v] = members[v]
    BY <1>2, <2>2 DEF OInv, I!TypeOK
  <2>7. I!TypeOK'
    BY <1>1, <1>2, <2>2, <2>5, <2>6 DEF OInv, I!TypeOK
  <2>8. MembersAdmitted'
    BY <1>2, <2>6 DEF OInv, MembersAdmitted
  <2> QED
    BY <1>1, <1>2, <2>5, <2>7, <2>8 DEF OInv, OffersFit, I!AcceptedWasAdmitted
<1>3. CASE I!Step(w, "addMember", "idle") /\ UNCHANGED <<members, admitted>>
  <2>1. PICK r \in I!Requests : answers' = [answers EXCEPT ![w] = r] /\ r.pc = "idle"
    BY <1>0, <1>3, StepIs
  <2>2. AnswerFits(r, status, email, admitted)
    BY <2>1 DEF AnswerFits, Inviting, Marking, Accepting, Admitting
  <2>3. UNCHANGED <<I!table, I!people>>
    BY <1>1, <1>3 DEF I!table, I!people
  <2> QED
    BY <2>1, <2>2, <2>3, AnswerMovesOn
<1> QED
  BY <1>2, <1>3 DEF I!AddMember

\* The statements on board_invitations.
LEMMA OffersCreateInv ==
  ASSUME OInv, NEW w \in Workers, I!CreateInv(w)
  PROVE  OInv'
<1>1. UNCHANGED <<past, members, staff, accounts, admitted>> /\ "idle" \in I!Steps
  BY DEF I!CreateInv, I!people, I!Steps
<1>2. PICK i \in I!Invs :
         /\ status[i] = "none"
         /\ status' = [status EXCEPT ![i] = "pending"]
         /\ email' = [email EXCEPT ![i] = answers[w].actor]
         /\ rank' = [rank EXCEPT ![i] = answers[w].rank]
  BY DEF I!CreateInv
<1>3. PICK r \in I!Requests :
         /\ answers[w] \in I!Requests /\ answers[w].pc = "createInv"
         /\ AnswerFits(answers[w], status, email, admitted)
         /\ answers' = [answers EXCEPT ![w] = r] /\ r.pc = "idle"
  BY <1>1, StepIs DEF I!CreateInv
<1>4. answers[w].actor \in Users /\ answers[w].rank \in I!Ranks
  BY <1>3 DEF AnswerFits, Inviting, I!Requests
<1>5. /\ status' \in [I!Invs -> I!Statuses] /\ email' \in [I!Invs -> Users \cup {NoUser}]
      /\ rank' \in [I!Invs -> I!Ranks]
      /\ status'[i] = "pending" /\ email'[i] = answers[w].actor
      /\ \A j \in I!Invs \ {i} : status'[j] = status[j] /\ email'[j] = email[j]
  BY <1>2, <1>4 DEF OInv, I!TypeOK, I!Statuses
<1>6. OffersKept
  BY <1>1, <1>2, <1>5 DEF OffersKept
<1>7. AnswerFits(r, status', email', admitted')
  BY <1>3 DEF AnswerFits, Inviting, Marking, Accepting, Admitting
<1>8. answers' \in [Workers -> I!Requests] /\ AnswersFit'
  BY <1>3, <1>6, <1>7, AnswerMoves
<1>9. I!TypeOK'
  BY <1>1, <1>5, <1>8 DEF OInv, I!TypeOK
<1>10. OffersFit' /\ MembersAdmitted' /\ I!AcceptedWasAdmitted'
  BY <1>1, <1>4, <1>5 DEF OInv, OffersFit, MembersAdmitted, I!AcceptedWasAdmitted
<1> QED
  BY <1>8, <1>9, <1>10 DEF OInv

LEMMA OffersDeleteOld ==
  ASSUME OInv, NEW w \in Workers, I!DeleteOld(w)
  PROVE  OInv'
<1>1. /\ UNCHANGED <<email, rank, past, members, staff, accounts, admitted>>
      /\ status' \in {status, [status EXCEPT ![answers[w].inv] = "deleted"]}
      /\ "createInv" \in I!Steps
  BY DEF I!DeleteOld, I!people, I!Steps
<1>2. PICK r \in I!Requests :
         /\ answers[w].pc = "deleteOld"
         /\ AnswerFits(answers[w], status, email, admitted)
         /\ answers' = [answers EXCEPT ![w] = r] /\ r.pc = "createInv"
         /\ r.actor = answers[w].actor
  BY <1>1, StepIs DEF I!DeleteOld
<1>3. answers[w].inv \in I!Invs /\ status[answers[w].inv] # "none"
      /\ answers[w].actor \in Users
  BY <1>2 DEF AnswerFits, Inviting, Marking
<1>4. /\ status' \in [I!Invs -> I!Statuses]
      /\ \A j \in I!Invs : \/ status'[j] = status[j]
                           \/ status'[j] = "deleted" /\ status[j] # "none"
  BY <1>1, <1>3 DEF OInv, I!TypeOK, I!Statuses
<1>5. OffersKept
  BY <1>1, <1>4 DEF OffersKept
<1>6. AnswerFits(r, status', email', admitted')
  BY <1>2, <1>3 DEF AnswerFits, Inviting, Marking, Accepting, Admitting
<1>7. answers' \in [Workers -> I!Requests] /\ AnswersFit'
  BY <1>2, <1>5, <1>6, AnswerMoves
<1>8. I!TypeOK'
  BY <1>1, <1>4, <1>7 DEF OInv, I!TypeOK
<1>9. OffersFit' /\ MembersAdmitted' /\ I!AcceptedWasAdmitted'
  BY <1>1, <1>4 DEF OInv, OffersFit, MembersAdmitted, I!AcceptedWasAdmitted
<1> QED
  BY <1>7, <1>8, <1>9 DEF OInv

LEMMA OffersMarkAnswered ==
  ASSUME OInv, NEW w \in Workers, I!MarkAnswered(w)
  PROVE  OInv'
<1>1. UNCHANGED <<email, rank, past, members, staff, accounts, admitted>>
  BY DEF I!MarkAnswered, I!people
<1>2. ASSUME NEW from \in {"markExpired", "markAccepted", "markDeclined"},
             NEW s \in {"expired", "accepted", "declined"},
             I!Step(w, from, "idle"), I!UpdateStatus(answers[w].inv, s),
             s = "accepted" => from = "markAccepted"
      PROVE  OInv'
  <2>0. "idle" \in I!Steps
    BY DEF I!Steps
  <2>1. PICK r \in I!Requests :
           /\ answers[w].pc = from
           /\ AnswerFits(answers[w], status, email, admitted)
           /\ answers' = [answers EXCEPT ![w] = r] /\ r.pc = "idle"
    BY <1>2, <2>0, StepIs
  <2> DEFINE i == answers[w].inv
  <2>2. i \in I!Invs /\ status[i] # "none"
        /\ (s = "accepted" => email[i] \in admitted)
    BY <1>2, <2>1 DEF AnswerFits, Marking, Accepting, Admitting
  <2>3. status' = [status EXCEPT ![i] = IF status[i] = "deleted" THEN status[i] ELSE s]
    BY <1>2 DEF I!UpdateStatus
  <2> HIDE DEF i
  <2>4. /\ status' \in [I!Invs -> I!Statuses]
        /\ \A j \in I!Invs :
              \/ status'[j] = status[j]
              \/ j = i /\ status'[j] = s /\ status[j] # "none" /\ status[j] # "deleted"
    BY <2>2, <2>3 DEF OInv, I!TypeOK, I!Statuses
  <2>5. OffersKept
    BY <1>1, <2>4 DEF OffersKept
  <2>6. AnswerFits(r, status', email', admitted')
    BY <2>1 DEF AnswerFits, Inviting, Marking, Accepting, Admitting
  <2>7. answers' \in [Workers -> I!Requests] /\ AnswersFit'
    BY <2>1, <2>5, <2>6, AnswerMoves
  <2>8. I!TypeOK'
    BY <1>1, <2>4, <2>7 DEF OInv, I!TypeOK
  <2>9. OffersFit' /\ MembersAdmitted' /\ I!AcceptedWasAdmitted'
    BY <1>1, <2>2, <2>4 DEF OInv, OffersFit, MembersAdmitted, I!AcceptedWasAdmitted
  <2> QED
    BY <2>7, <2>8, <2>9 DEF OInv
<1> QED
  BY <1>2 DEF I!MarkAnswered

\* What happens besides requests.
LEMMA OffersOutside ==
  ASSUME OInv,
         \/ \E i \in I!Invs : I!Expire(i)
         \/ \E u \in Users : I!LeaveBoard(u) \/ I!Register(u)
  PROVE  OInv'
<1>1. UNCHANGED <<status, email, rank, staff, admitted, answers>>
  BY DEF I!Expire, I!LeaveBoard, I!Register, I!table, I!people
<1>2. AnswersFit'
  BY <1>1, AnswersKept DEF OffersKept
<1>3. past' \in SUBSET I!Invs /\ accounts' \in SUBSET Users
  BY DEF I!Expire, I!LeaveBoard, I!Register, I!table, I!people, OInv, I!TypeOK
<1>4. /\ members' \in [Users -> I!Ranks \cup {"owner", "none"}]
      /\ \A u \in Users : members'[u] # "none" => members[u] # "none"
  BY DEF I!Expire, I!LeaveBoard, I!Register, I!people, OInv, I!TypeOK
<1>5. I!TypeOK'
  BY <1>1, <1>3, <1>4 DEF OInv, I!TypeOK
<1>6. OffersFit' /\ MembersAdmitted' /\ I!AcceptedWasAdmitted'
  BY <1>1, <1>4 DEF OInv, OffersFit, MembersAdmitted, I!AcceptedWasAdmitted
<1> QED
  BY <1>2, <1>5, <1>6 DEF OInv

LEMMA OffersInductive ==
  ASSUME OInv, [I!Next]_(I!vars)
  PROVE  OInv'
<1>1. CASE UNCHANGED I!vars
  <2>1. UNCHANGED <<status, email, rank, past, members, staff, accounts, admitted, answers>>
    BY <1>1 DEF I!vars, I!table, I!people
  <2>2. AnswersFit'
    BY <2>1, AnswersKept DEF OffersKept
  <2> QED
    BY <2>1, <2>2 DEF OInv, I!TypeOK, OffersFit, MembersAdmitted, I!AcceptedWasAdmitted
<1>2. CASE I!Next
  <2>1. ASSUME NEW w \in Workers, I!Continue(w)
        PROVE  OInv'
    BY <2>1, OffersRead, OffersCreateUserAddOrg, OffersAddMember, OffersCreateInv,
       OffersDeleteOld, OffersMarkAnswered DEF I!Continue
  <2> QED
    BY <1>2, <2>1, OffersStart, OffersOutside DEF I!Next
<1> QED
  BY <1>1, <1>2

THEOREM OffersInvariant ==
  ASSUME Owner \in Users
  PROVE  I!Spec => []OInv
<1>1. I!Init => OInv
  BY OffersInitial
<1>2. OInv /\ [I!Next]_(I!vars) => OInv'
  BY OffersInductive
<1> QED
  BY <1>1, <1>2, PTL DEF I!Spec

\* The tables and requests of invitations keep their types.
THEOREM InvitationsTypeCorrect ==
  ASSUME Owner \in Users
  PROVE  I!Spec => []I!TypeOK
<1>1. OInv => I!TypeOK
  BY DEF OInv
<1> QED
  BY OffersInvariant, <1>1, PTL

\* Whatever fails on the way, and whoever else answers or replaces it, an
\* invitation is only marked accepted when its invitee has been a member.
THEOREM AcceptanceAdmits ==
  ASSUME Owner \in Users
  PROVE  I!Spec => []I!AcceptedWasAdmitted
<1>1. OInv => I!AcceptedWasAdmitted
  BY DEF OInv
<1> QED
  BY OffersInvariant, <1>1, PTL

\* A replaced invitation stays gone, although answers to it are under way.
THEOREM ReplacementLasts ==
  ASSUME Owner \in Users
  PROVE  I!Spec => I!ReplacedStaysGone
<1> DEFINE A == \A i \in I!Invs : status[i] = "deleted" => status'[i] = "deleted"
<1>1. OInv /\ [I!Next]_(I!vars) => A
  <2> SUFFICES ASSUME OInv, [I!Next]_(I!vars), NEW i \in I!Invs, status[i] = "deleted",
                      status' # status
               PROVE  status'[i] = "deleted"
    OBVIOUS
  <2>1. status \in [I!Invs -> I!Statuses]
    BY DEF OInv, I!TypeOK
  <2>2. \E w \in Workers : I!DeleteOld(w) \/ I!CreateInv(w) \/ I!MarkAnswered(w)
    BY DEF I!Next, I!vars, I!table, I!Start, I!Continue, I!Invite, I!GetByToken,
           I!AcceptWithPassword, I!Accept, I!Answer, I!Decline, I!Revoke,
           I!CheckInvitee, I!FindPending, I!ListPending, I!FindMember, I!FindUser,
           I!CreateUser, I!AddMember, I!FindOrg, I!AddOrg, I!Fails, I!Expire,
           I!LeaveBoard, I!Register
  <2>3. PICK w \in Workers : I!DeleteOld(w) \/ I!CreateInv(w) \/ I!MarkAnswered(w)
    BY <2>2
  <2>4. CASE I!DeleteOld(w)
    BY <2>1, <2>4 DEF I!DeleteOld
  <2>5. CASE I!CreateInv(w)
    BY <2>1, <2>5 DEF I!CreateInv
  <2>6. CASE I!MarkAnswered(w)
    BY <2>1, <2>6 DEF I!MarkAnswered, I!UpdateStatus
  <2> QED
    BY <2>3, <2>4, <2>5, <2>6
<1>2. OInv /\ [I!Next]_(I!vars) => [A]_(I!vars)
  BY <1>1
<1> QED
  BY OffersInvariant, <1>2, PTL DEF I!Spec, I!ReplacedStaysGone

-----------------------------------------------------------------------------
(***************************************************************************)
(* Comments, for any workers, users, cards and comments.  A mention is     *)
(* checked by one statement and sent by the next, so what holds of whom it *)
(* reaches is about everyone with access since the comment was there       *)
(* (seen), and that it is not repeated about notifiedUsers.  What a client *)
(* is shown follows from the order of the table: an answer comes later     *)
(* than what it answers.                                                   *)
(***************************************************************************)
CONSTANTS Cards, Comments, NoCard, NoComment
VARIABLES row, thread, gone, edited, member, posts

C == INSTANCE Comments WITH deleted <- gone, req <- posts

Notifying == {"mentions", "mention"}

\* c is earlier in t than d.
Before(t, c, d) == \E i, j \in DOMAIN t : i < j /\ t[i] = c /\ t[j] = d

\* What is known of a request, given the comments t and the members m.
PostFits(r, t, m) ==
    /\ r.pc = "insert" =>
          /\ r.comment \in Comments /\ r.comment \in C!ToSet(t) /\ r.row.card \in Cards
          /\ r.row.parent # NoComment => Before(t, r.row.parent, r.comment)
    /\ r.pc \in {"edit", "delete"} => r.comment \in Comments
    /\ r.pc \in Notifying => m \subseteq r.seen
    /\ r.pc = "mention" =>
          r.user \in Users /\ r.user \in r.seen /\ r.user \notin C!PassedOver(r)
    /\ \A u \in Users : r.sent[u] > 0 =>
          /\ r.sent[u] = 1 /\ r.pc \in Notifying
          /\ u \in r.notified /\ u # r.row.author /\ u \in r.seen

PostsFit == \A w \in Workers : PostFits(posts[w], thread, member)

\* Who answers a comment comes later.
AnswersLater ==
    \A c \in Comments : row[c].parent # NoComment => Before(thread, row[c].parent, c)

PInv == C!TypeOK /\ PostsFit /\ AnswersLater

LEMMA AppendKeepsInjective ==
  ASSUME NEW S, NEW q \in Seq(S), C!IsInjective(q), NEW c \in S \ C!ToSet(q)
  PROVE  /\ Append(q, c) \in Seq(S) /\ C!IsInjective(Append(q, c))
         /\ C!ToSet(Append(q, c)) = C!ToSet(q) \cup {c}
         /\ \A d, e : Before(q, d, e) => Before(Append(q, c), d, e)
         /\ \A d \in C!ToSet(q) : Before(Append(q, c), d, c)
<1> DEFINE a == Append(q, c)
<1>1. /\ a \in Seq(S) /\ Len(a) = Len(q) + 1 /\ Len(q) \in Nat
      /\ \A i \in 1..Len(q) : a[i] = q[i]
      /\ a[Len(q) + 1] = c
      /\ DOMAIN a = 1..Len(a) /\ DOMAIN q = 1..Len(q)
  OBVIOUS
<1> HIDE DEF a
<1>2. \A i \in 1..Len(a) : i \in 1..Len(q) \/ i = Len(q) + 1
  BY <1>1
<1>3. \A i \in 1..Len(q) : i \in 1..Len(a)
  BY <1>1
<1>4. Len(q) + 1 \in 1..Len(a)
  BY <1>1
<1>5. \A i \in 1..Len(q) : q[i] # c
  BY <1>1 DEF C!ToSet
<1>6. C!IsInjective(a)
  BY <1>1, <1>2, <1>5 DEF C!IsInjective
<1>7. C!ToSet(a) = C!ToSet(q) \cup {c}
  BY <1>1, <1>2, <1>3, <1>4 DEF C!ToSet
<1>8. \A d, e : Before(q, d, e) => Before(a, d, e)
  BY <1>1, <1>3 DEF Before
<1>9. \A d \in C!ToSet(q) : Before(a, d, c)
  <2> SUFFICES ASSUME NEW i \in 1..Len(q) PROVE Before(a, q[i], c)
    BY <1>1 DEF C!ToSet
  <2>1. i \in 1..Len(a) /\ i < Len(q) + 1 /\ a[i] = q[i]
    BY <1>1, <1>3
  <2> QED
    BY <1>1, <1>4, <2>1 DEF Before
<1> QED
  BY <1>1, <1>6, <1>7, <1>8, <1>9 DEF a

LEMMA IdlePost ==
  /\ C!Idle \in C!Requests /\ C!Idle.pc = "idle" /\ C!Idle.seen = {}
  /\ \A u \in Users : C!Idle.sent[u] = 0
  /\ \A t, m : PostFits(C!Idle, t, m)
BY DEF C!Idle, C!Requests, C!NoRow, C!Rows, PostFits, Notifying

LEMMA PostsInitial ==
  ASSUME C!Init
  PROVE  PInv
<1>1. C!TypeOK
  BY IdlePost DEF C!Init, C!TypeOK, C!NoRow, C!Rows, C!IsInjective
<1>2. PostsFit
  BY IdlePost DEF C!Init, PostsFit
<1>3. AnswersLater
  BY DEF C!Init, C!NoRow, AnswersLater
<1> QED
  BY <1>1, <1>2, <1>3 DEF PInv

\* A request becomes r, and comments and members change only as others bear.
LEMMA PostMoves ==
  ASSUME PInv, NEW w \in Workers, NEW r \in C!Requests, C!Become(w, r),
         C!ToSet(thread) \subseteq C!ToSet(thread'), member' = member,
         \A c, d : Before(thread, c, d) => Before(thread', c, d),
         PostFits(r, thread', member')
  PROVE  posts' \in [Workers -> C!Requests] /\ PostsFit'
<1>1. posts' \in [Workers -> C!Requests] /\ posts'[w] = r
      /\ \A v \in Workers \ {w} : posts'[v] = posts[v]
  BY DEF PInv, C!TypeOK, C!Become
<1>2. \A v \in Workers : PostFits(posts'[v], thread', member')
  BY <1>1 DEF PInv, PostsFit, PostFits
<1> QED
  BY <1>1, <1>2 DEF PostsFit

\* ... while the tables stay.
LEMMA PostMovesOn ==
  ASSUME PInv, NEW w \in Workers, NEW r \in C!Requests, C!Become(w, r),
         UNCHANGED <<C!table, member>>, PostFits(r, thread, member)
  PROVE  PInv'
<1>1. UNCHANGED <<row, thread, gone, edited, member>>
  BY DEF C!table
<1>2. posts' \in [Workers -> C!Requests] /\ PostsFit'
  BY <1>1, PostMoves
<1> QED
  BY <1>1, <1>2 DEF PInv, C!TypeOK, AnswersLater

LEMMA PostStartCreate ==
  ASSUME PInv, NEW w \in Workers, NEW u \in Users, NEW x \in Cards,
         NEW p \in Comments \cup {NoComment}, C!StartCreate(w, u, x, p)
  PROVE  PInv'
<1>1. PICK c \in Comments \ C!ToSet(thread) :
         /\ C!Become(w, [C!Idle EXCEPT !.pc = "insert", !.comment = c,
                             !.row = [card |-> x, author |-> u, parent |-> p]])
         /\ thread' = Append(thread, c)
  BY DEF C!StartCreate
<1> DEFINE r == [C!Idle EXCEPT !.pc = "insert", !.comment = c,
                    !.row = [card |-> x, author |-> u, parent |-> p]]
<1>2. UNCHANGED <<row, gone, edited, member>>
  BY DEF C!StartCreate
<1>3. /\ thread' \in Seq(Comments) /\ C!IsInjective(thread)'
      /\ C!ToSet(thread') = C!ToSet(thread) \cup {c}
      /\ \A d, e : Before(thread, d, e) => Before(thread', d, e)
      /\ \A d \in C!ToSet(thread) : Before(thread', d, c)
  <2>1. thread \in Seq(Comments) /\ C!IsInjective(thread)
    BY DEF PInv, C!TypeOK
  <2> QED
    BY <1>1, <2>1, AppendKeepsInjective
<1>4. r \in C!Requests
  <2>1. [card |-> x, author |-> u, parent |-> p] \in C!Rows
    BY DEF C!Rows
  <2> QED
    BY <2>1, IdlePost DEF C!Requests
<1>5. PostFits(r, thread', member')
  <2>1. p # NoComment => p \in C!ToSet(thread)
    BY DEF C!StartCreate, PInv, C!TypeOK
  <2>2. /\ r.pc = "insert" /\ r.comment = c /\ r.row.card = x /\ r.row.parent = p
        /\ \A v \in Users : r.sent[v] = 0
    BY DEF C!Idle
  <2> HIDE DEF r
  <2> QED
    BY <1>3, <2>1, <2>2 DEF PostFits, Notifying
<1>6. C!Become(w, r)
  BY <1>1
<1> HIDE DEF r
<1>7. posts' \in [Workers -> C!Requests] /\ PostsFit'
  BY <1>2, <1>3, <1>4, <1>5, <1>6, PostMoves
<1>8. \A d \in Comments : row'[d] # C!NoRow => d \in C!ToSet(thread')
  BY <1>2, <1>3 DEF PInv, C!TypeOK
<1>9. AnswersLater'
  BY <1>2, <1>3 DEF PInv, AnswersLater
<1> QED
  BY <1>2, <1>3, <1>7, <1>8, <1>9 DEF PInv, C!TypeOK

LEMMA PostInsert ==
  ASSUME NoCard \notin Cards, PInv, NEW w \in Workers, C!Insert(w)
  PROVE  PInv'
<1> DEFINE c == posts[w].comment  x == posts[w].row
           r == [posts[w] EXCEPT !.pc = "mentions", !.seen = member]
<1>1. /\ posts[w].pc = "insert" /\ row' = [row EXCEPT ![c] = x]
      /\ C!Become(w, r) /\ UNCHANGED <<thread, gone, edited, member>>
  BY DEF C!Insert
<1>2. /\ posts[w] \in C!Requests /\ member \in SUBSET Users
      /\ PostFits(posts[w], thread, member)
  BY DEF PInv, C!TypeOK, PostsFit
<1>3. /\ c \in Comments /\ c \in C!ToSet(thread) /\ x \in C!Rows /\ x # C!NoRow
      /\ x.parent # NoComment => Before(thread, x.parent, c)
  BY <1>1, <1>2 DEF PostFits, C!Requests, C!NoRow
<1>4. /\ r \in C!Requests /\ r.pc = "mentions" /\ r.seen = member
      /\ r.sent = posts[w].sent
  BY <1>2 DEF C!Requests
<1> HIDE DEF r
<1>5. PostFits(r, thread, member)
  BY <1>1, <1>2, <1>4 DEF PostFits, Notifying
<1>6. posts' \in [Workers -> C!Requests] /\ PostsFit'
  BY <1>1, <1>4, <1>5, PostMoves
<1> HIDE DEF c, x
<1>7. row' \in [Comments -> C!Rows] /\ row'[c] = x
      /\ \A d \in Comments \ {c} : row'[d] = row[d]
  BY <1>1, <1>3 DEF PInv, C!TypeOK
<1>8. \A d \in Comments : row[d] # C!NoRow => row'[d] # C!NoRow
  BY <1>3, <1>7
<1>9. \A d \in Comments : row'[d] # C!NoRow => d \in C!ToSet(thread)
  BY <1>3, <1>7 DEF PInv, C!TypeOK
<1>10. /\ gone' \in SUBSET {d \in Comments : row'[d] # C!NoRow}
       /\ edited' \in SUBSET {d \in Comments : row'[d] # C!NoRow}
  BY <1>1, <1>8 DEF PInv, C!TypeOK
<1>11. C!TypeOK'
  <2>1. thread' \in Seq(Comments) /\ C!IsInjective(thread)' /\ member' \in SUBSET Users
    BY <1>1 DEF PInv, C!TypeOK
  <2>2. \A d \in Comments : row'[d] # C!NoRow => d \in C!ToSet(thread')
    BY <1>1, <1>9
  <2>3. C!NoRow' = C!NoRow
    OBVIOUS
  <2> QED
    BY <1>6, <1>7, <1>10, <2>1, <2>2, <2>3 DEF C!TypeOK
<1>12. AnswersLater'
  BY <1>1, <1>3, <1>7 DEF PInv, AnswersLater
<1> QED
  BY <1>6, <1>11, <1>12 DEF PInv

LEMMA PostFindMentioned ==
  ASSUME PInv, NEW w \in Workers, C!FindMentioned(w)
  PROVE  PInv'
<1>1. PICK u \in Users \ C!PassedOver(posts[w]) :
         u \in member /\ C!Become(w, [posts[w] EXCEPT !.pc = "mention", !.user = u])
  BY DEF C!FindMentioned, C!HasAccess
<1> DEFINE r == [posts[w] EXCEPT !.pc = "mention", !.user = u]
<1>2. posts[w].pc = "mentions" /\ UNCHANGED <<C!table, member>>
  BY DEF C!FindMentioned
<1>3. posts[w] \in C!Requests /\ PostFits(posts[w], thread, member)
  BY DEF PInv, C!TypeOK, PostsFit
<1>4. /\ r \in C!Requests /\ r.pc = "mention" /\ r.user = u
      /\ r.sent = posts[w].sent /\ r.notified = posts[w].notified
      /\ r.row = posts[w].row /\ r.seen = posts[w].seen
  BY <1>3 DEF C!Requests
<1>5. C!Become(w, r)
  BY <1>1
<1> HIDE DEF r
<1>6. PostFits(r, thread, member)
  BY <1>1, <1>2, <1>3, <1>4 DEF PostFits, Notifying, C!PassedOver
<1> QED
  BY <1>2, <1>4, <1>5, <1>6, PostMovesOn

LEMMA PostNotifyMention ==
  ASSUME PInv, NEW w \in Workers, C!NotifyMention(w)
  PROVE  PInv'
<1> DEFINE q == posts[w]  n == q.sent[q.user]
<1>1. /\ q.pc = "mention" /\ UNCHANGED <<C!table, member>>
  BY DEF C!NotifyMention
<1>2. q \in C!Requests /\ PostFits(q, thread, member)
  BY DEF PInv, C!TypeOK, PostsFit
<1>3. q.user \in Users /\ q.user \in q.seen /\ q.user \notin q.notified
      /\ q.user # q.row.author /\ member \subseteq q.seen
  BY <1>1, <1>2 DEF PostFits, Notifying, C!PassedOver
<1>4. q.sent \in [Users -> 0..2] /\ n = 0
  BY <1>2, <1>3 DEF PostFits, C!Requests
<1>5. PICK k \in {n, IF n = 2 THEN 2 ELSE n + 1} :
         C!Become(w, [q EXCEPT !.pc = "mentions", !.notified = C!Noted(q),
                               !.sent = [q.sent EXCEPT ![q.user] = k], !.user = NoUser])
  BY DEF C!NotifyMention
<1>6. k \in {0, 1}
  BY <1>4, <1>5
<1> DEFINE s == [q.sent EXCEPT ![q.user] = k]
           r == [q EXCEPT !.pc = "mentions", !.notified = C!Noted(q),
                          !.sent = s, !.user = NoUser]
<1>7. C!Become(w, r)
  BY <1>5
<1>8. s \in [Users -> 0..2] /\ s[q.user] \in {0, 1}
      /\ \A u \in Users \ {q.user} : s[u] = q.sent[u]
  BY <1>3, <1>4, <1>6
<1> HIDE DEF s
<1>9. /\ r \in C!Requests /\ r.pc = "mentions" /\ r.sent = s
      /\ r.notified = q.notified \cup {q.user} /\ r.row = q.row /\ r.seen = q.seen
  BY <1>2, <1>3, <1>8 DEF C!Requests, C!Noted
<1> HIDE DEF r
<1>10. PostFits(r, thread, member)
  <2> SUFFICES ASSUME NEW u \in Users, r.sent[u] > 0
               PROVE  /\ r.sent[u] = 1 /\ r.pc \in Notifying
                      /\ u \in r.notified /\ u # r.row.author /\ u \in r.seen
    BY <1>3, <1>9 DEF PostFits, Notifying
  <2>1. CASE u = q.user
    BY <1>3, <1>8, <1>9, <2>1 DEF Notifying
  <2>2. CASE u # q.user
    BY <1>2, <1>8, <1>9, <2>2 DEF PostFits, Notifying
  <2> QED
    BY <2>1, <2>2
<1> QED
  BY <1>1, <1>7, <1>9, <1>10, PostMovesOn

\* A request ends, or one begins to change a comment.
LEMMA PostEndsOrChanges ==
  ASSUME PInv, NEW w \in Workers,
         \/ C!MentionsDone(w) \/ C!Fails(w)
         \/ \E c \in Comments, pc \in {"edit", "delete"} : C!StartChange(w, c, pc)
  PROVE  PInv'
<1>1. UNCHANGED <<C!table, member>>
  BY DEF C!MentionsDone, C!Fails, C!StartChange
<1>2. CASE C!MentionsDone(w) \/ C!Fails(w)
  <2>1. C!Become(w, C!Idle)
    BY <1>2 DEF C!MentionsDone, C!Goto, C!Fails
  <2> QED
    BY <1>1, <2>1, IdlePost, PostMovesOn
<1>3. ASSUME NEW c \in Comments, NEW pc \in {"edit", "delete"}, C!StartChange(w, c, pc)
      PROVE  PInv'
  <2> DEFINE r == [C!Idle EXCEPT !.pc = pc, !.comment = c]
  <2>1. r \in C!Requests
    BY IdlePost DEF C!Requests
  <2>2. PostFits(r, thread, member)
    BY DEF C!Idle, PostFits, Notifying
  <2>3. C!Become(w, r)
    BY <1>3 DEF C!StartChange
  <2> HIDE DEF r
  <2> QED
    BY <1>1, <2>1, <2>2, <2>3, PostMovesOn
<1> QED
  BY <1>2, <1>3

\* The UPDATEs write comments that are not deleted.
LEMMA PostChange ==
  ASSUME PInv, NEW w \in Workers, C!Change(w)
  PROVE  /\ PInv'
         /\ gone \subseteq gone' /\ \A c \in gone : c \in edited' => c \in edited
<1> DEFINE c == posts[w].comment
<1>1. /\ posts[w].pc \in {"edit", "delete"} /\ C!Become(w, C!Idle)
      /\ row[c] # C!NoRow /\ c \notin gone
      /\ gone' \in {gone, gone \cup {c}} /\ edited' \in {edited, edited \cup {c}}
      /\ UNCHANGED <<row, thread, member>>
  BY DEF C!Change, C!Writable, C!Live
<1>2. c \in Comments
  BY <1>1 DEF PInv, PostsFit, PostFits
<1>3. posts' \in [Workers -> C!Requests] /\ PostsFit'
  BY <1>1, IdlePost, PostMoves
<1> HIDE DEF c
<1>4. C!TypeOK'
  BY <1>1, <1>2, <1>3 DEF PInv, C!TypeOK
<1>5. AnswersLater'
  BY <1>1 DEF PInv, AnswersLater
<1> QED
  BY <1>1, <1>3, <1>4, <1>5 DEF PInv

\* Whoever joins or leaves has had access while comments were being announced.
LEMMA PostMembersChange ==
  ASSUME PInv, NEW u \in Users, C!MembersChange(u)
  PROVE  PInv'
<1>1. UNCHANGED <<row, thread, gone, edited>>
  BY DEF C!MembersChange, C!table
<1>2. member' \in SUBSET Users /\ member' \subseteq member \cup {u}
  BY DEF C!MembersChange, PInv, C!TypeOK
<1>3. \A v \in Workers :
         /\ posts'[v] \in C!Requests
         /\ posts[v].pc \in Notifying =>
              posts'[v] = [posts[v] EXCEPT !.seen = posts[v].seen \cup {u}]
         /\ posts[v].pc \notin Notifying => posts'[v] = posts[v]
  <2> TAKE v \in Workers
  <2>1. posts'[v] = IF posts[v].pc \in Notifying
                    THEN [posts[v] EXCEPT !.seen = posts[v].seen \cup {u}] ELSE posts[v]
    BY DEF C!MembersChange, Notifying
  <2>2. posts[v] \in C!Requests
    BY DEF PInv, C!TypeOK
  <2>3. [posts[v] EXCEPT !.seen = posts[v].seen \cup {u}] \in C!Requests
    BY <2>2 DEF C!Requests
  <2> QED
    BY <2>1, <2>2, <2>3
<1>4. posts' \in [Workers -> C!Requests]
  <2>1. \E f : posts' = [v \in Workers |-> f[v]]
    <3> DEFINE f == [v \in Workers |-> IF posts[v].pc \in {"mentions", "mention"}
                      THEN [posts[v] EXCEPT !.seen = posts[v].seen \cup {u}] ELSE posts[v]]
    <3>1. posts' = f
      BY DEF C!MembersChange
    <3>2. f = [v \in Workers |-> f[v]]
      OBVIOUS
    <3> HIDE DEF f
    <3> QED
      BY <3>1, <3>2
  <2> QED
    BY <1>3, <2>1
<1>5. C!TypeOK'
  BY <1>1, <1>2, <1>4 DEF PInv, C!TypeOK
<1>6. \A v \in Workers : PostFits(posts'[v], thread', member')
  <2> TAKE v \in Workers
  <2>1. posts[v] \in C!Requests /\ PostFits(posts[v], thread, member)
    BY DEF PInv, C!TypeOK, PostsFit
  <2>2. CASE posts[v].pc \in Notifying
    <3> DEFINE r == [posts[v] EXCEPT !.seen = posts[v].seen \cup {u}]
    <3>1. /\ r.pc = posts[v].pc /\ r.user = posts[v].user /\ r.sent = posts[v].sent
          /\ r.notified = posts[v].notified /\ r.row = posts[v].row
          /\ r.seen = posts[v].seen \cup {u}
      BY <2>1 DEF C!Requests
    <3>2. posts'[v] = r
      BY <1>3, <2>2
    <3> HIDE DEF r
    <3>3. PostFits(r, thread, member')
      BY <1>2, <2>1, <2>2, <3>1 DEF PostFits, Notifying, C!PassedOver
    <3> QED
      BY <1>1, <3>2, <3>3
  <2>3. CASE posts[v].pc \notin Notifying
    BY <1>1, <1>3, <2>1, <2>3 DEF PostFits, Notifying
  <2> QED
    BY <2>2, <2>3
<1>7. AnswersLater'
  BY <1>1 DEF PInv, AnswersLater
<1> QED
  BY <1>5, <1>6, <1>7 DEF PInv, PostsFit

LEMMA PostsInductive ==
  ASSUME NoCard \notin Cards, PInv, [C!Next]_(C!vars)
  PROVE  PInv'
<1>1. CASE UNCHANGED C!vars
  <2>1. UNCHANGED <<row, thread, gone, edited, member, posts>>
    BY <1>1 DEF C!vars, C!table
  <2> QED
    BY <2>1 DEF PInv, C!TypeOK, PostsFit, PostFits, AnswersLater
<1>2. CASE C!Next
  BY <1>2, PostStartCreate, PostInsert, PostFindMentioned, PostNotifyMention,
     PostEndsOrChanges, PostChange, PostMembersChange DEF C!Next
<1> QED
  BY <1>1, <1>2

THEOREM PostsInvariant ==
  ASSUME NoCard \notin Cards
  PROVE  C!Spec => []PInv
<1>1. C!Init => PInv
  BY PostsInitial
<1>2. PInv /\ [C!Next]_(C!vars) => PInv'
  BY PostsInductive
<1> QED
  BY <1>1, <1>2, PTL DEF C!Spec

\* What holds of 0 and goes on from each number below n holds up to n.
LEMMA UpTo ==
  ASSUME NEW n \in Nat, NEW S, 0 \in S, \A i \in 1..n : i - 1 \in S => i \in S
  PROVE  \A i \in 0..n : i \in S
<1> SUFFICES ASSUME NEW k \in 0..n, k \notin S PROVE FALSE
  OBVIOUS
<1> DEFINE T == {i \in 0..n : i \notin S}
<1>1. k \in T /\ T \subseteq Nat
  OBVIOUS
<1>2. PICK m \in T : \A i \in T : ~(<<i, m>> \in OpToRel(<, Nat))
  <2>1. IsWellFoundedOn(OpToRel(<, Nat), Nat)
    BY NatLessThanWellFounded
  <2> HIDE DEF T
  <2> QED
    BY <1>1, <2>1, WFMin
<1>3. \A i \in T : ~(i < m)
  BY <1>1, <1>2 DEF OpToRel
<1>4. m \in 1..n /\ m - 1 \in 0..n /\ m - 1 < m
  OBVIOUS
<1>5. m - 1 \in S
  BY <1>3, <1>4
<1> QED
  BY <1>4, <1>5

\* The rounds of buildCommentTree.
LEMMA TreeRounds ==
  ASSUME NEW x, thread \in Seq(Comments)
  PROVE  /\ C!Tree(x)[0] = [c \in C!Found(x) \cup {NoComment} |-> <<>>]
         /\ \A i \in 1..Len(thread) :
               C!Tree(x)[i] = C!Attach(C!Tree(x)[i - 1], thread[i])
<1> DEFINE n == Len(thread)
           start == [c \in C!Found(x) \cup {NoComment} |-> <<>>]
           Loop(g, m) == g = [i \in 0..m |-> IF i = 0 THEN start
                                             ELSE C!Attach(g[i - 1], thread[i])]
           S == {m \in 0..n : \E g : Loop(g, m)}
<1>1. n \in Nat
  OBVIOUS
<1>2. C!Tree(x) = CHOOSE g : Loop(g, n)
  BY DEF C!Tree
<1> HIDE DEF n, start
<1>3. 0 \in S
  <2>1. Loop([i \in 0..0 |-> start], 0)
    OBVIOUS
  <2> HIDE DEF Loop
  <2> QED
    BY <1>1, <2>1
<1>4. ASSUME NEW m \in 1..n, m - 1 \in S
      PROVE  m \in S
  <2>1. PICK g : Loop(g, m - 1)
    BY <1>4
  <2> DEFINE h == [i \in 0..m |-> IF i = m THEN C!Attach(g[m - 1], thread[m]) ELSE g[i]]
  <2>2. /\ m \in Nat /\ m > 0
        /\ \A i \in 0..m : i = m \/ i \in 0..(m - 1)
        /\ \A i \in 1..m : i - 1 \in 0..(m - 1) /\ i - 1 # m /\ i - 1 \in 0..m
    BY <1>1
  <2>3. /\ \A i \in 0..(m - 1) : g[i] = IF i = 0 THEN start ELSE C!Attach(g[i - 1], thread[i])
        /\ h[m] = C!Attach(g[m - 1], thread[m])
        /\ \A i \in 0..(m - 1) : h[i] = g[i]
    BY <2>1, <2>2
  <2>4. \A i \in 0..m : h[i] = IF i = 0 THEN start ELSE C!Attach(h[i - 1], thread[i])
    <3> TAKE i \in 0..m
    <3> HIDE DEF h
    <3>1. CASE i = 0
      BY <2>2, <2>3, <3>1
    <3>2. CASE i # 0
      <4>1. i \in 1..m /\ h[i - 1] = g[i - 1]
        BY <2>2, <2>3, <3>2
      <4> QED
        BY <2>2, <2>3, <3>2, <4>1
    <3> QED
      BY <3>1, <3>2
  <2>5. Loop(h, m)
    BY <2>4
  <2>6. m \in 0..n
    BY <1>1
  <2> HIDE DEF Loop, h
  <2> QED
    BY <2>5, <2>6
<1>5. \E g : Loop(g, n)
  <2>1. \A i \in 0..n : i \in S
    <3> HIDE DEF S
    <3> QED
      BY <1>1, <1>3, <1>4, UpTo
  <2> HIDE DEF Loop
  <2> QED
    BY <1>1, <2>1
<1>6. Loop(C!Tree(x), n)
  <2> HIDE DEF Loop
  <2> QED
    BY <1>2, <1>5
<1>7. /\ C!Tree(x)[0] = start
      /\ \A i \in 1..n : C!Tree(x)[i] = C!Attach(C!Tree(x)[i - 1], thread[i])
  BY <1>1, <1>6
<1> QED
  BY <1>7 DEF n, start

\* created_at, as ThreadsShown compares it.
Age(c) == CHOOSE i \in DOMAIN thread : thread[i] = c

LEMMA AgeIsPlace ==
  ASSUME PInv, NEW i \in 1..Len(thread)
  PROVE  Age(thread[i]) = i
<1>1. DOMAIN thread = 1..Len(thread) /\ C!IsInjective(thread)
  BY DEF PInv, C!TypeOK
<1>2. Age(thread[i]) \in DOMAIN thread /\ thread[Age(thread[i])] = thread[i]
  BY <1>1 DEF Age
<1> QED
  BY <1>1, <1>2 DEF C!IsInjective

\* q holds the comments of S, oldest first, as copies without replies.
Copies == [id : Comments, replies : {<<>>}]
Lists(q, S) ==
    /\ q \in Seq(Copies)
    /\ {q[k].id : k \in DOMAIN q} = S
    /\ \A k, l \in DOMAIN q : k < l => Age(q[k].id) < Age(q[l].id)

LEMMA EmptyLists ==
  /\ Lists(<<>>, {})
  /\ \A q : Lists(q, {}) => q = <<>>
<1>1. Lists(<<>>, {})
  BY DEF Lists
<1>2. ASSUME NEW q, Lists(q, {}) PROVE q = <<>>
  <2>1. q \in Seq(Copies) /\ DOMAIN q = {}
    BY <1>2 DEF Lists
  <2> QED
    BY <2>1
<1> QED
  BY <1>1, <1>2

LEMMA AppendLists ==
  ASSUME NEW q, NEW S, Lists(q, S), NEW c \in Comments, \A d \in S : Age(d) < Age(c)
  PROVE  Lists(Append(q, C!Node(c, <<>>)), S \cup {c})
<1> DEFINE e == C!Node(c, <<>>)  a == Append(q, e)  n == Len(q)
<1>1. e \in Copies /\ e.id = c
  BY DEF C!Node, Copies
<1> HIDE DEF e
<1>2. q \in Seq(Copies) /\ n \in Nat /\ DOMAIN q = 1..n
  BY DEF Lists
<1>3. /\ a \in Seq(Copies) /\ DOMAIN a = 1..(n + 1)
      /\ \A k \in 1..n : a[k] = q[k]
      /\ a[n + 1] = e
  BY <1>1, <1>2
<1> HIDE DEF a, n
<1>4. 1..(n + 1) = 1..n \cup {n + 1}
  BY <1>2
<1>5. {a[k].id : k \in DOMAIN a} = S \cup {c}
  BY <1>1, <1>2, <1>3, <1>4 DEF Lists
<1>6. ASSUME NEW k \in DOMAIN a, NEW l \in DOMAIN a, k < l
      PROVE  Age(a[k].id) < Age(a[l].id)
  <2>1. k \in 1..n
    BY <1>2, <1>3, <1>6
  <2>2. CASE l \in 1..n
    BY <1>2, <1>3, <1>6, <2>1, <2>2 DEF Lists
  <2>3. CASE l = n + 1
    <3>1. q[k].id \in S
      BY <1>2, <2>1 DEF Lists
    <3> QED
      BY <1>1, <1>3, <2>1, <2>3, <3>1
  <2> QED
    BY <1>3, <1>4, <2>2, <2>3
<1>7. Lists(a, S \cup {c})
  BY <1>3, <1>5, <1>6 DEF Lists
<1> QED
  BY <1>7 DEF a, e

\* What answers p, or starts a thread if p is NoComment, in the first i rounds.
Answers(x, p, i) ==
    {c \in C!Found(x) : row[c].parent = p /\ \E j \in 1..i : thread[j] = c}

\* The tree t after i rounds.
TreeFits(x, t, i) ==
    /\ t \in [C!Found(x) \cup {NoComment} -> Seq(Copies)]
    /\ \A p \in C!Found(x) \cup {NoComment} : Lists(t[p], Answers(x, p, i))

\* One round.  A comment is copied before its own replies come, since they are
\* younger.
LEMMA RoundFits ==
  ASSUME NoComment \notin Comments, PInv, NEW x, NEW i \in 1..Len(thread),
         NEW t, TreeFits(x, t, i - 1)
  PROVE  TreeFits(x, C!Attach(t, thread[i]), i)
<1> DEFINE F == C!Found(x)  c == thread[i]  p == row[c].parent
<1>1. /\ DOMAIN thread = 1..Len(thread) /\ Len(thread) \in Nat
      /\ c \in Comments /\ F \subseteq Comments
  BY DEF PInv, C!TypeOK, C!Found
<1>2. /\ t \in [F \cup {NoComment} -> Seq(Copies)]
      /\ \A d \in F \cup {NoComment} : Lists(t[d], Answers(x, d, i - 1))
  BY DEF TreeFits
<1>3. \A d : Answers(x, d, i) = Answers(x, d, i - 1) \cup
                                  (IF c \in F /\ p = d THEN {c} ELSE {})
  <2>1. 1..i = 1..(i - 1) \cup {i}
    OBVIOUS
  <2> QED
    BY <2>1 DEF Answers
<1>4. \A j \in 1..Len(thread) : Age(thread[j]) = j
  BY AgeIsPlace
<1>5. CASE {c, p} \subseteq F \cup {NoComment}
  <2>1. c \in F /\ p \in F \cup {NoComment}
    BY <1>1, <1>5
  <2>2. Answers(x, c, i - 1) = {}
    <3> SUFFICES ASSUME NEW j \in 1..(i - 1), row[thread[j]].parent = c,
                        thread[j] \in Comments
                 PROVE  FALSE
      BY <1>1 DEF Answers
    <3>1. Before(thread, c, thread[j])
      BY <1>1 DEF PInv, AnswersLater
    <3>2. PICK k, l \in 1..Len(thread) : k < l /\ thread[k] = c /\ thread[l] = thread[j]
      BY <1>1, <3>1 DEF Before
    <3>3. k = i /\ l = j
      BY <1>1, <1>4, <3>2
    <3> QED
      BY <3>2, <3>3
  <2>3. t[c] = <<>>
    BY <1>2, <2>1, <2>2, EmptyLists
  <2>4. \A d \in Answers(x, p, i - 1) : Age(d) < Age(c)
    BY <1>1, <1>4 DEF Answers
  <2>5. Lists(Append(t[p], C!Node(c, <<>>)), Answers(x, p, i))
    BY <1>1, <1>2, <1>3, <2>1, <2>4, AppendLists
  <2>6. C!Attach(t, c) = [t EXCEPT ![p] = Append(t[p], C!Node(c, <<>>))]
    BY <1>2, <1>5, <2>3 DEF C!Attach
  <2>7. Append(t[p], C!Node(c, <<>>)) \in Seq(Copies)
    BY <2>5 DEF Lists
  <2> DEFINE a == Append(t[p], C!Node(c, <<>>))
  <2> HIDE DEF a, F, c, p
  <2>8. [t EXCEPT ![p] = a] \in [F \cup {NoComment} -> Seq(Copies)]
    BY <1>2, <2>7 DEF a
  <2>9. \A d \in F \cup {NoComment} : Lists([t EXCEPT ![p] = a][d], Answers(x, d, i))
    <3> TAKE d \in F \cup {NoComment}
    <3>1. CASE d = p
      BY <1>2, <2>1, <2>5, <3>1 DEF a
    <3>2. CASE d # p
      BY <1>2, <1>3, <3>2
    <3> QED
      BY <3>1, <3>2
  <2> QED
    BY <2>6, <2>8, <2>9 DEF TreeFits, a, F, c
<1>6. CASE ~({c, p} \subseteq F \cup {NoComment})
  <2>1. C!Attach(t, c) = t
    BY <1>2, <1>6 DEF C!Attach
  <2>2. \A d \in F \cup {NoComment} : Answers(x, d, i) = Answers(x, d, i - 1)
    BY <1>3, <1>6
  <2> QED
    BY <1>2, <2>1, <2>2 DEF TreeFits
<1> QED
  BY <1>5, <1>6

LEMMA TreeBuilt ==
  ASSUME NoComment \notin Comments, PInv, NEW x
  PROVE  TreeFits(x, C!Tree(x)[Len(thread)], Len(thread))
<1> DEFINE n == Len(thread)
           S == {i \in 0..n : TreeFits(x, C!Tree(x)[i], i)}
<1>1. thread \in Seq(Comments) /\ n \in Nat
  BY DEF PInv, C!TypeOK
<1>2. /\ C!Tree(x)[0] = [c \in C!Found(x) \cup {NoComment} |-> <<>>]
      /\ \A i \in 1..n : C!Tree(x)[i] = C!Attach(C!Tree(x)[i - 1], thread[i])
  BY <1>1, TreeRounds
<1>3. 0 \in S
  <2>1. <<>> \in Seq(Copies) /\ \A p : Answers(x, p, 0) = {}
    BY DEF Answers
  <2>2. TreeFits(x, C!Tree(x)[0], 0)
    BY <1>2, <2>1, EmptyLists DEF TreeFits
  <2> QED
    BY <1>1, <2>2
<1>4. ASSUME NEW i \in 1..n, i - 1 \in S
      PROVE  i \in S
  <2>1. TreeFits(x, C!Tree(x)[i - 1], i - 1)
    BY <1>4
  <2>2. TreeFits(x, C!Tree(x)[i], i)
    BY <1>2, <2>1, RoundFits
  <2> QED
    BY <1>1, <2>2
<1>5. n \in S
  <2>1. \A i \in 0..n : i \in S
    <3> HIDE DEF S, n
    <3> QED
      BY <1>1, <1>3, <1>4, UpTo
  <2> HIDE DEF S, n
  <2> QED
    BY <1>1, <2>1
<1> QED
  BY <1>5

\* What the tree holds for a comment that starts a thread, or for NoComment.
LEMMA AnswersAreAll ==
  ASSUME PInv, NEW x, NEW p
  PROVE  Answers(x, p, Len(thread)) =
            {c \in Comments : C!Live(c) /\ row[c].card = x /\ row[c].parent = p}
<1>1. DOMAIN thread = 1..Len(thread)
  BY DEF PInv, C!TypeOK
<1>2. \A c \in Comments : C!Live(c) => \E j \in 1..Len(thread) : thread[j] = c
  BY <1>1 DEF PInv, C!TypeOK, C!Live, C!ToSet
<1> QED
  BY <1>2 DEF Answers, C!Found

LEMMA ThreadsShownNow ==
  ASSUME NoComment \notin Comments, PInv
  PROVE  C!ThreadsShown
<1> SUFFICES ASSUME NEW x \in Cards
             PROVE  LET shown == C!Shown(x)
                        Of(i) == shown[i].replies
                    IN  /\ {shown[i].id : i \in DOMAIN shown} =
                             {c \in Comments : /\ C!Live(c) /\ row[c].card = x
                                               /\ row[c].parent = NoComment}
                        /\ \A i, j \in DOMAIN shown :
                              i < j => Age(shown[i].id) > Age(shown[j].id)
                        /\ \A i \in DOMAIN shown :
                              /\ {Of(i)[k].id : k \in DOMAIN Of(i)} =
                                    {c \in Comments : /\ C!Live(c) /\ row[c].card = x
                                                      /\ row[c].parent = shown[i].id}
                              /\ \A k, l \in DOMAIN Of(i) :
                                    k < l => Age(Of(i)[k].id) < Age(Of(i)[l].id)
  BY DEF C!ThreadsShown, Age
<1> DEFINE F == C!Found(x)
           tree == C!Tree(x)[Len(thread)]
           q == tree[NoComment]
           n == Len(q)
           shown == C!Shown(x)
           Wanted(p) == {c \in Comments : C!Live(c) /\ row[c].card = x /\ row[c].parent = p}
<1>1. /\ tree \in [F \cup {NoComment} -> Seq(Copies)]
      /\ \A p \in F \cup {NoComment} : Lists(tree[p], Wanted(p))
  <2>1. TreeFits(x, tree, Len(thread))
    BY TreeBuilt
  <2>2. \A p : Answers(x, p, Len(thread)) = Wanted(p)
    BY AnswersAreAll
  <2> HIDE DEF tree, Wanted
  <2> QED
    BY <2>1, <2>2 DEF TreeFits
<1>2. /\ q \in Seq(Copies) /\ n \in Nat /\ DOMAIN q = 1..n
      /\ {q[k].id : k \in 1..n} = Wanted(NoComment)
      /\ \A k, l \in 1..n : k < l => Age(q[k].id) < Age(q[l].id)
      /\ \A k \in 1..n : Age(q[k].id) \in Int
  <2>1. Lists(q, Wanted(NoComment))
    BY <1>1
  <2>2. q \in Seq(Copies) /\ n \in Nat /\ DOMAIN q = 1..n
    BY <2>1 DEF Lists
  <2>3. \A c \in Wanted(NoComment) : Age(c) \in Int
    <3> TAKE c \in Wanted(NoComment)
    <3>1. PICK j \in DOMAIN thread : thread[j] = c
      BY DEF PInv, C!TypeOK, C!Live, C!ToSet
    <3>2. DOMAIN thread = 1..Len(thread) /\ Len(thread) \in Nat
      BY DEF PInv, C!TypeOK
    <3> QED
      BY <3>1, <3>2, AgeIsPlace
  <2> HIDE DEF n, q, Wanted
  <2> QED
    BY <2>1, <2>2, <2>3 DEF Lists
<1>3. shown = [i \in 1..n |-> C!Node(q[n - i + 1].id, tree[q[n - i + 1].id])]
  <2>1. C!Reverse(q) = [i \in 1..n |-> q[n - i + 1]]
    BY DEF C!Reverse
  <2>2. shown = [i \in DOMAIN C!Reverse(q) |-> C!Node(C!Reverse(q)[i].id, tree[C!Reverse(q)[i].id])]
    BY DEF C!Shown
  <2> HIDE DEF n, q, tree, shown
  <2> QED
    BY <2>1, <2>2
<1> HIDE DEF n, q, tree, shown
<1>4. \A i \in 1..n : n - i + 1 \in 1..n /\ n - (n - i + 1) + 1 = i
  BY <1>2
<1>5. /\ DOMAIN shown = 1..n
      /\ \A i \in 1..n : /\ shown[i].id = q[n - i + 1].id
                         /\ shown[i].replies = tree[shown[i].id]
  BY <1>3 DEF C!Node
<1>6. {shown[i].id : i \in DOMAIN shown} = Wanted(NoComment)
  <2> HIDE DEF Wanted
  <2>1. \A i \in 1..n : \E k \in 1..n : shown[i].id = q[k].id
    BY <1>4, <1>5
  <2>2. \A k \in 1..n : \E i \in 1..n : q[k].id = shown[i].id
    <3> TAKE k \in 1..n
    <3>1. n - k + 1 \in 1..n /\ n - (n - k + 1) + 1 = k
      BY <1>4
    <3>2. shown[n - k + 1].id = q[n - (n - k + 1) + 1].id
      BY <1>5, <3>1
    <3> QED
      BY <3>1, <3>2
  <2>3. {shown[i].id : i \in 1..n} = {q[k].id : k \in 1..n}
    BY <2>1, <2>2
  <2> QED
    BY <1>2, <1>5, <2>3
<1>7. ASSUME NEW i \in DOMAIN shown, NEW j \in DOMAIN shown, i < j
      PROVE  Age(shown[i].id) > Age(shown[j].id)
  <2>1. i \in 1..n /\ j \in 1..n /\ n - j + 1 < n - i + 1
    BY <1>2, <1>5, <1>7
  <2> QED
    BY <1>2, <1>4, <1>5, <2>1
<1>8. ASSUME NEW i \in DOMAIN shown
      PROVE  Lists(shown[i].replies, Wanted(shown[i].id))
  <2>1. shown[i].id \in F
    BY <1>6 DEF C!Found
  <2> QED
    BY <1>1, <1>5, <2>1
<1> HIDE DEF shown
<1>9. ASSUME NEW r, NEW S, Lists(r, S)
      PROVE  /\ {r[k].id : k \in DOMAIN r} = S
             /\ \A k, l \in DOMAIN r : k < l => Age(r[k].id) < Age(r[l].id)
  BY <1>9 DEF Lists
<1> QED
  BY <1>6, <1>7, <1>8, <1>9 DEF shown

\* The table and requests of comments keep their types; no comment is twice in
\* the thread.
THEOREM CommentsTypeCorrect ==
  ASSUME NoCard \notin Cards
  PROVE  C!Spec => []C!TypeOK
<1>1. PInv => C!TypeOK
  BY DEF PInv
<1> QED
  BY PostsInvariant, <1>1, PTL

\* ListByCard shows what ThreadsShown says, after any number of creations,
\* answers and deletions: what buildCommentTree makes of comments that are
\* younger than what they answer.
THEOREM ThreadsAreShown ==
  ASSUME NoCard \notin Cards, NoComment \notin Comments
  PROVE  C!Spec => []C!ThreadsShown
<1>1. PInv => C!ThreadsShown
  BY ThreadsShownNow
<1> QED
  BY PostsInvariant, <1>1, PTL

\* A mention is sent once, not to the author, and only to somebody who had
\* access since the comment was there, whoever joins and leaves meanwhile.
THEOREM MentionsReachMembers ==
  ASSUME NoCard \notin Cards
  PROVE  C!Spec => []C!MentionsReach
<1>1. PInv => C!MentionsReach
  BY DEF PInv, PostsFit, PostFits, C!MentionsReach
<1> QED
  BY PostsInvariant, <1>1, PTL

\* A deleted comment is not changed any more, although an edit that found it
\* alive may be in flight.
THEOREM DeletionLasts ==
  ASSUME NoCard \notin Cards
  PROVE  C!Spec => C!DeletedIsFinal
<1> DEFINE A == \A c \in gone : c \in gone' /\ (c \in edited' => c \in edited)
<1>1. PInv /\ [C!Next]_(C!vars) => A
  <2> SUFFICES ASSUME PInv, [C!Next]_(C!vars)
               PROVE  A
    OBVIOUS
  <2>1. CASE UNCHANGED <<gone, edited>>
    BY <2>1
  <2>2. CASE ~UNCHANGED <<gone, edited>>
    <3>1. \E w \in Workers : C!Change(w)
      BY <2>2 DEF C!Next, C!vars, C!table, C!StartCreate, C!StartChange, C!Insert,
             C!FindMentioned, C!NotifyMention, C!MentionsDone, C!Fails, C!MembersChange
    <3> QED
      BY <3>1, PostChange
  <2> QED
    BY <2>1, <2>2
<1>2. PInv /\ [C!Next]_(C!vars) => [A]_(C!vars)
  BY <1>1
<1> QED
  BY PostsInvariant, <1>2, PTL DEF C!Spec, C!DeletedIsFinal
=============================================================================
