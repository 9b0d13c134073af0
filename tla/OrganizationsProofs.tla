------------------------ MODULE OrganizationsProofs ------------------------
(***************************************************************************)
(* Proofs about Organizations, for any number of workers, users and        *)
(* workspaces: type correctness, that a workspace keeps exactly one owner, *)
(* that the requests implement Roster, and that a removed member does not  *)
(* come back uninvited.                                                    *)
(***************************************************************************)
EXTENDS Organizations, TLAPS

\* The founder of o holds its owner's membership.
Owned(o) == ownerId[o] \in Users /\ role[o][ownerId[o]] = "owner"

\* The owner of o is the only one, and there when anybody is.
OwnerOK(o) ==
    \A u \in Users : /\ role[o][u] = "owner" => u = ownerId[o]
                     /\ role[o][u] # "none" => Owned(o)

\* What is known of a request from the step it has reached: a workspace that
\* waits for its owner's membership, or one that has it ...
PlaceOK(r) ==
    /\ r.pc = "addOwner" => /\ r.org \in Orgs /\ r.actor \in Users
                            /\ ownerId[r.org] = r.actor
    /\ r.pc \in {"findTarget", "write"}
          => /\ r.org \in Orgs /\ r.target \in Users
             /\ Owned(r.org) /\ r.op # "create"

\* ... and a target that is not the owner.
TargetOK(r) ==
    /\ r.pc = "write" /\ r.op # "delete" => r.target # ownerId[r.org]
    /\ r.pc = "addOwner" => r.op = "create"

\* The inductive invariant.
IInv ==
    /\ TypeOK
    /\ \A o \in Orgs : OwnerOK(o)
    /\ \A w \in Workers : PlaceOK(req[w]) /\ TargetOK(req[w])

-----------------------------------------------------------------------------
LEMMA IdleType == Idle \in Requests /\ Idle.pc = "idle"
BY DEF Idle, Requests, Ops, Ranks, Roles

\* What Step does to the requests.
LEMMA StepEffect ==
    ASSUME TypeOK, NEW w \in Workers,
           NEW to \in {"idle", "addOwner", "findTarget", "write"}, Step(w, to)
    PROVE  /\ req' \in [Workers -> Requests]
           /\ req'[w].pc = to
           /\ to # "idle" => req'[w] = [req[w] EXCEPT !.pc = to]
           /\ to = "idle" => req'[w] = Idle
           /\ \A v \in Workers \ {w} : req'[v] = req[v]
<1>1. [req[w] EXCEPT !.pc = to] \in Requests
  BY DEF TypeOK, Requests
<1>2. [req[w] EXCEPT !.pc = to].pc = to
  BY DEF TypeOK, Requests
<1>3. QED
  BY <1>1, <1>2, IdleType DEF TypeOK, Step

\* A request passes the check on its actor only if the actor is a member, and
\* a leave only if the actor is not the owner.
LEMMA StartNeedsMember ==
    ASSUME NEW op \in Ops, NEW mine \in Roles, MayStart(op, mine)
    PROVE  mine # "none" /\ op # "create" /\ (op = "leave" => mine # "owner")
<1>1. Level("none") = 0 /\ Level("admin") = 2
  BY DEF Level
<1>2. QED
  BY <1>1 DEF MayStart, HasPermission, Ops

LEMMA WrittenType ==
    ASSUME NEW op \in Ops \ {"create", "delete"}, NEW rank \in Ranks,
           NEW old \in Roles
    PROVE  /\ Written(op, rank, old) \in Ranks \cup {"none", old}
           /\ old = "none" /\ Written(op, rank, old) # "none"
                 => op = "invite"
           /\ Written(op, rank, old) = "owner" => old = "owner"
BY DEF Written, Ops, Ranks, Roles

-----------------------------------------------------------------------------
LEMMA InvInit == Init => IInv
<1> SUFFICES ASSUME Init PROVE IInv
  OBVIOUS
<1>1. TypeOK
  BY IdleType DEF Init, TypeOK, Roles
<1>2. ASSUME NEW o \in Orgs PROVE OwnerOK(o)
  BY DEF Init, OwnerOK
<1>3. ASSUME NEW w \in Workers PROVE PlaceOK(req[w]) /\ TargetOK(req[w])
  BY IdleType DEF Init, PlaceOK, TargetOK
<1>4. QED
  BY <1>1, <1>2, <1>3 DEF IInv

\* A step that changes no role and no owner keeps what is known of the
\* workspaces and of the requests it leaves alone.
LEMMA RolesUnchanged ==
    ASSUME IInv, UNCHANGED <<ownerId, role>>
    PROVE  /\ \A o \in Orgs : OwnerOK(o)'
           /\ \A r : PlaceOK(r) => PlaceOK(r)'
           /\ \A r : TargetOK(r) => TargetOK(r)'
BY DEF IInv, OwnerOK, Owned, PlaceOK, TargetOK

\* The same of a step that ends or forwards one request: only that request
\* is left to look at.
LEMMA OthersKept ==
    ASSUME IInv, UNCHANGED <<ownerId, role>>, NEW w \in Workers,
           req' \in [Workers -> Requests], deleted' \in SUBSET Orgs,
           \A v \in Workers \ {w} : req'[v] = req[v],
           PlaceOK(req'[w]), TargetOK(req'[w])
    PROVE  IInv'
<1>1. TypeOK'
  BY DEF IInv, TypeOK
<1>2. \A o \in Orgs : OwnerOK(o)'
  BY RolesUnchanged
<1>3. ASSUME NEW v \in Workers PROVE PlaceOK(req'[v]) /\ TargetOK(req'[v])
  BY <1>3 DEF IInv
<1>4. ASSUME NEW v \in Workers PROVE (PlaceOK(req[v]) /\ TargetOK(req[v]))'
  BY <1>3, RolesUnchanged DEF PlaceOK, TargetOK, Owned
<1>5. QED
  BY <1>1, <1>2, <1>4 DEF IInv

LEMMA IdleOK == PlaceOK(Idle) /\ TargetOK(Idle)
BY IdleType DEF PlaceOK, TargetOK

LEMMA CreateStep ==
    ASSUME IInv, NEW w \in Workers, NEW o \in Orgs, NEW u \in Users,
           Create(w, o, u)
    PROVE  IInv'
<1> DEFINE r == [Idle EXCEPT !.pc = "addOwner", !.org = o, !.actor = u]
<1>1. /\ r \in Requests /\ r.pc = "addOwner" /\ r.org = o /\ r.actor = u
      /\ r.op = "create"
  BY DEF Idle, Requests, Ops, Ranks, Roles
<1>2. req' = [req EXCEPT ![w] = r]
  BY DEF Create
<1> HIDE DEF r
<1>3. /\ TypeOK' /\ req'[w] = r
      /\ \A v \in Workers \ {w} : req'[v] = req[v]
  BY <1>1, <1>2 DEF IInv, TypeOK, Create
<1>4. /\ ownerId'[o] = u /\ ownerId[o] \notin Users
      /\ \A p \in Orgs \ {o} : ownerId'[p] = ownerId[p]
  BY NullAssumption DEF IInv, TypeOK, Create
<1>5. role' = role /\ ~Owned(o)
  BY <1>4 DEF Create, Owned
<1>6. ASSUME NEW p \in Orgs PROVE OwnerOK(p)'
  BY <1>4, <1>5 DEF IInv, OwnerOK, Owned
<1>7. ASSUME NEW v \in Workers PROVE PlaceOK(req[v])'
  <2>1. CASE v = w
    BY <2>1, <1>1, <1>3, <1>4 DEF PlaceOK
  <2>2. CASE v # w
    BY <2>2, <1>3, <1>4, <1>5 DEF IInv, PlaceOK, Owned
  <2>3. QED
    BY <2>1, <2>2
<1>8. ASSUME NEW v \in Workers PROVE TargetOK(req[v])'
  <2>1. CASE v = w
    BY <2>1, <1>1, <1>3 DEF TargetOK
  <2>2. CASE v # w
    BY <2>2, <1>3, <1>4, <1>5 DEF IInv, PlaceOK, TargetOK, Owned
  <2>3. QED
    BY <2>1, <2>2
<1>9. QED
  BY <1>3, <1>6, <1>7, <1>8 DEF IInv

\* A step that writes role x of user t in workspace o, and ends request w.
LEMMA WriteStep ==
    ASSUME IInv, NEW w \in Workers, NEW o \in Orgs, NEW t \in Users,
           NEW x \in Roles,
           role' = [role EXCEPT ![o][t] = x],
           Step(w, "idle"), UNCHANGED <<ownerId, deleted>>,
           \/ x = "owner" /\ t = ownerId[o]
           \/ x # "owner" /\ t # ownerId[o] /\ Owned(o)
    PROVE  IInv'
<1>1. /\ req' \in [Workers -> Requests] /\ req'[w] = Idle
      /\ \A v \in Workers \ {w} : req'[v] = req[v]
  BY StepEffect DEF IInv
<1>2. TypeOK'
  BY <1>1 DEF IInv, TypeOK
<1>3. /\ role'[o][t] = x
      /\ \A p \in Orgs, u \in Users :
            p # o \/ u # t => role'[p][u] = role[p][u]
  BY DEF IInv, TypeOK
<1>4. ASSUME NEW p \in Orgs, Owned(p) PROVE Owned(p)'
  BY <1>3, <1>4 DEF Owned
<1>5. Owned(o)'
  BY <1>3, <1>4 DEF Owned
<1>6. ASSUME NEW p \in Orgs PROVE OwnerOK(p)'
  BY <1>3, <1>4, <1>5 DEF IInv, OwnerOK
<1>7. ASSUME NEW v \in Workers PROVE PlaceOK(req[v])' /\ TargetOK(req[v])'
  <2>1. CASE v = w
    BY <2>1, <1>1, IdleType DEF PlaceOK, TargetOK
  <2>2. CASE v # w
    BY <2>2, <1>1, <1>4 DEF IInv, PlaceOK, TargetOK
  <2>3. QED
    BY <2>1, <2>2
<1>8. QED
  BY <1>2, <1>6, <1>7 DEF IInv

LEMMA AddOwnerStep ==
    ASSUME IInv, NEW w \in Workers, AddOwner(w) PROVE IInv'
<1>1. /\ req[w].org \in Orgs /\ req[w].actor \in Users
      /\ req[w].actor = ownerId[req[w].org]
  BY DEF IInv, PlaceOK, AddOwner
<1>2. QED
  BY <1>1, WriteStep DEF AddOwner, Roles

\* The write of a member changes somebody who is not the owner.
LEMMA WriteMemberEffect ==
    ASSUME IInv, NEW w \in Workers, WriteMember(w)
    PROVE  /\ req[w].org \in Orgs /\ req[w].target \in Users
           /\ Owned(req[w].org) /\ req[w].target # ownerId[req[w].org]
           /\ LET o == req[w].org
                  t == req[w].target
                  x == Written(req[w].op, req[w].rank, role[o][t])
              IN  /\ x \in Ranks \cup {"none"}
                  /\ role' = [role EXCEPT ![o][t] = x]
                  /\ role[o][t] = "none" /\ x # "none"
                        => req[w].op = "invite"
<1> DEFINE o == req[w].org
           t == req[w].target
           x == Written(req[w].op, req[w].rank, role[o][t])
<1>1. /\ o \in Orgs /\ t \in Users /\ Owned(o) /\ t # ownerId[o]
      /\ req[w].op \notin {"create", "delete"}
  BY DEF IInv, PlaceOK, TargetOK, WriteMember
<1>2. role[o][t] \in Roles /\ role[o][t] # "owner"
  BY <1>1 DEF IInv, TypeOK, OwnerOK
<1>3. req[w].op \in Ops \ {"create", "delete"} /\ req[w].rank \in Ranks
  BY <1>1 DEF IInv, TypeOK, Requests
<1>4. /\ x \in Ranks \cup {"none"}
      /\ role[o][t] = "none" /\ x # "none" => req[w].op = "invite"
  BY <1>2, <1>3, WrittenType DEF Ranks, Roles
<1>5. role' = [role EXCEPT ![o][t] = x]
  BY <1>1 DEF WriteMember, IInv, TypeOK
<1>6. QED
  BY <1>1, <1>4, <1>5

LEMMA WriteMemberStep ==
    ASSUME IInv, NEW w \in Workers, WriteMember(w) PROVE IInv'
<1> DEFINE o == req[w].org
           t == req[w].target
           x == Written(req[w].op, req[w].rank, role[o][t])
<1>1. /\ o \in Orgs /\ t \in Users /\ Owned(o) /\ t # ownerId[o]
      /\ x \in Ranks \cup {"none"} /\ role' = [role EXCEPT ![o][t] = x]
  BY WriteMemberEffect
<1>2. x \in Roles /\ x # "owner"
  BY <1>1 DEF Ranks, Roles
<1>3. Step(w, "idle") /\ UNCHANGED <<ownerId, deleted>>
  BY DEF WriteMember
<1> HIDE DEF x
<1>4. QED
  BY <1>1, <1>2, <1>3, WriteStep

LEMMA FindMemberStep ==
    ASSUME IInv, NEW w \in Workers, NEW op \in Ops, NEW o \in Orgs,
           NEW u \in Users, NEW t \in Users, NEW k \in Ranks,
           op = "leave" => t = u,
           FindMemberBySlug(w, op, o, u, t, k)
    PROVE  IInv'
<1> DEFINE r == [pc |-> IF op \in {"leave", "delete"} THEN "write"
                        ELSE "findTarget",
                 op |-> op, org |-> o, actor |-> u, target |-> t,
                 rank |-> k, mine |-> role[o][u]]
<1>1. role[o][u] \in Roles
  BY DEF IInv, TypeOK
<1>2. /\ r \in Requests /\ r.op = op /\ r.org = o /\ r.target = t
      /\ r.pc \in {"findTarget", "write"}
      /\ r.pc = "write" => op \in {"leave", "delete"}
  BY <1>1 DEF Requests
<1>3. req' = [req EXCEPT ![w] = r] /\ UNCHANGED <<ownerId, deleted, role>>
  BY DEF FindMemberBySlug
<1>4. /\ role[o][u] # "none" /\ op # "create"
      /\ op = "leave" => role[o][u] # "owner"
  BY <1>1, StartNeedsMember DEF FindMemberBySlug
<1>5. Owned(o) /\ (op = "leave" => u # ownerId[o])
  BY <1>4 DEF IInv, OwnerOK, Owned
<1> HIDE DEF r
<1>6. PlaceOK(r) /\ TargetOK(r)
  BY <1>2, <1>4, <1>5 DEF PlaceOK, TargetOK
<1>7. /\ req' \in [Workers -> Requests] /\ req'[w] = r
      /\ \A v \in Workers \ {w} : req'[v] = req[v]
  BY <1>2, <1>3 DEF IInv, TypeOK
<1>8. deleted' \in SUBSET Orgs
  BY <1>3 DEF IInv, TypeOK
<1>9. QED
  BY <1>3, <1>6, <1>7, <1>8, OthersKept

LEMMA FindTargetStep ==
    ASSUME IInv, NEW w \in Workers, FindTarget(w) PROVE IInv'
<1> DEFINE o == req[w].org
           t == req[w].target
           to == IF MayTouch(req[w].op, req[w].mine, role[o][t])
                 THEN "write" ELSE "idle"
<1>1. o \in Orgs /\ t \in Users /\ Owned(o) /\ req[w].op # "create"
  BY DEF IInv, PlaceOK, FindTarget
<1>2. Step(w, to) /\ UNCHANGED <<ownerId, deleted, role>>
  BY DEF FindTarget
<1>3. to = "write" => t # ownerId[o]
  BY <1>1 DEF MayTouch, Owned
<1>4. to \in {"idle", "write"}
  OBVIOUS
<1> HIDE DEF to
<1>5. /\ req' \in [Workers -> Requests]
      /\ to # "idle" => req'[w] = [req[w] EXCEPT !.pc = to]
      /\ to = "idle" => req'[w] = Idle
      /\ \A v \in Workers \ {w} : req'[v] = req[v]
  BY <1>2, <1>4, StepEffect DEF IInv
<1>6. PlaceOK(req'[w]) /\ TargetOK(req'[w])
  <2>1. CASE to = "idle"
    BY <2>1, <1>5, IdleOK
  <2>2. CASE to = "write"
    <3>1. /\ req'[w].pc = "write" /\ req'[w].org = o /\ req'[w].target = t
          /\ req'[w].op = req[w].op
      BY <2>2, <1>5 DEF IInv, TypeOK, Requests
    <3>2. QED
      BY <3>1, <2>2, <1>1, <1>3 DEF PlaceOK, TargetOK
  <2>3. QED
    BY <2>1, <2>2, <1>4
<1>7. deleted' \in SUBSET Orgs
  BY <1>2 DEF IInv, TypeOK
<1>8. QED
  BY <1>2, <1>5, <1>6, <1>7, OthersKept

LEMMA EndStep ==
    ASSUME IInv, NEW w \in Workers, SoftDelete(w) \/ Fails(w) PROVE IInv'
<1>1. Step(w, "idle") /\ UNCHANGED <<ownerId, role>>
  BY DEF SoftDelete, Fails
<1>2. req[w].pc = "write" => req[w].org \in Orgs
  BY DEF IInv, PlaceOK
<1>3. deleted' \in SUBSET Orgs
  BY <1>2 DEF IInv, TypeOK, SoftDelete, Fails
<1>4. /\ req' \in [Workers -> Requests] /\ req'[w] = Idle
      /\ \A v \in Workers \ {w} : req'[v] = req[v]
  BY <1>1, StepEffect DEF IInv
<1>5. QED
  BY <1>1, <1>3, <1>4, IdleOK, OthersKept

-----------------------------------------------------------------------------
LEMMA InvStep == IInv /\ [Next]_vars => IInv'
<1> SUFFICES ASSUME IInv, [Next]_vars PROVE IInv'
  OBVIOUS
<1>1. ASSUME NEW w \in Workers, NEW o \in Orgs, NEW u \in Users,
             Create(w, o, u)
      PROVE IInv'
  BY <1>1, CreateStep
<1>2. ASSUME NEW w \in Workers, NEW o \in Orgs, NEW u \in Users,
             NEW t \in Users, NEW r \in Ranks, NEW op \in {"invite", "setRole"},
             FindMemberBySlug(w, op, o, u, t, r)
      PROVE IInv'
  BY <1>2, FindMemberStep DEF Ops
<1>3. ASSUME NEW w \in Workers, NEW o \in Orgs, NEW u \in Users,
             NEW t \in Users, FindMemberBySlug(w, "remove", o, u, t, "member")
      PROVE IInv'
  BY <1>3, FindMemberStep DEF Ops, Ranks
<1>4. ASSUME NEW w \in Workers, NEW o \in Orgs, NEW u \in Users,
             NEW op \in {"leave", "delete"},
             FindMemberBySlug(w, op, o, u, u, "member")
      PROVE IInv'
  BY <1>4, FindMemberStep DEF Ops, Ranks
<1>5. ASSUME NEW w \in Workers,
             AddOwner(w) \/ FindTarget(w) \/ WriteMember(w)
                \/ SoftDelete(w) \/ Fails(w)
      PROVE IInv'
  BY <1>5, AddOwnerStep, FindTargetStep, WriteMemberStep, EndStep
<1>6. CASE UNCHANGED vars
  BY <1>6 DEF vars, IInv, TypeOK, OwnerOK, Owned, PlaceOK, TargetOK
<1>7. QED
  BY <1>1, <1>2, <1>3, <1>4, <1>5, <1>6 DEF Next

\* The inductive invariant holds throughout.
THEOREM Invariance == Spec => []IInv
<1>1. QED
  BY InvInit, InvStep, PTL DEF Spec

\* Every state of the workspaces and their requests has its type.
THEOREM TypeCorrect == Spec => []TypeOK
<1>1. IInv => TypeOK
  BY DEF IInv
<1>2. QED
  BY <1>1, Invariance, PTL

\* A workspace with members has exactly one owner, who created it, whatever
\* requests interleave and die on the way.
THEOREM OwnerStays == Spec => []OneOwner
<1>1. IInv => OneOwner
  BY DEF IInv, OwnerOK, Owned, OneOwner, R!Seated
<1>2. QED
  BY <1>1, Invariance, PTL

\* The requests of organization_service.go implement the abstract roster.
THEOREM ImplementsRoster == Spec => KeepsItsOwner
<1>1. Init => R!RosterInit
  BY DEF Init, R!RosterInit
<1>2. IInv /\ [Next]_vars => [R!RosterNext]_<<ownerId, role>>
  <2> SUFFICES ASSUME IInv, [Next]_vars, ~UNCHANGED <<ownerId, role>>
               PROVE  R!RosterNext
    OBVIOUS
  <2>1. ASSUME NEW w \in Workers, NEW o \in Orgs, NEW u \in Users,
               Create(w, o, u)
        PROVE R!RosterNext
    BY <2>1 DEF Create, R!RosterNext, R!Found
  <2>2. ASSUME NEW w \in Workers, AddOwner(w) PROVE R!RosterNext
    BY <2>2 DEF AddOwner, IInv, PlaceOK, R!RosterNext, R!Seat
  <2>3. ASSUME NEW w \in Workers, WriteMember(w) PROVE R!RosterNext
    <3>1. UNCHANGED ownerId
      BY <2>3 DEF WriteMember
    <3>2. PICK x \in Ranks \cup {"none"} :
             role' = [role EXCEPT ![req[w].org][req[w].target] = x]
      BY <2>3, WriteMemberEffect
    <3>3. QED
      BY <2>3, <3>1, <3>2, WriteMemberEffect
         DEF Owned, R!RosterNext, R!Assign, R!Seated
  <2>4. QED
    BY <2>1, <2>2, <2>3
       DEF Next, vars, FindMemberBySlug, FindTarget, SoftDelete, Fails
<1>3. QED
  BY <1>1, <1>2, Invariance, PTL DEF Spec, KeepsItsOwner, R!RosterSpec

\* Who left or was removed comes back only by a new invitation.
THEOREM RemovalLasts == Spec => RemovedStaysOut
<1> DEFINE Back == \A o \in Orgs, u \in Users :
                     role[o][u] = "none" /\ role'[o][u] # "none" =>
                       \E w \in Workers :
                          /\ req[w].org = o /\ req[w].op \in {"create", "invite"}
                          /\ req'[w] = Idle
<1>1. IInv /\ [Next]_vars => [Back]_vars
  <2> SUFFICES ASSUME IInv, Next, NEW o \in Orgs, NEW u \in Users,
                      role[o][u] = "none", role'[o][u] # "none"
               PROVE  \E w \in Workers :
                        /\ req[w].org = o /\ req[w].op \in {"create", "invite"}
                        /\ req'[w] = Idle
    OBVIOUS
  <2>1. PICK w \in Workers : AddOwner(w) \/ WriteMember(w)
    BY DEF Next, Create, FindMemberBySlug, FindTarget, SoftDelete, Fails
  <2>2. req'[w] = Idle
    BY <2>1, StepEffect DEF IInv, AddOwner, WriteMember
  <2>3. CASE AddOwner(w)
    <3>1. req[w].org = o /\ req[w].op = "create"
      BY <2>3 DEF AddOwner, IInv, TypeOK, PlaceOK, TargetOK
    <3>2. QED
      BY <3>1, <2>2
  <2>4. CASE WriteMember(w)
    <3> DEFINE p == req[w].org
               t == req[w].target
               x == Written(req[w].op, req[w].rank, role[p][t])
    <3>1. /\ p \in Orgs /\ t \in Users
          /\ role' = [role EXCEPT ![p][t] = x]
          /\ role[p][t] = "none" /\ x # "none" => req[w].op = "invite"
      BY <2>4, WriteMemberEffect
    <3> HIDE DEF x
    <3>2. p = o /\ t = u /\ x # "none"
      BY <3>1 DEF IInv, TypeOK
    <3>3. QED
      BY <3>1, <3>2, <2>2
  <2>5. QED
    BY <2>1, <2>3, <2>4
<1>2. QED
  BY <1>1, Invariance, PTL DEF Spec, RemovedStaysOut
=============================================================================
