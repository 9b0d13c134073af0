----------------------------- MODULE BoardRoster -----------------------------
(***************************************************************************)
(* What the memberships of a board promise, whatever requests run against  *)
(* them.  A board is founded, and before anybody else has a role its       *)
(* founder is seated as the owner, or never will be.  There is no other    *)
(* way to become owner, and an owner is neither removed nor replaced: the  *)
(* one thing that can happen to an owner is to be demoted, for good.       *)
(*                                                                         *)
(* It differs from Roster, where the owner's membership never changes.     *)
(***************************************************************************)
CONSTANTS Boards, Users, NoUser,
          Ranks     \* the roles other than "owner"

VARIABLES founder,  \* founder[b]: the user who created b, NoUser: nobody yet
          stage,    \* stage[b]: "none", "founded" or, from then on, "open"
          role      \* role[b][u]: the role of u on b, "none": not a member

BoardRosterInit ==
    /\ founder = [b \in Boards |-> NoUser]
    /\ stage = [b \in Boards |-> "none"]
    /\ role = [b \in Boards |-> [u \in Users |-> "none"]]

Found(b, u) ==
    /\ stage[b] = "none"
    /\ founder' = [founder EXCEPT ![b] = u]
    /\ stage' = [stage EXCEPT ![b] = "founded"]
    /\ UNCHANGED role

\* Nobody has a role on b, and the founder gets the owner's.
Seat(b) ==
    /\ stage[b] = "founded"
    /\ role[b] = [u \in Users |-> "none"]
    /\ stage' = [stage EXCEPT ![b] = "open"]
    /\ role' = [role EXCEPT ![b][founder[b]] = "owner"]
    /\ UNCHANGED founder

\* The founding is given up half way.
Abandon(b) ==
    /\ stage[b] = "founded"
    /\ stage' = [stage EXCEPT ![b] = "open"]
    /\ UNCHANGED <<founder, role>>

Demote(b, r) ==
    /\ stage[b] = "open"
    /\ role[b][founder[b]] = "owner"
    /\ role' = [role EXCEPT ![b][founder[b]] = r]
    /\ UNCHANGED <<founder, stage>>

\* u, who is not the owner, joins, changes role or goes.
Assign(b, u, r) ==
    /\ stage[b] = "open"
    /\ role[b][u] # "owner"
    /\ role' = [role EXCEPT ![b][u] = r]
    /\ UNCHANGED <<founder, stage>>

BoardRosterNext ==
    \E b \in Boards :
        \/ Seat(b) \/ Abandon(b)
        \/ \E u \in Users : Found(b, u)
        \/ \E r \in Ranks :
              \/ Demote(b, r)
              \/ \E u \in Users : Assign(b, u, r)
        \/ \E u \in Users : Assign(b, u, "none")

BoardRosterSpec == BoardRosterInit /\ [][BoardRosterNext]_<<founder, stage, role>>
=============================================================================
