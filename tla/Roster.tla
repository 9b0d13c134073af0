------------------------------- MODULE Roster -------------------------------
(***************************************************************************)
(* What a membership table promises, whatever requests run against it: a   *)
(* group has one owner, the user that founded it; the owner's membership   *)
(* is there before any other and is never changed; every other membership  *)
(* is created, changed and deleted one at a time.                          *)
(***************************************************************************)
CONSTANTS Groups, Users, NoUser,
          Ranks     \* the roles other than "owner"

VARIABLES owner,    \* owner[g]: the owner_id of group g, NoUser: no such group
          role      \* role[g][u]: the role of u in g, "none": not a member

RosterInit ==
    /\ owner = [g \in Groups |-> NoUser]
    /\ role = [g \in Groups |-> [u \in Users |-> "none"]]

\* The founder of g is a member.
Seated(g) == \E u \in Users : u = owner[g] /\ role[g][u] = "owner"

Found(g, u) ==
    /\ owner[g] = NoUser
    /\ owner' = [owner EXCEPT ![g] = u]
    /\ UNCHANGED role

\* The owner's membership; it follows, or never comes if the request dies.
Seat(g) ==
    /\ \E u \in Users : /\ u = owner[g]
                        /\ role' = [role EXCEPT ![g][u] = "owner"]
    /\ UNCHANGED owner

\* u joins, changes role or goes.
Assign(g, u, r) ==
    /\ Seated(g)
    /\ u # owner[g]
    /\ role' = [role EXCEPT ![g][u] = r]
    /\ UNCHANGED owner

RosterNext ==
    \E g \in Groups :
        \/ Seat(g)
        \/ \E u \in Users : Found(g, u) \/ \E r \in Ranks \cup {"none"} :
                                               Assign(g, u, r)

RosterSpec == RosterInit /\ [][RosterNext]_<<owner, role>>
=============================================================================
