-------------------------------- MODULE Feed --------------------------------
(***************************************************************************)
(* What the notification stream promises to a client, whatever goes on     *)
(* inside the server: a client is shown notifications that were stored,    *)
(* addressed to its user, each at most once, and none after its connection *)
(* is over.  It is not promised all of them: the table is what a client    *)
(* that missed some asks.                                                  *)
(***************************************************************************)
EXTENDS Naturals, Sequences

CONSTANTS Users, Streams, Notifications, Nobody

VARIABLES
    addressee,  \* addressee[n]: whom notification n is for, Nobody: not stored
    viewer,     \* viewer[s]: the user at client s, Nobody: not connected yet
    over,       \* clients whose connection is over
    shown       \* shown[s]: what client s was shown, in this order

feed == <<addressee, viewer, over, shown>>

FeedInit ==
    /\ addressee = [n \in Notifications |-> Nobody]
    /\ viewer = [s \in Streams |-> Nobody]
    /\ over = {}
    /\ shown = [s \in Streams |-> <<>>]

Store(n, u) ==
    /\ addressee[n] = Nobody
    /\ addressee' = [addressee EXCEPT ![n] = u]
    /\ UNCHANGED <<viewer, over, shown>>

Connect(s, u) ==
    /\ viewer[s] = Nobody
    /\ viewer' = [viewer EXCEPT ![s] = u]
    /\ UNCHANGED <<addressee, over, shown>>

Show(s, n) ==
    /\ viewer[s] # Nobody /\ addressee[n] = viewer[s]
    /\ s \notin over
    /\ \A i \in 1..Len(shown[s]) : shown[s][i] # n
    /\ shown' = [shown EXCEPT ![s] = Append(shown[s], n)]
    /\ UNCHANGED <<addressee, viewer, over>>

End(ended) ==
    /\ over' = over \cup ended
    /\ UNCHANGED <<addressee, viewer, shown>>

FeedNext ==
    \/ \E n \in Notifications, u \in Users : Store(n, u)
    \/ \E s \in Streams, u \in Users : Connect(s, u)
    \/ \E s \in Streams, n \in Notifications : Show(s, n)
    \/ \E ended \in SUBSET Streams : End(ended)

FeedSpec == FeedInit /\ [][FeedNext]_feed
=============================================================================
