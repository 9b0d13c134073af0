\* The request that founds the only workspace may die half way: nothing is
\* left to do then, as after a deletion.
CHECK_DEADLOCK FALSE
SPECIFICATION Spec
CONSTANTS
    Workers = {w1, w2, w3}
    Users = {alice, bob, carol}
    Orgs = {acme}
    NoUser = NoUser
    NoOrg = NoOrg
SYMMETRY Interchangeable
INVARIANT TypeOK
INVARIANT OneOwner
PROPERTY KeepsItsOwner
PROPERTY RemovedStaysOut
