SPECIFICATION Spec
CONSTANTS
    Workers = {w1, w2}
    Users = {alice, bob}
    Orgs = {acme, zeta}
    Boards = {b1, b2}
    NoUser = NoUser
    NoOrg = NoOrg
    NoBoard = NoBoard
SYMMETRY Interchangeable

INVARIANT TypeOK
PROPERTY KeepsItsFounder
PROPERTY OwnersDemotedByOthers
PROPERTY RemovedStaysOut
