SPECIFICATION Spec
CONSTANTS
    Workers = {w1, w2}
    Users = {alice}
    Pairs = {p1, p2}
    NoUser = NoUser
    NoPair = NoPair
    AccessTTL = 2
    RefreshTTL = 1
    TvaTTL = 2
    Exps = {1}
    MaxTime = 2
SYMMETRY Interchangeable
INVARIANT TypeOK
INVARIANT RotatedOut
PROPERTY CutsOff
PROPERTY StaysCutOff
PROPERTY LoggedOutRefused
