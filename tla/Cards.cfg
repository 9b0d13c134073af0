SPECIFICATION Spec
CONSTANTS
    Workers = {w1, w2}
    Users = {alice}
    Boards = {b1, b2}
    Lists = {l1, l2}
    Cards = {c1, c2}
    Labels = {k1}
    NoBoard = NoBoard
    NoList = NoList
    NoCard = NoCard
    NoLabel = NoLabel
    NoUser = NoUser
    Roles = {"none", "admin"}
SYMMETRY Interchangeable
INVARIANT TypeOK
INVARIANT LabelsOfOwnBoard
PROPERTY CardsKeepTheirBoard
