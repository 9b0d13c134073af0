SPECIFICATION Spec
CONSTANTS
    Workers = {w1, w2}
    Users = {alice, bob}
    Cards = {x, y}
    Comments = {c1, c2, c3}
    NoUser = NoUser
    NoCard = NoCard
    NoComment = NoComment
SYMMETRY Interchangeable
INVARIANT AnswersThreaded
