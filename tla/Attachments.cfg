SPECIFICATION Spec
CONSTANTS
    Workers = {w1, w2, w3}
    Cards = {c1, c2}
    Attachments = {a1, a2, a3}
    NoCard = NoCard
    NoAttachment = NoAttachment
SYMMETRY Interchangeable
INVARIANT TypeOK
INVARIANT FileBehindRow
INVARIANT CoverIsFlagged
INVARIANT OneCover
