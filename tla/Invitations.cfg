SPECIFICATION Spec
CONSTANTS
    Workers = {w1, w2}
    Users = {alice, bob}
    Owner = alice
    NoUser = NoUser
    MaxInvs = 2
SYMMETRY Interchangeable
INVARIANT TypeOK
INVARIANT AcceptedWasAdmitted
PROPERTY ReplacedStaysGone
