SPECIFICATION Spec
CONSTANTS
    Workers = {w1, w2}
    Users = {alice}
    Strangers = {bob}
    Passwords = {p1, p2}
    Rows = {r1, r2}
    NoPassword = NoPassword
    NoUser = NoUser
    NoRow = NoRow
    Limited = {"resend"}
    MaxRequests = 1
    MaxAttempts = 1
INVARIANT TypeOK
INVARIANT VerifiedWasProved
INVARIANT StaysVerified
INVARIANT CountersEnd
SYMMETRY Interchangeable
