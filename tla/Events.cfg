SPECIFICATION FairSpec
CONSTANTS
    Workers = {w1, w2}
    Users = {alice, bob}
    Streams = {s1}
    Notifications = {n1, n2}
    Nobody = Nobody
    NoNote = NoNote
    Capacity = 1
INVARIANT TypeOK
INVARIANT SendsToClients
PROPERTY KeepsFeed
PROPERTY StreamsEnd
PROPERTY PushesArrive
