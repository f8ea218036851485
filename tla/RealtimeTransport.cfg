SPECIFICATION FairSpec
CONSTANTS
    s1 = s1
    s2 = s2
    s3 = s3
    Subs = {s1, s2, s3}
    NoSub = NoSub
    Poison = Poison
    Browsers = {b1, b2}
    ClientOf <- OneClient
    MaxTotal = 2
    MaxPerClient = 1
    MaxStarts = 2
    MaxFaults = 3
INVARIANT TypeOK
INVARIANT ReconnectNeverOverlaps
INVARIANT NothingMissed
INVARIANT StreamsAdmitted
PROPERTY Reconnects
