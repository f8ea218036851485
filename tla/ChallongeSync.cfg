SPECIFICATION FairSpec
CONSTANTS
    Manuals = {m1}
    Fixtures = {f1}
    Handled = {f1}
    SyncEvery = 1
    LeaseTime = 2
    StaffTargets = {"ready"}
    MaxVersion = 3
    MaxFaults = 1
CONSTRAINT OneSyncInHand
INVARIANT TypeOK
INVARIANT RowsFromBracket
PROPERTY NeverBackwards
PROPERTY FixturesConverge
