SPECIFICATION Spec
CONSTANTS
    Maps = {m1, m2, m3}
    Steps <- BestOfOne
    Staff = {referee}
    OrderMethods = {"toss", "staff_assignment"}
    TossMethods = {"digital"}
    ControlModes = {"captain_or_link"}
    FavouredSlot = 2
    MatchTargets = {"veto_in_progress"}
    Syncs = {sync}
    Upstream = {"scheduled"}
    FirstStatus = "scheduled"
    MaxRevision = 6
    MaxRooms = 1
SYMMETRY MapSymmetry
CONSTRAINT TwoInFlight
CHECK_DEADLOCK FALSE
INVARIANT TypeOK
 
 
PROPERTY MatchNotLeftWaiting
