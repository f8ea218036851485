SPECIFICATION Spec
CONSTANTS
    People = {p1, p2}
    Regs = {r1, r2}
    NoReg = none
    Nobody = nobody
    AutoApprove = TRUE
    StaffTargets = {"rejected"}
    HandVerdicts = {"verified"}
SYMMETRY RosterSymmetry
CONSTRAINT SecondIsPlain
INVARIANT TypeOK
INVARIANT VerifiedMeansAccepted
PROPERTY SeatKept
PROPERTY DecisionsStand
