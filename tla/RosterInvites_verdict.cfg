SPECIFICATION Spec
CONSTANTS
    People = {p1, p2}
    Regs = {r1}
    NoReg = none
    Nobody = nobody
    AutoApprove = TRUE
    StaffTargets = {}
    HandVerdicts = {}
INVARIANT VerdictFollowsAnswers
