SPECIFICATION Spec
CONSTANTS
    Regs = {r1, r2}
    NoReg = nobody
    MaxTeams = 1
    Unlimited = FALSE
    WaitlistEnabled = FALSE
    FeeCharged = TRUE
    TeamEntry = FALSE
    Provider = "bank_transfer"
    AutoApprove = FALSE
    HoldTime = 1
    ReviewTime = 1
    Reports = {}
    StaffTargets = {}
    StaffVerdicts = {}
    MaxPayments = 2
    MaxPosition = 3
SYMMETRY RegSymmetry
PROPERTY WaiverWithinCapacity
