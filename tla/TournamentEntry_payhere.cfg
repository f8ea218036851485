SPECIFICATION Spec
CONSTANTS
    Regs = {r1, r2}
    NoReg = nobody
    MaxTeams = 1
    Unlimited = FALSE
    WaitlistEnabled = FALSE
    FeeCharged = TRUE
    TeamEntry = FALSE
    Provider = "payhere"
    AutoApprove = TRUE
    HoldTime = 1
    ReviewTime = 1
    Reports <- TwoCharges
    StaffTargets = {"rejected"}
    StaffVerdicts = {}
    MaxPayments = 2
    MaxPosition = 3
SYMMETRY RegSymmetry
INVARIANT TypeOK
INVARIANT PaidIsFunded
PROPERTY OnlyStaffOverfills
PROPERTY RefundStands
