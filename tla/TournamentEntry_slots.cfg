SPECIFICATION Spec
CONSTANTS
    Regs = {r1, r2}
    NoReg = nobody
    MaxTeams = 2
    Unlimited = FALSE
    WaitlistEnabled = FALSE
    FeeCharged = TRUE
    TeamEntry = TRUE
    Provider = "bank_transfer"
    AutoApprove = TRUE
    HoldTime = 1
    ReviewTime = 1
    Reports = {}
    StaffTargets = {}
    StaffVerdicts = {"verified"}
    MaxPayments = 2
    MaxPosition = 3
SYMMETRY RegSymmetry
PROPERTY SlotsStayApart
PROPERTY CompleteIsApproved
