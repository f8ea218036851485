SPECIFICATION FairSpec
CONSTANTS
    Regs = {r1, r2}
    NoReg = nobody
    MaxTeams = 1
    Unlimited = FALSE
    WaitlistEnabled = TRUE
    FeeCharged = TRUE
    TeamEntry = FALSE
    Provider = "payhere"
    AutoApprove = FALSE
    HoldTime = 2
    ReviewTime = 2
    Reports <- OneCharge
    StaffTargets = {"pending", "rejected", "waitlisted"}
    StaffVerdicts = {}
    MaxPayments = 1
    MaxPosition = 3
PROPERTY QueueOrderKept
PROPERTY ReservationsEnd
