SPECIFICATION FairSpec
CONSTANTS
    Account = {a1}
    Login = {p1, p2}
    MaxAttempts = 2
    LockDuration = 1
    WarningDays = 1
    InactivityDays = 3
INVARIANTS
    TypeOK
    LockNeedsWrongAttempts
PROPERTIES
    RegularUserKeepsAccess
    AbandonedAccountIsDisabled
