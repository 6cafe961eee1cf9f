SPECIFICATION FilesSpec
CONSTANTS
    p1 = p1
    p2 = p2
    w1 = w1
    w2 = w2
    Absent = Absent
    Damaged = Damaged
    Policies <- TwoPolicies
    Passphrases <- TwoPassphrases
    MaxCommands = 3
    MaxPairs = 4
    Machine <- TheMachine
    Today <- TheDay
    Mandatory <- TheKeys
    Wrong = Wrong
    ConfigTexts <- TheTexts
SYMMETRY Interchangeable
CHECK_DEADLOCK FALSE
INVARIANTS
    OldContentKept
    RefusedLeavesFiles
    StillOpens
    UpdatedPolicyChecks
    ReadsWhatWasWritten
    ParsesAsGrouped
    StartsAsTold
