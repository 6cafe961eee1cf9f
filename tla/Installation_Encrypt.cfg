SPECIFICATION Spec
CONSTANTS
    Absent = Absent
    Damaged = Damaged
    Policies = {p1, p2}
    Passphrases = {w1, w2}
    MaxCommands = 1
    MaxPairs = 4
CHECK_DEADLOCK FALSE
INVARIANT EveryOverwriteBackedUp
