SPECIFICATION ReadFailureSpec
CONSTANTS
    Content = {z, a}
    Zeroes = z
    NumPages = 2
    ClockMod = 4
    NoPage = NoPage
    MaxBlocks = 3
CHECK_DEADLOCK FALSE
INVARIANT CleanMatchesDisk
