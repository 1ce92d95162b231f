\* A gc whose passphrase is mistyped.
SPECIFICATION KeysSpec
CONSTANTS
    Key = {master, mistyped}
    Device = {d1}
    Command = {k1}
    Threshold = 2
    ShareCount = 2
    MaxSlots = 1
    MaxSplits = 1
    MaxGenerations = 2
    Nothing = Nothing
    Torn = Torn
    KeyFaults = {}
INVARIANTS
    ReachableKept
CHECK_DEADLOCK FALSE
