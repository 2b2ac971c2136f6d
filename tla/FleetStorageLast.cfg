SPECIFICATION Spec
CONSTANTS
    Server = {s1, s2}
    Blob = {b1}
    Backup = {}
    Nothing = nothing
    Factor = 2
    MaxLost = 0
    MaxCrashes = 0
PROPERTIES LastCopyKept
