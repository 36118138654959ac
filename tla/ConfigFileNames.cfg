CONSTANTS
    Processes = {a}
    dev = dev
    odd = odd
    s1 = s1
    s2 = s2
    v1 = v1
    v2 = v2
    Default = default
    Unknown = Unknown
    Absent = Absent
    Profiles = {default, dev, odd}
    Settings = {s1, s2}
    Values = {v1, v2}
    Awkward = {}
    Commands <- MCCommands
    Files <- MCFiles
    Ends <- MCEnds
SPECIFICATION Spec
INVARIANT ReadsWhatItWrote
CHECK_DEADLOCK FALSE
