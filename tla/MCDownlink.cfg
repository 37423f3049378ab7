SPECIFICATION FairSpec
CONSTANTS
    t1 = t1 t2 = t2 d1 = d1 d2 = d2
    None = None
    Transfers <- OneTwo
    Dest <- MCDest
    Size <- MCSize
    Outcomes = {"ok", "denied", "failed"}
    Lossy = {"DATA", "END", "CANCEL"}
    MaxLosses = 3
INVARIANTS
    TypeOK
    OneOpenFile
    HolesNoticed
    NoMixing
PROPERTIES
    TimedCloses
CHECK_DEADLOCK FALSE
