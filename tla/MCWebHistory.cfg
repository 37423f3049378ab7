SPECIFICATION FairClient
CONSTANTS
    Sessions = {s1, s2}
    Overlapping = {s1}
    MaxThreads = 2
    NoRequest = NoRequest
    Open = {s1}
    Page = s1
    Startup = {session, dictionary}
    Session = session
    Limit = 1
    ClearTime = 1
    MaxObjects = 2
    MaxFaults = 1
    Kinds = {"clearing", "kept"}
INVARIANTS
    TypeOK
    ServedRight
    PollerSound
PROPERTIES
    ObjectsDrain
    PageFeed
