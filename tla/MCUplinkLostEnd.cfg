SPECIFICATION FairSpec
CONSTANTS
    f1 = f1 f2 = f2 f3 = f3 p1 = p1 p2 = p2 c1 = c1 c2 = c2
    Files = {f1, f2}
    NoFile = NoFile
    NoPath = NoPath
    Paths <- MCPaths
    Source <- MCSource
    Size <- MCSize
    Plan <- MCPlan
    Clients = {c1}
    Ops = {"enqueue"}
    MaxOps = 0
    MaxLosses = 1
    Lossy = {"END"}
    Preempt = FALSE
PROPERTIES
    TimeoutFinishes
CHECK_DEADLOCK FALSE
