SPECIFICATION TableSpec
CONSTANTS
    severity = severity odd = odd NoFilter = NoFilter NoColumn = NoColumn
    MaxItems = 4
    Buffer = 3
    Count = 2
    Step = 1
    Columns = {severity}
    Cell <- MCCell
    Name <- MCName
    Matches <- MCMatches
    Hidden = {}
INVARIANT WindowNotEmpty
