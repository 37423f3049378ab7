SPECIFICATION Spec
CONSTANTS
    None = None
    Streams <- MCStreams
    Sizes = {3, 5, 7}
    MaxPackets = 4
    FieldSize = 3
    HeaderSize = 2
    Period = 3
    MaxPacket = 7
    Misread = 3
    Kinds = {"data", "idle", "bad"}
    MaxGap = 3
INVARIANTS
    TypeOK
    Reassembled
CHECK_DEADLOCK FALSE
