SPECIFICATION Spec
CONSTANTS
    Disk = {d}
    Offset <- Offsets
    Length <- Lengths
    Request <- Requests
    MaxExtents = 4
CHECK_DEADLOCK FALSE
INVARIANTS TypeOK PiecesInExtents AnswerExact BytesExact
