SPECIFICATION WireSpec
CONSTANTS
    nil = nil
    Request <- MCRequest
    Reply <- MCReply
    Probe <- MCProbe
    Input <- MCInput
CHECK_DEADLOCK FALSE
INVARIANTS
    DecodedExactly
    RequestUnderstood
    ReplyUnderstood
    ChecksumsRight
    ProbeHeard
PROPERTY DecodeEnds
