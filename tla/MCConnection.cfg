SPECIFICATION Spec
CONSTANTS
    MaxData = 3
    ISS <- MCISS
    DupKinds = {"ACK"}
INVARIANTS
    NoHalfOpen
    SequencesAgree
    EndsOnlyByClose
PROPERTY
    AllAcknowledged
CHECK_DEADLOCK FALSE
