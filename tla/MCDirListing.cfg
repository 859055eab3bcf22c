CONSTANTS
    NumEntries = 3
    Chunk = 5
    Cap = 2
SPECIFICATION Spec
INVARIANTS
    TypeOK
    NoGap
PROPERTIES
    ReplyAdvances
