\* Images of 0 to 6 bytes, fetched in requests of every size an unsigned number
\* of 4 bits has: those over 7 turn negative.
CONSTANTS
    MaxSize = 6
    IntMax = 7
    DefaultRequest = 4
SPECIFICATION Spec
INVARIANTS
    TypeOK
    RangeExact
    ImageReassembled
