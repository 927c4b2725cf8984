\* An int of 10 bits and an int64_t of 20 stand for 32 and 64: 100 times the
\* image overflows the one and not the other.  The chunks reach 298 of the 300
\* bytes, where a percentage rounded up would already be 100; the intervals
\* against chunks of 0, 0.6 and 1 ms fall on, between and at the throttle's edge.
CONSTANTS
    Intervals = {0, 1, 2}
    ImageSize = 300
    ChunkSizes = {0, 148, 150}
    ChunkTimes = {0, 600, 1000}
    Horizon = 5000
    IntMax = 511
    LongMax = 524287
SPECIFICATION Spec
INVARIANTS
    TypeOK
    PercentHonest
    SilenceBounded
    LastWord
PROPERTIES
    GapKept
