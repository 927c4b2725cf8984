\* Two tasks; a factory partition, outside the rotation, and two OTA slots (more
\* would only lengthen the rotation: two already make it wrap); an image of two
\* chunks, so that an abort can fall before, between and after them.
CONSTANTS
    Tasks = {t1, t2}
    NumSlots = 2
    HasFactory = TRUE
    ImageChunks = 2
SYMMETRY TaskSymmetry
SPECIFICATION Spec
INVARIANTS
    TypeOK
    OneUpdateAtATime
    HandleDiscipline
    AbortLatency
    AbortHitsItsOwnUpdate
    NeverStranded
PROPERTIES
    CommitIsEarned
    PromiseKept
    ContractKept
