CONSTANTS
    Tasks = {t1, t2}
    NumSlots = 2
    HasFactory = FALSE
    ImageChunks = 1
SYMMETRY TaskSymmetry
SPECIFICATION Spec
PROPERTY
    AcceptedAbortStops
