CONSTANTS
    Tasks = {t1, t2}
    NumSlots = 2
    HasFactory = FALSE
SPECIFICATION FairSpec
PROPERTY
    SilenceGoesBack
