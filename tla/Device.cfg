\* The examples' partition table: two slots, which the rotation wraps around,
\* and no factory partition that would always be there to go back to.
CONSTANTS
    NumSlots = 2
    HasFactory = FALSE
SPECIFICATION FairSpec
INVARIANTS
    TypeOK
    UpdatesOnlyConfirmed
    CommittedIsBooted
PROPERTIES
    TrialKept
    LifeKept
    TrialDecided
