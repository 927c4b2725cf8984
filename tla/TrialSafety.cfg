\* Three tasks, so that two can race in trial_begin() while a third confirms;
\* no factory partition, which would always be there to go back to.  No
\* symmetry: it is unsound with liveness.
CONSTANTS
    Tasks = {t1, t2, t3}
    NumSlots = 3
    HasFactory = FALSE
SPECIFICATION FairSpec
INVARIANTS
    TypeOK
    TrialHasWayBack
    StartsARealTimer
PROPERTIES
    OnlyTheAdmittedRace
    WindowEndsTrial
