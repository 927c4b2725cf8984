\* Both examples; two URLs tell whose the buffer is, two tasks let one that is
\* about to be deleted overlap with its successor.
CONSTANTS
    Tasks = {t1, t2}
    Urls = {u1, u2}
    TooLong = long
    Empty = empty
SPECIFICATION FairSpec
INVARIANTS
    TypeOK
    UrlStable
    StartsAlone
    SameVersionOnlyForced
    NoLostRequest
PROPERTIES
    ConsoleUnlocks
