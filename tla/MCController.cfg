SPECIFICATION FairSpec
CONSTANTS
    THRESHOLD = 70
    Tilts <- ThreeTilts
    MaxAge = 3
INVARIANTS KTypeOK TiltFollowed ButtonsTogether ButtonsNotBehind
PROPERTY ReleaseSeen
