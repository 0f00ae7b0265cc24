SPECIFICATION FairSpec
CONSTANTS
    album = album
    single = single
    Batches = {album, single}
    Albums = {album}
INVARIANTS
    TypeOK
    OnlyStragglersAreLate
    ReleasedForGood
    DrainIsComplete
PROPERTIES
    StopEnds
CHECK_DEADLOCK FALSE
