SPECIFICATION FairSpec
CONSTANTS
    Articles = {1, 2, 3}
    MediaOnly = {1}
    PostedAt <- NewestFirst
    Importance <- Answers
    Unanswerable = {}
    Unsendable = {3}
    MinImportance = 2
    RetryLimit = 3
    PublishLimit = 2
    MaxFaults = 2
CHECK_DEADLOCK FALSE
INVARIANTS
    TypeOK
    CopiesAreExplained
    CopiesBounded
    LogMatchesStatus
    ReopenedAtMostOnce
    MediaOnlyIsLeftAlone
    PathsDecideAlike
PROPERTIES
    TextIsSummarized
    
    ImplementsArticleLife
