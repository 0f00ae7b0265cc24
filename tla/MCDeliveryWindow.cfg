SPECIFICATION FairSpec
CONSTANTS
    Articles = {1, 2}
    MediaOnly = {1}
    PostedAt <- NewestFirst
    Importance <- Answers
    Unanswerable = {}
    Unsendable = {}
    MinImportance = 2
    RetryLimit = 1
    PublishLimit = 2
    MaxFaults = 1
CHECK_DEADLOCK FALSE
PROPERTY TextIsSummarized
