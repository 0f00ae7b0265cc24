SPECIFICATION FairSpec
CONSTANTS
    x = x
    y = y
    AlbumIds = {}
    NoText = NoText
    NoRow = NoRow
    NoGroup = NoGroup
    Sources = {1}
    MsgIds = {1, 2}
    Texts = {x, y}
    Groups = {}
    Content <- MCContent
    Batches <- MCBatches
    GroupOf <- MCGroupOf
    Lookback = 1
    MaxFaults = 1
    MaxToggles = 1
PROPERTIES
    PulledOrPassed
    MapFollowsSwitch
