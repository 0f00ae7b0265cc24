SPECIFICATION Spec
CONSTANTS
    x = x
    y = y
    AlbumIds = {1, 2}
    NoText = NoText
    NoRow = NoRow
    NoGroup = NoGroup
    Sources = {1}
    MsgIds = {1, 2, 3}
    Texts = {x, y}
    Groups = {"g"}
    Content <- MCContent
    Batches <- MCBatches
    GroupOf <- MCGroupOf
    Lookback = 3
    MaxFaults = 0
    MaxToggles = 0
INVARIANTS
    TypeOK
    NothingSkipped
