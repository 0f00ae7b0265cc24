SPECIFICATION Spec
CONSTANTS
    a = a
    b = b
    x = x
    t1 = t1
    t2 = t2
    t3 = t3
    NoText = NoText
    NoRow = NoRow
    NoBatch = NoBatch
    Sources = {a, b}
    MsgIds = {1, 2, 3, 4}
    Texts = {x}
    Content <- MCContent
    Batches <- MCBatches
    Tasks = {t1, t2, t3}
    Concurrency = 2
SYMMETRY TaskSymmetry
INVARIANTS
    TypeOK
    PermitsConserved
    CacheIsTruthful
    DoneIsSettled
    ContentStoredOnce
    WatermarkIsSettled
PROPERTIES
    ImplementsLedger
    ServesReader
