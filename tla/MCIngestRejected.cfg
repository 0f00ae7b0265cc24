SPECIFICATION Spec
CONSTANTS
    a = a
    b = b
    x = x
    t1 = t1
    t2 = t2
    t3 = t3
    NoText = NoText
    NoRow = NoRow
    NoBatch = NoBatch
    Sources = {a, b}
    MsgIds = {1, 2, 3, 4}
    Texts = {x}
    Content <- MCContent
    Batches <- MediaOnlyBatches
    Tasks = {t1, t2}
    Concurrency = 2
INVARIANT RejectedRepeatsText
