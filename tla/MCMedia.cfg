SPECIFICATION Spec
CONSTANTS
    w1 = w1
    w2 = w2
    w3 = w3
    image = image
    video = video
    NoFile = NoFile
    NoMedia = NoMedia
    Workers = {w1, w2, w3}
    Files = {image, video}
    Images = {image}
    MaxDay = 1
SYMMETRY WorkerSymmetry
INVARIANTS
    TypeOK
    RowsHaveObjects
    ReturnedIsStored
