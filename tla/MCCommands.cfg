SPECIFICATION Spec
CONSTANTS
    admin = admin
    guest = guest
    t1 = t1
    t2 = t2
    Users = {admin, guest}
    Admins = {admin}
    Channels = {"c"}
    Tasks = {t1, t2}
    NoUpdate = NoUpdate
    Gap = 1
    MaxTime = 3
    MaxRestarts = 1
SYMMETRY TaskSymmetry
INVARIANTS
    TypeOK
    ThrottleHolds
    CountIsExact
    SwitchIsSerial
    AddIsNeverLost
PROPERTY ImplementsSourceTable
CHECK_DEADLOCK FALSE
