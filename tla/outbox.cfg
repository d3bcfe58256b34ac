SPECIFICATION Spec
CONSTANTS
    x = x
    y = y
    Ids <- TwoIds
    Capacity = 4
    MaxDropped = 2
SYMMETRY Symmetry
INVARIANTS
    TypeOK
    RankOrdered
PROPERTY BuffersStatuses
