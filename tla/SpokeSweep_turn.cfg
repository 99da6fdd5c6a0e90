SPECIFICATION FairSpec
CONSTANTS
    Units = 24
    ZoneFirst = 10
    ZoneLast = 14
    Threshold = 1
    Advances = {0, 2, 3, 5}
INVARIANTS
    TypeOK
    OneRevolutionPerPicture
    NoPictureWithoutSpin
PROPERTIES
    NoPointsLost
    ClustersForever
    LastPictureAvoided
