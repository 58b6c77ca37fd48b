SPECIFICATION Spec
CONSTANTS
    JobTests <- Tests
    PathOf <- PathOfClass
    FullPaths <- TestFiles
    FullNames <- TestNames
    ArgumentSets <- Calls
    Spoilt <- SpoiltReport
    MaxSpoils = 1
INVARIANTS
    TypeOK
    ProofMeansPassed
    NothingHidden
    OneCaseEach
CHECK_DEADLOCK FALSE
