CONSTANTS
    Refused = Refused
    ByteBits = 2
    MaxDeltaDistance = 2
    MinStream = 2
    MaxNesting = 1
    Pass = 4
    RecordHead = 1
    MinChain = 2
    MinFrames = 2
    DictMin = 2
    DictMax = 20
    PoolMin = 100
    PoolMax = 1000
    MaxCoded = 28
    QualifyFrom = 4
    SplitHead = 1
    ContainerHead = 1
    Cases <- MCCases
    Original <- UnitOf
    Apply <- UnitEncoded
    Unapply <- UnitDecoded
    CodedLength <- LengthOf
SPECIFICATION Spec
INVARIANTS
    ReadsBack
    EncodersAreUndone
    NeverWorse
    FirstOfTheSmallest
    GivesUpForAReason
