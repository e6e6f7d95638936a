CONSTANTS
    Nothing = Nothing
    Reports = 3
    ScanStep = 2
    Files = 3
    Size = 2
    Ops <- MCOps
    KindsOf <- MCKindsOf
    Growths <- MCGrowths
SPECIFICATION Spec
CHECK_DEADLOCK FALSE
INVARIANT
    ReadingsAreHonest
PROPERTIES
    BarGoesForward
    BusyEnds
