CONSTANTS
    Refused = Refused
    DictMin = 2
    DictMax = 20
    PoolMin = 100
    PoolMax = 1000
    MaxDeltaDistance = 32
    Judged = 2
    Target = 10
    ChunkedFrom = 4
    ChunkMin = 2
    ChunkMax = 4
    MinContainer = 3
    Classifiable = 2
    MaxStored = 20
    Looks <- MCLooks
    Lower <- MCLower
    Catalogue <- MCCatalogue
    Scopes <- MCScopes
    Moves <- MCMoves
    Selections <- MCSelections
    Unsafe <- MCUnsafe
SPECIFICATION Spec
CHECK_DEADLOCK FALSE
INVARIANTS
    FilesComeBack
    DamageIsConfined
    VotedByItsBytes
    MixesOnlyBehindACut
    ContainersAreWhole
PROPERTIES
    KeptApart
