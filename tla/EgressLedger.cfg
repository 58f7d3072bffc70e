\* Two assemblies, one after the other or overlapping, one of which may die.
CONSTANTS
    Runs = {r1, r2}
    eu = eu
    uk = uk
    a1 = a1
    a2 = a2
    a3 = a3
    Regions <- MCRegions
    Refs <- MCRefs
    RegionOf <- MCRegionOf
    NoRef = NoRef
    Genesis = Genesis
    Unread = Unread
    MaxKept = 2
    MaxAborts = 1
SPECIFICATION HSpec
SYMMETRY Symmetry
INVARIANTS
    ChainUnbrokenUnlessShared
    EntryIdsCount
    NothingCrossesUnledgered
    SealedAccountsForEveryRef
PROPERTIES
    ImplementsHashChain
CHECK_DEADLOCK FALSE
