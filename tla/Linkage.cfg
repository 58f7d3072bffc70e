SPECIFICATION Spec
CONSTANTS
    Attr = {1, 2, 3, 4}
    Shapes <- MCShapes
    Orders <- MCOrders
    BlockMaxSizes = {1, 3, 4}
    Lemma <- MCLemma
    Prefix <- MCPrefix
    Noise = 0
INVARIANTS
    GroupsPartitionLinked
    CutsAreWeakest
    ComparablePairsAreDecided
