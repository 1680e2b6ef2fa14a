SPECIFICATION FairSpec
CONSTANTS
    d = d
    None = None
    Names <- MCNames
    Matching <- MCMatching
    Dir <- MCDir
    PageSizes <- MCPageSizes
    U32 = 4
INVARIANTS ListingIsComplete ListedOnce
PROPERTY ListingEnds
