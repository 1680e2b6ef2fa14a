SPECIFICATION Spec
CONSTANTS
    c1 = c1
    b1 = b1
    i1 = i1
    i2 = i2
    r1 = r1
    r2 = r2
    None = None
    MaxU64 = 3
    Containers = {c1}
    Blobs = {b1}
    Home <- MCHome
    Requests = {r1, r2}
    Ranges <- MCRanges
    Documents <- MCDocuments
    Lengths = {3}
    Omissions <- MCOmissions
    MaxStamps = 3
SYMMETRY Symm
INVARIANTS OkMeansApplied AnswerShowsOwnWrite NoLostUpdate EtagNamesOneRow RangeIsExact BlocksInOrder
