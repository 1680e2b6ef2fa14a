SPECIFICATION Spec
CONSTANTS
    w1 = w1
    w2 = w2
    w3 = w3
    p1 = p1
    p2 = p2
    d1 = d1
    d2 = d2
    Writers = {w1, w2, w3}
    Paths = {p1, p2}
    Dirs = {d1, d2}
    OldDirs = {d2}
    NoFile = NoFile
    Target <- MCTarget
    Parent <- MCParent
    Size <- MCSize
    Unopenable = {p2}
INVARIANTS NoTornFile AckedIsDurable
PROPERTY ImplementsAtomicFile
