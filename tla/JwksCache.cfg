SPECIFICATION Spec
CONSTANTS
    k1 = k1
    k2 = k2
    e1 = e1
    r1 = r1
    r2 = r2
    Kids = {k1, k2, e1}
    Usable = {k1, k2}
    Requests = {r1, r2}
    TTL = 2
    MaxLag = 1
SYMMETRY Symm
INVARIANTS NoSpuriousReject RetiredKeysExpire
