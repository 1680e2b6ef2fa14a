SPECIFICATION Spec
CONSTANTS
    a1 = a1
    a2 = a2
    k = k
    x = x
    y = y
    yEsc = yEsc
    yEsc2 = yEsc2
    Escape <- MCEscape
    None = None
    Accounts = {a1, a2}
    TwoKeys = {a1}
    Default = a1
    Clients <- MCClients
    Containers <- MCContainers
    MaxTime = 2
INVARIANTS ReachesItsTarget ServedIsEntitled RightfulIsServed
