SPECIFICATION Spec
CONSTANTS
    p1 = p1
    p2 = p2
    p3 = p3
    m1 = m1
    m2 = m2
    Players = {p1, p2, p3}
    Actions <- MCActions
    Nobody = Nobody
    RemovesAll = FALSE
    LoadsNobody = FALSE
    MaxEvents = 2
    Maps = {m1, m2}
    HasState = {m1}
    HasCamera = {}
    HasBeat = {m1, m2}
    None = None
    MaxLoads = 2
    InitFails = FALSE
    Users <- MCUsers
    OwnKeys <- MCOwnKeys
    Hasty = FALSE
SYMMETRY Symmetry
INVARIANTS Owned CurrentOnly Steered MapKept
