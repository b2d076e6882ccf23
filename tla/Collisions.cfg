SPECIFICATION CollisionsSpec
CONSTANTS
    Backends = {"compute", "native"}
    Scenes = {{"bb", "sphere"}, {"sphere", "plane"}, {"sphere", "gravity"}, {"aabb", "bb"}}
    Pairs = {p, q}
    Fixed = {q}
    Limits = {1, 2}
    MaxHits = 2
    MaxFrames = 2
INVARIANTS BetweenCalls
PROPERTIES Reported CheckReturns
