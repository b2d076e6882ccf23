SPECIFICATION PopulationSpec
CONSTANTS
    Null = Null
    sprites = sprites
    cubes = cubes
    anims = anims
    d1 = d1
    d2 = d2
    Data = {d1, d2}
    KindOf <- MCKindOf
    TypeChanges = TRUE
    Entities <- MCEntities
    MaxCapacity = 3
    ReserveInUse = FALSE
    Kinds = {"renderer", "anim"}
    Arrays = {sprites, cubes, anims}
    Capacity <- Mixed
    N = 3
    Span = 2
    None = None
    LateComponents = FALSE
INVARIANTS Inv IInv FrameInv Drawn
PROPERTIES PoolSpec ComponentMap
CHECK_DEADLOCK FALSE
