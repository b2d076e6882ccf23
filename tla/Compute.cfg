SPECIFICATION Spec
CONSTANTS
    Plain = {"buffers"}
    MaxObjects = 3
    MaxHandles = 2
    MaxBuilt = 1
    MaxEvents = 4
    MaxBehind = 1
    MaxVectors = 1
    FailLate = FALSE
    FailBuild = FALSE
    NullEvents = FALSE
    None = None
INVARIANTS Inv
PROPERTIES InOrder Returns
