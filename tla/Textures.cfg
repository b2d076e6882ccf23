SPECIFICATION TexturesSpec
CONSTANTS
    NoName = NoName
    Unknown = Unknown
    Names = {a, b, c}
    MaxTextures = 3
    Renderers = {r1, r2}
    MaxRefs = 2
    GenMod = 2
    UploadFails = TRUE
    Swaps = TRUE
INVARIANTS TexturesInv ImagesRight
PROPERTIES ShownStays
