SPECIFICATION GraphicsSpec
CONSTANTS
    None = None
    NImages = 2
    FrameCounts = {1, 2, 3}
    DrawnCounts = {1, 2}
    Blocks = {1, 2}
    Capacity = 2
    Writes = {3}
    OutOfDate = TRUE
    MaxLights = 2
    Sizes <- WindowSizes
    Versions = {1, 2}
    Views <- TwoViews
    Lamps <- ThreeLights
    Early = FALSE
    Overlays = FALSE
    MapsMove = FALSE
    Replaced = FALSE
    SplitGlyphs = FALSE
    Ttys <- TtySizes
    Resets = FALSE
INVARIANTS Inv NotInUse Current
PROPERTIES RetiredUnused FramesGoOn
