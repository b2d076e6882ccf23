SPECIFICATION Spec
CONSTANTS
    Entities = {e1, e2}
    Types = {"sprite", "voxel"}
    MaxRenderers = 2
    Looks <- MCLooks
    SelectionsMove = FALSE
    Animated = {e1}
    Tracks <- MCTracks
    Titles <- MCTitles
    Texts <- MCTexts
    Speeds = {0, 2}
    Steps = {1, 2}
    MaxTimer = 4
    TitlesAlone = FALSE
    CursorsEnd = FALSE
    Nothing = Nothing
    Owners = {e1, e2}
    LightTypes = {"dir"}
    MaxLights = 2
    Values = {1, 2}
    Eyes = {1, 2}
    Day = 2
    SunMoves = FALSE
    Positions = {1, 2}
    Parameters = {1, 2}
    Sizes = {1, 2}
    MaxVelocity = 2
    Ops = 2
INVARIANTS Drawn Followed
PROPERTIES TextFinishes
