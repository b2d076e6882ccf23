SPECIFICATION Spec
CONSTANTS
    Processes = {p1, p2}
    None = None
    Impatient = FALSE
    MaxConnections = 2
    BACKLOG = 2
    MAX_LEN = 3
    Pieces = 2
    MaxScripts = 2
    Crowded = FALSE
    InPieces = FALSE
INVARIANTS SocketInv Reachable Recovers Executed
PROPERTIES Served
