SPECIFICATION BindingSpec
CONSTANTS
    Tables = {t1}
    Keys = {1, 2}
    Scalars = {a}
    Data = {d1}
    External = {engine}
    Copies = {copy}
    MaxStack = 4
    MaxLocals = 3
    MaxFields = 2
    MaxPath = 2
    Missing = FALSE
    TasksFail = FALSE
    Results = 0
    Nil = Nil
    None = None
    Globals = Globals
    Meta = Meta
    Handler = Handler
    Highest = 3
    Tags = {0, 4, 5, 9}
    Sizes = {1, 2}
    Mask = 4
    Word = 32
INVARIANTS BindingInv
PROPERTIES Visited
CHECK_DEADLOCK FALSE
