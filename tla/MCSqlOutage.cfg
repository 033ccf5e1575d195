\* Does a failing database leave the cached routes alone?
SPECIFICATION Spec
CONSTANTS
    Key = {k1}
    Config = {c1}
    None = None
    MaxSize = 1
    Absent = Absent  Blank = Blank  Bad = Bad
    MaxWrites = 0
    Reader = {r1}
    NoReader = NoReader
    Initial = {c1}
    MaxEvents = 1
    Kinds = {"sqlFull"}
PROPERTY FailureKeepsRoutes
