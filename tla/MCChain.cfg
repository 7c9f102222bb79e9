SPECIFICATION Spec
CONSTANTS
    A = A
    B = B
    C = C
    NoRequest = NoRequest
    idA = idA
    idC = idC
    idGone = idGone
    NoID = NoID
    pathA = pathA
    pathB = pathB
    pathSlashB = pathSlashB
    pathC = pathC
    pathGone = pathGone
    NoPath = NoPath
    x = x
    y = y
    bad = bad
    Requests = {A, B, C}
    IDs = {idA, idC, idGone}
    Paths = {pathA, pathB, pathSlashB, pathC, pathGone}
    Aliases = {x, y, bad}
    GoodAliases = {x, y}
    IDOf <- MCIDOf
    ByID <- MCByID
    ByPath <- MCByPath
    Graphs <- MCGraphs
    MaxDepth = 3
    MaxSteps = 4
INVARIANTS
    TypeOK
    ViewsAreOwnChain
    NeverBeforeItself
    ResolvesAsReference
PROPERTY Terminates
