SPECIFICATION Spec
CONSTANTS
    Root = Root
    f1 = f1
    f2 = f2
    f3 = f3
    r1 = r1
    r2 = r2
    r3 = r3
    n1 = n1
    n2 = n2
    n3 = n3
    a1 = a1
    a2 = a2
    Folders = {f1, f2, f3}
    Requests = {r1, r2, r3}
    Names = {n1, n2, n3}
    NoName = NoName
    Slug <- MCSlug
    Reserved <- MCReserved
    CopyOf <- MCCopyOf
    Own <- MCOwn
    Inherit = Inherit
    NoAuth = NoAuth
    None = None
    NoUndo = NoUndo
    Gone = Gone
    Starts <- MCStarts
    MaxChanges = 3
INVARIANTS
    TypeOK
    LoadsAsSaved
    LandsWhereSent
    StepsInheritAlike
PROPERTIES
    RefsFollow
    ExtrasStay
CHECK_DEADLOCK FALSE
