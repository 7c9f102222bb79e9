SPECIFICATION Spec
CONSTANTS
    c1 = c1
    c2 = c2
    i1 = i1
    i2 = i2
    stored = stored
    folded = folded
    edited = edited
    Blank = Blank
    NoColl = NoColl
    NoText = NoText
    NoUndo = NoUndo
    NoNode = NoNode
    Colls = {c1, c2}
    Ids = {i1, i2}
    Drafts = {d1}
    Texts = {stored, folded, edited}
    Fold <- MCFold
    Pasted = {stored}
    Workspaces = {{c1, c2}, {c2}}
    Starts <- MCStarts
    MaxTabs = 2
    MaxChanges = 2
INVARIANTS
    TypeOK
    EditorOnActiveTab
    QuitAsksForOpenEdits
    RestartFindsTabs
PROPERTIES
    OnlyEditsMakeDirty
    SavedIsOnDisk
    DraftsAreKept
