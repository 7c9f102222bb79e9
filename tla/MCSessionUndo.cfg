SPECIFICATION Spec
CONSTANTS
    blank = blank
    NoDir = NoDir
    NoEnv = NoEnv
    NoDeleted = NoDeleted
    Dirs = {d1, d2}
    Names = {n1, n2}
    Envs = {e1}
    Items = {r1}
    Texts = {blank, typed}
    Disks <- MCDisks
    MaxColls = 2
    MaxHeld = 2
SYMMETRY Symmetry
CONSTRAINT Bounds
PROPERTY UndoGoesHome
