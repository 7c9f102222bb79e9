SPECIFICATION Spec
CONSTANTS
    Names = {n1, n2}
    Creds = {k1, k2}
    NoCred = NoCred
    MaxItems = 2
    Absent = Absent
    Bare = Bare
    Partial = Partial
    NoColl = NoColl
SYMMETRY Symmetry
INVARIANT DirNeverLeftMissing
