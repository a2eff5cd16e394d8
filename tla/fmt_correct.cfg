CONSTANTS
    DisplayLen = 6
    K = 3
    MaxMem = 7

SPECIFICATION Spec

INVARIANTS
    CStrEllipsisExact
