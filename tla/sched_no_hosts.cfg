\* A scheduler constructed over an empty host set.
CONSTANTS
    NumThreads = 2
    NumHosts = 0
    MaxScopes = 1
SPECIFICATION Spec
INVARIANT ConstructionSucceeds
