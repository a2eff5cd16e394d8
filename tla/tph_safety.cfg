\* Three hosts on two logical processors (so threads wait for a processor),
\* two scopes between new and join, two for_each calls per task.
CONSTANTS
    NumHosts = 3
    NumProcs = 2
    MaxScopes = 2
    MaxForEach = 2
SPECIFICATION FairSpec
INVARIANT TypeOK
INVARIANT HostsConserved
INVARIANT SlotPopulatedBetweenScopes
PROPERTY RefinesHostScheduler
