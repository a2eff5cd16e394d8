\* Three worker threads, four hosts (uneven queues, so stealing happens),
\* two scopes (so the queues are swapped once, after a run_with_hosts).
CONSTANTS
    NumThreads = 3
    NumHosts = 4
    MaxScopes = 2
SPECIFICATION FairSpec
INVARIANT TypeOK
INVARIANT HostsConserved
INVARIANT DrainedBeforeSwap
PROPERTY EachHostVisitedOnce
PROPERTY ScopesComplete
PROPERTY RefinesHostScheduler
PROPERTY PartitionKeptWithoutStealing
