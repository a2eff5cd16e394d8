\* Join after run_with_hosts: which hosts does join release?
CONSTANTS
    NumThreads = 2
    NumHosts = 2
    MaxScopes = 1
SPECIFICATION Spec
INVARIANT JoinReleasesAllHosts
