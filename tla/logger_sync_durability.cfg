\* flush_sync returning before the writer's BufWriter reaches stdout.
CONSTANTS
    Producers = {p1, p2}
    Writer = w
    NoReply = noReply
    MaxLogs = 2
    AsyncThreshold = 0
    SyncThreshold = 1
    MaxPanics = 0
SPECIFICATION Spec
PROPERTY SyncFlushDurable
