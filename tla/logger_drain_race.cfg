\* A panic-hook drain racing the writer's drain: both read records.len()
\* before taking the stdout lock.
CONSTANTS
    Producers = {p1, p2}
    Writer = w
    NoReply = noReply
    MaxLogs = 2
    AsyncThreshold = 0
    SyncThreshold = 1
    MaxPanics = 1
SPECIFICATION Spec
SYMMETRY ProducerSymmetry
INVARIANT WriterNeverCrashes
