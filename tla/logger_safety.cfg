\* Two producers, no panics, two records each, under the writer's fairness:
\* conservation and per-producer order, and the liveness of
\* the writer loop and of flush_sync (backpressure is checked by
\* logger_panic: with two records each the queue cannot pass its bound
\* here).  AsyncThreshold = 1 leaves a lone
\* buffered record to the timeout flush.  No symmetry: it is unsound for
\* the liveness properties.
CONSTANTS
    Producers = {p1, p2}
    Writer = w
    NoReply = noReply
    MaxLogs = 2
    AsyncThreshold = 1
    SyncThreshold = 2
    MaxPanics = 0
SPECIFICATION FairSpec
INVARIANT TypeOK
INVARIANT RecordsConserved
INVARIANT PerProducerFifo
PROPERTY RecordsEventuallyWritten
PROPERTY SyncFlushReturns
PROPERTY FlushesOnlyQueuedRecords
