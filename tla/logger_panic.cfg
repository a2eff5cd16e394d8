\* One producer panic: the panic hook drains on the panicking thread,
\* concurrently with the writer.  Records stay conserved and the queue
\* bounded even when the writer dies in a drain.  Deadlock checking is off:
\* once the writer thread has died (see logger_drain_race) every later
\* sync flush blocks forever, and the process really does stop there.
\* No symmetry: it is unsound for the liveness property.
CONSTANTS
    Producers = {p1, p2}
    Writer = w
    NoReply = noReply
    MaxLogs = 2
    AsyncThreshold = 0
    SyncThreshold = 1
    MaxPanics = 1
SPECIFICATION FairSpec
CHECK_DEADLOCK FALSE
INVARIANT RecordsConserved
INVARIANT QueueBounded
PROPERTY PanicDrainComplete
PROPERTY SyncFlushReleased
