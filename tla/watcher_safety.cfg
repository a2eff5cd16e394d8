\* Two children, two callbacks, eight API calls: enough to register, exit,
\* register late, unregister in either order and drop the watcher.  Callbacks
\* of exited children eventually run under the worker's fairness.
\* Deadlock checking is off: after a lost wakeup (watcher_lost_wakeup)
\* the caller and the worker both sleep forever, which the code allows.
CONSTANTS
    Pids = {c1, c2}
    MaxHandles = 2
    MaxOps = 8
SPECIFICATION FairSpec
CHECK_DEADLOCK FALSE
INVARIANT TypeOK
PROPERTY CallbackAfterExit
INVARIANT NoStaleEntry
PROPERTY UnregisteredCallbackNeverRuns
PROPERTY CallbackEventuallyRuns
INVARIANT WorkerNeverPanics
