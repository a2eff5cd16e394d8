\* The worker resets the eventfd after draining the command channel.
CONSTANTS
    Pids = {c1}
    MaxHandles = 1
    MaxOps = 3
SPECIFICATION Spec
INVARIANT NoLostWakeup
