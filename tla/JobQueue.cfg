CONSTANT MaxJobs = 3
SPECIFICATION Spec
INVARIANTS LockHeldInside AtMostOneLateJob
PROPERTIES UiGetsLock ImplementsFifoQueue
CHECK_DEADLOCK FALSE
