SPECIFICATION Spec
CONSTANTS
    Workers = {w1, w2}
    Tasks = {t1, t2}
    NoWorker = NoWorker
    NoTask = NoTask
CHECK_DEADLOCK FALSE
INVARIANT NoTaskAfterServices
