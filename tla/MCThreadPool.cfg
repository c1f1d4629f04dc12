SPECIFICATION FairSpec
CONSTANTS
    Workers = {w1, w2, w3}
    Tasks = {t1, t2, t3}
    NoWorker = NoWorker
    NoTask = NoTask
CHECK_DEADLOCK FALSE
INVARIANTS
    TypeOK
    TasksConserved
    NoLostWakeup
    RunningTasksComplete
PROPERTIES
    TasksRun
    
