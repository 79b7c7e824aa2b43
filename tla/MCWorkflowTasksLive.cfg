\* One worker that may crash, two tasks, two attempts, one task reaped per sweep;
\* no people, so that nobody but the reaper can rescue a task.
SPECIFICATION FairSpec
CONSTANTS
    Tasks = {t1, t2}
    Workers = {w1}
    Humans = {}
    Keys = {}
    MaxAttempts = 2
    LeaseLen = 2
    RetryDelays = {1}
    MaxLag = 1
    RecoverLimit = 1
    NoOne = NoOne
PROPERTIES
    StaleLeaseIsRecovered
