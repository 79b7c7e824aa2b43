\* The same small instance: one worker, two attempts, nobody but the reaper.
SPECIFICATION FairSpec
CONSTANTS
    Tasks = {t1, t2}
    Workers = {w1}
    Humans = {}
    Keys = {}
    MaxAttempts = 2
    LeaseLen = 2
    RetryDelays = {1}
    MaxLag = 1
    RecoverLimit = 1
    NoOne = NoOne
PROPERTIES
    ExhaustedIsDeadLettered
