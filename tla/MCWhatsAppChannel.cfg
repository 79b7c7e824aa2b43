SPECIFICATION Spec
CONSTANTS
    Senders = {s1, s2}
    Writers = {w1, w2}
    DedupKeys = {confirm}
    MaxAttempts = 2
    MaxRows = 2
    Messages = {m1, m2}
    Handlers = {h1, h2}
    MaxSessions = 2
    MaxAgain = 1
CHECK_DEADLOCK FALSE
SYMMETRY Symmetric
INVARIANTS
    SentTwiceWasRaced
    OutcomeIsKept
    PendingTwinsWereRaced
    DispatchedOnce
    LeftOutWasLate
