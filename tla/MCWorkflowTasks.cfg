\* Two tasks and two workers, two attempts each, a lease of two ticks and
\* transactions whose now() trails the clock by up to one tick.
SPECIFICATION Spec
CONSTANTS
    Tasks = {t1, t2}
    Workers = {w1, w2}
    Humans = {h1}
    Keys = {k1, k2}
    MaxAttempts = 2
    LeaseLen = 2
    RetryDelays = {1}
    MaxLag = 1
    RecoverLimit = 2
    NoOne = NoOne
SYMMETRY Symmetric
INVARIANTS
    TypeOK
    QueuedIsClaimable
    LedgerMatchesLease
    DeadLetterExact
    HistoryAddsUp
    ReceiptsTruthful
PROPERTIES
    EvictedOnlyAfterExpiry
    LedgerIsAppendOnly
    PromiseKept
