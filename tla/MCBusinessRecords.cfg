\* Three requests of one group of handlers: two that overlap and one before
\* or after them, or all three at once.
SPECIFICATION Spec
CONSTANTS
    N = 3
    Named = {1}
    Components = {1, 2}
    Payloads <- MCPayloads
    Statuses = {1, 2}
INVARIANTS
    LastWordHolds
    MatchedInTurn
    HistoryKnowsStatus
    TwinsWereRaced
    LonePutIsAnswered
CHECK_DEADLOCK FALSE
