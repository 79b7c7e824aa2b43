\* Three requests at once, two keys, a breach-free or sent-back review, and
\* six commands on the journey.
SPECIFICATION Spec
CONSTANTS
    Requests = {r1, r2, r3}
    Keys = {k1, k2}
    Decisions = {"NO_BREACH", "SEND_BACK"}
    MaxEvents = 6
INVARIANTS
    TypeOK
    ChainIntact
    OneEffectPerKey
    TrailTellsEverything
CHECK_DEADLOCK FALSE
