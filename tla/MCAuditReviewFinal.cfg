\* Two requests race on one journey.
SPECIFICATION Spec
CONSTANTS
    Requests = {r1, r2}
    Keys = {k1, k2}
    Decisions = {"NO_BREACH", "SEND_BACK"}
    MaxEvents = 5
PROPERTIES
    CompletedReviewIsFinal
CHECK_DEADLOCK FALSE
