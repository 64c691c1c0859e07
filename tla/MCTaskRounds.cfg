SPECIFICATION Spec
CONSTANTS
    Tools = {a}
    Gets = {g1}
    Updates = {u1}
    Cancels = {c1}
    Nobody = Nobody
    Ghost = Ghost
    CallsMayBreak = FALSE
    MaxLegs = 3
    MaxRuns = 1
    MaxFaults = 0
INVARIANTS AnsweredInFull ParkedStaysParked
PROPERTIES CancelLeavesFinished
CHECK_DEADLOCK FALSE
