SPECIFICATION Spec
CONSTANTS
    Tools = {a}
    Gets = {g1}
    Updates = {u1}
    Cancels = {}
    Nobody = Nobody
    Ghost = Ghost
    CallsMayBreak = FALSE
    MaxLegs = 2
    MaxRuns = 1
    MaxFaults = 0
INVARIANT CompletedHasResult
CHECK_DEADLOCK FALSE
