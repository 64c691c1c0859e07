SPECIFICATION Spec
CONSTANTS
    Tools = {a}
    Gets = {g1}
    Updates = {u1}
    Cancels = {c1}
    Nobody = Nobody
    Ghost = Ghost
    CallsMayBreak = FALSE
    MaxLegs = 2
    MaxRuns = 2
    MaxFaults = 0
PROPERTIES NoResumeAfterCancel CancelLeavesFinished TaskEnds
CHECK_DEADLOCK FALSE
