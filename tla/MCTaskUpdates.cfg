SPECIFICATION Spec
CONSTANTS
    Tools = {a, b}
    Gets = {g1}
    Updates = {u1, u2}
    Cancels = {}
    Nobody = Nobody
    Ghost = Ghost
    CallsMayBreak = TRUE
    MaxLegs = 2
    MaxRuns = 1
    MaxFaults = 1
INVARIANTS TasksTypeOK AnsweredInFull AckedAnswersKept ParkedStaysParked
PROPERTIES EachLegOnce
SYMMETRY Symmetry
CHECK_DEADLOCK FALSE
