SPECIFICATION LiveSpec
CONSTANTS
    Races = {r1}
    Participants = {p1}
    Positions = {1}
    Capacities = {1}
    Schedules <- OneSchedule
    FinalPositions = {1}
    RawTimes = {1}
    Penalties = {0}
    Unfinished = {}
    MaxTime = 0
    RaceRequests = {a1}
    RegistrationRequests = {b1, b2}
    ResultRequests = {c1, c2}
    Free = Free
CHECK_DEADLOCK FALSE
PROPERTIES RequestsFinish
