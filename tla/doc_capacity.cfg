SPECIFICATION Spec
CONSTANTS
    Races = {r1}
    Participants = {p1, p2}
    Positions = {1, 2}
    Capacities = {1, 2}
    Schedules <- OneSchedule
    FinalPositions = {1}
    RawTimes = {1}
    Penalties = {0}
    Unfinished = {"DISQUALIFIED"}
    MaxTime = 0
    RaceRequests = {a1, a2}
    RegistrationRequests = {b1}
    ResultRequests = {}
    Free = Free
CHECK_DEADLOCK FALSE
INVARIANT CapacityRespected
