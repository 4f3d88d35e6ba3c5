SPECIFICATION Spec
CONSTANTS
    Races = {r1}
    Participants = {p1}
    Positions = {1}
    Capacities = {1}
    Schedules <- ThreeSchedules
    FinalPositions = {1}
    RawTimes = {1}
    Penalties = {0}
    Unfinished = {"DISQUALIFIED"}
    MaxTime = 0
    RaceRequests = {a1, a2}
    RegistrationRequests = {b1}
    ResultRequests = {}
    Free = Free
INVARIANTS NoOrphanRegistration ScheduleConsistent
CHECK_DEADLOCK FALSE
