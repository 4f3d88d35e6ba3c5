SPECIFICATION Spec
CONSTANTS
    Races = {r1}
    Participants = {p1, p2}
    Positions = {1, 2}
    Capacities = {1, 2}
    Schedules <- OneSchedule
    FinalPositions = {1}
    RawTimes = {1}
    Penalties = {2}
    Unfinished = {"DISQUALIFIED"}
    MaxTime = 1
    RaceRequests = {a1}
    RegistrationRequests = {b1}
    ResultRequests = {c1}
    Free = Free
SYMMETRY ParticipantSymmetry
INVARIANTS TypeOK NoCircularWait
PROPERTIES ResultsOnlyDuringOrAfterRace ImplementsStartingGrid
CHECK_DEADLOCK FALSE
