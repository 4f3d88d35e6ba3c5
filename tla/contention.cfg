SPECIFICATION BusySpec
CONSTANTS
    Races = {r1}
    Participants = {p1, p2}
    Positions = {1, 2}
    Capacities = {1, 2}
    Schedules <- OneSchedule
    FinalPositions = {1, 2}
    RawTimes = {1, 2}
    Penalties = {0}
    Unfinished = {"DISQUALIFIED"}
    MaxTime = 1
    RaceRequests = {}
    RegistrationRequests = {b1, b2}
    ResultRequests = {c1, c2}
    Free = Free
SYMMETRY ParticipantSymmetry
INVARIANTS StartingPositionsUnique ApprovedHavePosition WinnerIsFastest ValidatedOutcomeStands
PROPERTIES ApprovalWithinCapacity GridIsStable ImplementsResultBook
CHECK_DEADLOCK FALSE
