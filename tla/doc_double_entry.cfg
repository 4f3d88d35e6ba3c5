SPECIFICATION StaffedSpec
CONSTANTS
    Races = {r1}
    Participants = {c1, c2, t1}
    Competitors = {c1, c2}
    Teams = {t1}
    MaxMembers = 2
    MaxStints = 1
    Positions = {1}
    Capacities = {1}
    Schedules <- OneSchedule
    FinalPositions = {1}
    RawTimes = {1}
    Penalties = {0}
    Unfinished = {"DISQUALIFIED"}
    MaxTime = 0
    RaceRequests = {}
    RegistrationRequests = {b1}
    ResultRequests = {}
    RosterRequests = {x1}
    RaceTypes = {"MIXED"}
    Free = Free
INVARIANT NobodyEntersTwice
CHECK_DEADLOCK FALSE
