SPECIFICATION SmallSpec
CONSTANTS
    Races = {r1}
    Participants = {c1, c2, t1, t2}
    Competitors = {c1, c2}
    Teams = {t1, t2}
    MaxMembers = 1
    MaxStints = 1
    Positions = {1}
    Capacities = {1}
    Schedules <- OneSchedule
    FinalPositions = {1}
    RawTimes = {1}
    Penalties = {0}
    Unfinished = {"DISQUALIFIED"}
    MaxTime = 0
    RaceRequests = {}
    RegistrationRequests = {b1, b2}
    ResultRequests = {}
    RosterRequests = {x1, x2}
    RaceTypes = {"MIXED"}
    Free = Free
CONSTRAINTS TwoInFlight OneEntry OneAway
VIEW WithoutAudit
SYMMETRY RosterSymmetry
INVARIANTS TypeOK OneActiveTeam TeamsWithinMaximum HistoryKeepsItsRows
PROPERTIES JoinsActiveTeam EntriesDisjointAsRead EntriesRefineRegistrations
CHECK_DEADLOCK FALSE
