SPECIFICATION FairSpec
CONSTANTS
    Users = {u1, u2}
    Requests = {q1, q2}
    MaxChanges = 2
    Free = Free
INVARIANTS ProvisionedOnce TrailExplainsStatus
PROPERTIES RequestsFinish
