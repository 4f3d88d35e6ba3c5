SPECIFICATION FairSpec
CONSTANTS
    RoleSets <- OneRoleOrNone
    Slots = {c1, c2}
    MaxChanges = 2
INVARIANTS LinksLeadToPages
PROPERTIES ForbiddenIsNews RedirectsSettle CallsEnd
CHECK_DEADLOCK FALSE
