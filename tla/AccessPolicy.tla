----------------------------- MODULE AccessPolicy -----------------------------
(***************************************************************************)
(* Who may call what: the roles each controller of the backend asks for,   *)
(* the guards that ask, and the handler behind each call of the browser's  *)
(* ResourceApi.  An endpoint is a pair <<controller, handler>>, a call a   *)
(* pair <<resource, method>>.                                              *)
(***************************************************************************)
AppRole == {"ADMINISTRATOR", "RACE_ORGANIZER", "VIEWER"}

Administrators == {"ADMINISTRATOR"}

Organizers == {"ADMINISTRATOR", "RACE_ORGANIZER"}

-----------------------------------------------------------------------------
(* @Roles of a handler overrides that of its class.  Each controller is the  *)
(* function from its handlers to the roles of which one is required.         *)
RacesController ==
    [handler \in {"create", "findAll", "findOne", "update", "updateStatus", "remove"} |->
        IF handler \in {"findAll", "findOne"} THEN AppRole ELSE Organizers]

RegistrationsController ==
    [handler \in {"create", "findAllForRace", "findOne", "approve", "reject", "cancel"} |->
        Organizers]

ResultsController ==
    [handler \in {"create", "findAllForRace", "findOne", "update"} |->
        IF handler \in {"create", "update"} THEN Organizers ELSE AppRole]

CompetitorsController ==
    [handler \in {"create", "findAll", "findOne", "update", "updateStatus", "remove"} |->
        IF handler \in {"findAll", "findOne"} THEN AppRole ELSE Administrators]

TeamsController ==
    [handler \in {"create", "findAll", "findOne", "update", "updateStatus", "remove",
                  "addMember", "removeMember"} |->
        IF handler \in {"findAll", "findOne"} THEN AppRole ELSE Administrators]

StandingsController ==
    [handler \in {"getOverall", "getCompetitors", "getTeams"} |-> AppRole]

UsersController ==
    [handler \in {"getMe", "findAll", "findOne", "updateStatus"} |->
        IF handler = "getMe" THEN AppRole ELSE Administrators]

AuditController == [handler \in {"findAll", "findOne"} |-> Administrators]

AuthController == [handler \in {"getMe"} |-> AppRole]

Controllers ==
    [races |-> RacesController, registrations |-> RegistrationsController,
     results |-> ResultsController, competitors |-> CompetitorsController,
     teams |-> TeamsController, standings |-> StandingsController,
     users |-> UsersController, audit |-> AuditController, auth |-> AuthController]

-----------------------------------------------------------------------------
(* JwtStrategy: the roles a request has are those its token carries for this *)
(* client, whatever else the token carries.                                  *)
ExtractRoles(tokenRoles) == AppRole \cap tokenRoles

RolesGuard(required, tokenRoles) == required \cap ExtractRoles(tokenRoles) # {}

ActiveUserProfileGuard(profile) == profile = "ACTIVE"

(* JwtAuthGuard and the two above: the status of the answer, when the        *)
(* handler itself has no objection.  The two requests that open a browser's  *)
(* session, auth/me and users/me, ask for no active profile.                 *)
OpeningStatus(token) ==
    IF ~token.valid THEN 401
    ELSE IF RolesGuard(AuthController["getMe"], token.roles) THEN 200 ELSE 403

StatusOf(required, token, profile) ==
    IF ~token.valid THEN 401
    ELSE IF ActiveUserProfileGuard(profile) /\ RolesGuard(required, token.roles)
         THEN 200
         ELSE 403

-----------------------------------------------------------------------------
(* createResourceApi: the handler that each method of a resource reaches.    *)
EntityMethods == [list |-> "findAll", detail |-> "findOne", create |-> "create",
                  update |-> "update", updateStatus |-> "updateStatus",
                  remove |-> "remove"]

AuditApi == [list |-> "findAll", detail |-> "findOne"]

CompetitorsApi == EntityMethods

RacesApi == EntityMethods

RegistrationsApi == [list |-> "findAllForRace", detail |-> "findOne", create |-> "create",
                     approve |-> "approve", reject |-> "reject", cancel |-> "cancel"]

ResultsApi == [list |-> "findAllForRace", detail |-> "findOne", create |-> "create",
               update |-> "update"]

StandingsApi == [overall |-> "getOverall", competitors |-> "getCompetitors",
                 teams |-> "getTeams"]

TeamsApi == [list |-> "findAll", detail |-> "findOne", create |-> "create",
             update |-> "update", updateStatus |-> "updateStatus", remove |-> "remove",
             addMember |-> "addMember", removeMember |-> "removeMember"]

UsersApi == [list |-> "findAll", detail |-> "findOne", me |-> "getMe",
             updateStatus |-> "updateStatus"]

ResourceApi ==
    [audit |-> AuditApi, competitors |-> CompetitorsApi, races |-> RacesApi,
     registrations |-> RegistrationsApi, results |-> ResultsApi,
     standings |-> StandingsApi, teams |-> TeamsApi, users |-> UsersApi]

(* The roles of which the backend requires one for a call of the browser.    *)
RequiredRoles(call) == Controllers[call[1]][ResourceApi[call[1]][call[2]]]
=============================================================================
