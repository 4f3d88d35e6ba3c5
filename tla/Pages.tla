--------------------------------- MODULE Pages ---------------------------------
(***************************************************************************)
(* What each page of the browser application reads, does and links to, for *)
(* a user of given roles and data of a given status.  A page is the union  *)
(* of its sections: the queries its component starts, and the panels,      *)
(* headers and tables it renders.                                          *)
(*                                                                         *)
(* A page is named by the path of its route, a call by <<resource, method>>*)
(* of ResourceApi, and an operation by the call and the status it asks for *)
(* ("" when it asks for none).                                             *)
(***************************************************************************)
EXTENDS AccessPolicy

Nothing == [reads |-> {}, does |-> {}, links |-> {}]

Reads(calls) == [Nothing EXCEPT !.reads = calls]

Links(paths) == [Nothing EXCEPT !.links = paths]

Does(calls) == [Nothing EXCEPT !.does = {<<call, "">> : call \in calls}]

MovesTo(call, statuses) == [Nothing EXCEPT !.does = {call} \X statuses]

When(condition, section) == IF condition THEN section ELSE Nothing

Together(sections) ==
    [reads |-> UNION {s.reads : s \in sections},
     does |-> UNION {s.does : s \in sections},
     links |-> UNION {s.links : s \in sections}]

(* hasAnyRole, and the flags isAdministrator and canManage of the pages.     *)
IsAdministrator(roles) == roles \cap Administrators # {}

CanManage(roles) == roles \cap Organizers # {}

-----------------------------------------------------------------------------
(* The frame of every page of the application: the sidebar's items, the      *)
(* profile and the way out.                                                  *)
NavigationItems == {"/", "/races", "/competitors", "/teams", "/standings", "/users"}

FilterNavigationByRoles(roles) ==
    IF IsAdministrator(roles) THEN NavigationItems ELSE NavigationItems \ {"/users"}

Frame(roles) == Links(FilterNavigationByRoles(roles) \cup {"/profile"})

-----------------------------------------------------------------------------
(* DashboardPage. *)
DashboardQueries(roles) ==
    Reads({<<"races", "list">>, <<"competitors", "list">>, <<"standings", "overall">>,
           <<"results", "list">>}
          \cup IF CanManage(roles) THEN {<<"registrations", "list">>} ELSE {})

DashboardHeader(roles) ==
    Links({page \in {"/competitors/new", "/races/new"} :
              \/ page = "/competitors/new" /\ IsAdministrator(roles)
              \/ page = "/races/new" /\ CanManage(roles)})

FeaturedRace == Links({"/races/:id"})

UpcomingRacesPanel == Links({"/races", "/races/:id"})

StandingsPanel == Links({"/standings"})

Dashboard(roles) ==
    Together({DashboardQueries(roles), DashboardHeader(roles), FeaturedRace,
              UpcomingRacesPanel, StandingsPanel})

-----------------------------------------------------------------------------
(* RaceListPage: only a draft can be edited, any other race is managed from  *)
(* its own page.                                                             *)
RaceColumns(roles, status) ==
    Links({"/races/:id"} \cup
          IF CanManage(roles) /\ status = "DRAFT" THEN {"/races/:id/edit"} ELSE {})

RaceList(roles, status) ==
    Together({Reads({<<"races", "list">>}), RaceColumns(roles, status),
              When(CanManage(roles), Links({"/races/new"}))})

RaceStatusTransitionsWithReopening ==
    [DRAFT |-> {"OPEN_FOR_REGISTRATION", "CANCELLED"},
     OPEN_FOR_REGISTRATION |-> {"CLOSED", "CANCELLED"},
     CLOSED |-> {"OPEN_FOR_REGISTRATION", "IN_PROGRESS", "CANCELLED"},
     IN_PROGRESS |-> {"COMPLETED", "CANCELLED"},
     COMPLETED |-> {}, CANCELLED |-> {}]

(* race-view: the statuses a race may be moved to.                           *)
RaceStatusTransitions ==
    [DRAFT |-> {"OPEN_FOR_REGISTRATION", "CANCELLED"},
     OPEN_FOR_REGISTRATION |-> {"CLOSED", "CANCELLED"},
     CLOSED |-> {"IN_PROGRESS", "CANCELLED"},
     IN_PROGRESS |-> {"COMPLETED", "CANCELLED"},
     COMPLETED |-> {}, CANCELLED |-> {}]

(* RaceDetailPage. *)
RaceHeader(roles, status) ==
    Links({"/races"} \cup
          IF CanManage(roles) /\ status = "DRAFT" THEN {"/races/:id/edit"} ELSE {})

RelatedModules(roles) ==
    Links({"/races/:raceId/results"} \cup
          IF CanManage(roles) THEN {"/races/:raceId/registrations"} ELSE {})

(* A terminal race offers neither transitions nor its removal.               *)
RaceLifecycle(roles, status) ==
    LET transitions == RaceStatusTransitions[status]
    IN  When(CanManage(roles) /\ transitions # {},
             Together({MovesTo(<<"races", "updateStatus">>, transitions),
                       Does({<<"races", "remove">>})}))

RaceDetail(roles, status) ==
    Together({Reads({<<"races", "detail">>}), RaceHeader(roles, status),
              RelatedModules(roles), RaceLifecycle(roles, status)})

(* RaceFormPage, with a race to edit or without one.                         *)
RaceCreateForm == Together({Does({<<"races", "create">>}), Links({"/races"})})

RaceEditForm(status) ==
    Together({Reads({<<"races", "detail">>}),
              When(status = "DRAFT",
                   Together({Does({<<"races", "update">>}), Links({"/races/:id"})}))})

-----------------------------------------------------------------------------
(* RaceRegistrationsPage: the queries, the entry of a participant, what is   *)
(* offered for a registration, and the panel that decides on it.             *)
RegistrationQueries ==
    Reads({<<"races", "detail">>, <<"registrations", "list">>,
           <<"competitors", "list">>, <<"teams", "list">>})

NewRegistration(status) ==
    When(status = "OPEN_FOR_REGISTRATION", Does({<<"registrations", "create">>}))

RegistrationActions(registrationOpen, registrationStatus) ==
    Together({When(registrationStatus = "PENDING",
                   Does({<<"registrations", "approve">>, <<"registrations", "reject">>})),
              When(registrationOpen /\ registrationStatus \in {"PENDING", "APPROVED"},
                   Does({<<"registrations", "cancel">>}))})

RegistrationColumns == Links({"/competitors/:id", "/teams/:id"})

RegistrationStatuses == {"PENDING", "APPROVED", "REJECTED", "CANCELLED"}

RaceRegistrations(status) ==
    Together({RegistrationQueries, NewRegistration(status), RegistrationColumns,
              Links({"/races/:id"})}
             \cup {RegistrationActions(status = "OPEN_FOR_REGISTRATION", s) :
                      s \in RegistrationStatuses})

-----------------------------------------------------------------------------
(* RaceResultsPage and ResultEditPage.                                       *)
ResultQueries(roles, status) ==
    Reads({<<"races", "detail">>, <<"results", "list">>}
          \cup IF CanManage(roles) /\ status = "IN_PROGRESS"
               THEN {<<"registrations", "list">>} ELSE {})

NewResultForAll(roles, status) ==
    When(status = "IN_PROGRESS", Does({<<"results", "create">>}))

NewResult(roles, status) ==
    When(CanManage(roles) /\ status = "IN_PROGRESS", Does({<<"results", "create">>}))

ResultColumns(roles) == When(CanManage(roles), Links({"/results/:id/edit"}))

RaceResults(roles, status) ==
    Together({ResultQueries(roles, status), NewResult(roles, status),
              ResultColumns(roles), Links({"/races/:id"})})

ResultEdit(status) ==
    Together({Reads({<<"results", "detail">>, <<"races", "detail">>}),
              When(status \in {"IN_PROGRESS", "COMPLETED"},
                   Together({Does({<<"results", "update">>}),
                             Links({"/races/:raceId/results"})}))})

-----------------------------------------------------------------------------
(* CompetitorListPage, CompetitorDetailPage, CompetitorFormPage.             *)
CompetitorColumns(roles) ==
    Links({"/competitors/:id"} \cup
          IF IsAdministrator(roles) THEN {"/competitors/:id/edit"} ELSE {})

CompetitorList(roles) ==
    Together({Reads({<<"competitors", "list">>}), CompetitorColumns(roles),
              When(IsAdministrator(roles), Links({"/competitors/new"}))})

CompetitorStatusTransitions ==
    [ACTIVE |-> {"SUSPENDED", "RETIRED"}, SUSPENDED |-> {"ACTIVE", "RETIRED"},
     RETIRED |-> {}]

(* A retired competitor is not moved any more, but can still be removed.     *)
CompetitorAdministration(roles, status) ==
    When(IsAdministrator(roles),
         Together({MovesTo(<<"competitors", "updateStatus">>,
                           CompetitorStatusTransitions[status]),
                   Does({<<"competitors", "remove">>})}))

CompetitorHeader(roles) ==
    Links({"/competitors"} \cup
          IF IsAdministrator(roles) THEN {"/competitors/:id/edit"} ELSE {})

CompetitorDetail(roles, status) ==
    Together({Reads({<<"competitors", "detail">>}), CompetitorHeader(roles),
              CompetitorAdministration(roles, status)})

CompetitorCreateForm ==
    Together({Does({<<"competitors", "create">>}), Links({"/competitors"})})

CompetitorEditForm ==
    Together({Reads({<<"competitors", "detail">>}), Does({<<"competitors", "update">>}),
              Links({"/competitors/:id"})})

-----------------------------------------------------------------------------
(* TeamListPage, TeamDetailPage, TeamFormPage.                               *)
TeamColumns(roles) ==
    Links({"/teams/:id"} \cup IF IsAdministrator(roles) THEN {"/teams/:id/edit"} ELSE {})

TeamList(roles) ==
    Together({Reads({<<"teams", "list">>}), TeamColumns(roles),
              When(IsAdministrator(roles), Links({"/teams/new"}))})

TeamHeader(roles) ==
    Links({"/teams"} \cup IF IsAdministrator(roles) THEN {"/teams/:id/edit"} ELSE {})

OtherTeamStatus(status) == IF status = "ACTIVE" THEN "INACTIVE" ELSE "ACTIVE"

TeamAdministration(roles, status) ==
    When(IsAdministrator(roles),
         Together({MovesTo(<<"teams", "updateStatus">>, {OtherTeamStatus(status)}),
                   Does({<<"teams", "remove">>})}))

AddMemberPanel(roles, status) ==
    When(IsAdministrator(roles) /\ status = "ACTIVE",
         Together({Reads({<<"competitors", "list">>}), Does({<<"teams", "addMember">>})}))

ActiveMemberColumns(roles) ==
    Together({Links({"/competitors/:id"}),
              When(IsAdministrator(roles), Does({<<"teams", "removeMember">>}))})

TeamDetail(roles, status) ==
    Together({Reads({<<"teams", "detail">>}), TeamHeader(roles),
              TeamAdministration(roles, status), AddMemberPanel(roles, status),
              ActiveMemberColumns(roles)})

TeamCreateForm == Together({Does({<<"teams", "create">>}), Links({"/teams"})})

TeamEditForm ==
    Together({Reads({<<"teams", "detail">>}), Does({<<"teams", "update">>}),
              Links({"/teams/:id"})})

-----------------------------------------------------------------------------
(* StandingsPage, ProfilePage, the pages of administration, NotFoundPage.    *)
StandingsColumns == Links({"/competitors/:id", "/teams/:id"})

Standings ==
    Together({Reads({<<"standings", "overall">>, <<"standings", "competitors">>,
                     <<"standings", "teams">>}),
              StandingsColumns})

Profile == Nothing

UserList == Together({Reads({<<"users", "list">>}), Links({"/users/:id", "/audit"})})

OtherProfileStatus(status) == IF status = "ACTIVE" THEN "DISABLED" ELSE "ACTIVE"

(* The button that would disable one's own profile is disabled.              *)
AccessState(status, isSelf) ==
    When(~(isSelf /\ status = "ACTIVE"),
         MovesTo(<<"users", "updateStatus">>, {OtherProfileStatus(status)}))

UserDetail(status, isSelf) ==
    Together({Reads({<<"users", "detail">>}), AccessState(status, isSelf),
              Links({"/users"})})

AuditList == Together({Reads({<<"audit", "list">>}), Links({"/audit/:id"})})

AuditDetail == Together({Reads({<<"audit", "detail">>}), Links({"/audit"})})

NotFound == Links({"/"})
=============================================================================
