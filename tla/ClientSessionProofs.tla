-------------------------- MODULE ClientSessionProofs -------------------------
(***************************************************************************)
(* The browser tab, for every set of role sets, number of calls and number *)
(* of outside events: that the pages, the routes and the controllers agree *)
(* on who may do what, and that this agreement survives what happens to    *)
(* the session, the token and the account in between.                      *)
(*                                                                         *)
(* The agreement is a fact about tables, proved section by section in the  *)
(* way the pages are put together.                                         *)
(***************************************************************************)
EXTENDS ClientSession, TLAPS

(* What a link may lead to. *)
LinkedPages == ApplicationPages \ {"*"}

MayCall(roles, call) ==
    RequiredRoles(call) \subseteq AppRole /\ roles \cap RequiredRoles(call) # {}

MayVisit(roles, page) == page \in LinkedPages /\ roles \cap RequiredRole(page) # {}

(* A user of these roles may follow each link of a section, and the backend  *)
(* answers each of its calls.                                                *)
Allows(section, roles) ==
    /\ \A call \in section.reads : MayCall(roles, call)
    /\ \A operation \in section.does : MayCall(roles, operation[1])
    /\ \A page \in section.links : MayVisit(roles, page)

-----------------------------------------------------------------------------
(* A section without content asks for nothing.                               *)
LEMMA NothingAllowed ==
    ASSUME NEW roles PROVE Allows(Nothing, roles)
BY DEF Allows, Nothing

(* A conditional section asks for something under its condition only.        *)
LEMMA WhenAllowed ==
    ASSUME NEW roles, NEW condition, NEW section, condition => Allows(section, roles)
    PROVE  Allows(When(condition, section), roles)
BY NothingAllowed DEF When

(* A page may be put together from sections a user may use.                  *)
LEMMA TogetherAllowed ==
    ASSUME NEW roles, NEW sections, \A s \in sections : Allows(s, roles)
    PROVE  Allows(Together(sections), roles)
BY DEF Together, Allows

(* Queries, links and operations.                                            *)
LEMMA ReadsAllowed ==
    ASSUME NEW roles, NEW asked, \A call \in asked : MayCall(roles, call)
    PROVE  Allows(Reads(asked), roles)
BY DEF Reads, Nothing, Allows

(* Links to pages the user may visit are a section the user may use.         *)
LEMMA LinksAllowed ==
    ASSUME NEW roles, NEW paths, \A page \in paths : MayVisit(roles, page)
    PROVE  Allows(Links(paths), roles)
BY DEF Links, Nothing, Allows

(* So are calls, made when their control is pressed, that the user may make. *)
LEMMA DoesAllowed ==
    ASSUME NEW roles, NEW asked, \A call \in asked : MayCall(roles, call)
    PROVE  Allows(Does(asked), roles)
<1>1. Does(asked).does = {<<call, "">> : call \in asked}
      /\ Does(asked).reads = {} /\ Does(asked).links = {}
  BY DEF Does, Nothing
<1>2. ASSUME NEW o \in Does(asked).does PROVE MayCall(roles, o[1])
  <2>1. PICK call \in asked : o = <<call, "">>
    BY <1>1
  <2>2. o[1] = call
    BY <2>1
  <2> QED BY <2>2
<1> QED BY <1>1, <1>2 DEF Allows

(* So are the status changes of a call that the user may make.               *)
LEMMA MovesAllowed ==
    ASSUME NEW roles, NEW call, NEW statuses, MayCall(roles, call)
    PROVE  Allows(MovesTo(call, statuses), roles)
<1>1. MovesTo(call, statuses).does = {call} \X statuses
      /\ MovesTo(call, statuses).reads = {} /\ MovesTo(call, statuses).links = {}
  BY DEF MovesTo, Nothing
<1>2. \A o \in {call} \X statuses : o[1] = call
  OBVIOUS
<1> QED BY <1>1, <1>2 DEF Allows

-----------------------------------------------------------------------------
(* The calls everybody may make who has a role at all, those of organisers   *)
(* and those of administrators.                                              *)
OpenCalls ==
    {<<"races", "list">>, <<"races", "detail">>, <<"results", "list">>,
     <<"results", "detail">>, <<"competitors", "list">>, <<"competitors", "detail">>,
     <<"teams", "list">>, <<"teams", "detail">>, <<"standings", "overall">>,
     <<"standings", "competitors">>, <<"standings", "teams">>}

OrganizerCalls ==
    {<<"races", "create">>, <<"races", "update">>, <<"races", "updateStatus">>,
     <<"races", "remove">>, <<"registrations", "list">>, <<"registrations", "create">>,
     <<"registrations", "approve">>, <<"registrations", "reject">>,
     <<"registrations", "cancel">>, <<"results", "create">>, <<"results", "update">>}

AdministratorCalls ==
    {<<"competitors", "create">>, <<"competitors", "update">>,
     <<"competitors", "updateStatus">>, <<"competitors", "remove">>,
     <<"teams", "create">>, <<"teams", "update">>, <<"teams", "updateStatus">>,
     <<"teams", "remove">>, <<"teams", "addMember">>, <<"teams", "removeMember">>,
     <<"users", "list">>, <<"users", "detail">>, <<"users", "updateStatus">>,
     <<"audit", "list">>, <<"audit", "detail">>}

(* The controllers ask for these roles.                                      *)
LEMMA OpenTable == \A call \in OpenCalls : RequiredRoles(call) = AppRole
<1>1. RequiredRoles(<<"races", "list">>) = AppRole
  BY DEF RequiredRoles, Controllers, ResourceApi, EntityMethods, RacesApi, RacesController
<1>2. RequiredRoles(<<"races", "detail">>) = AppRole
  BY DEF RequiredRoles, Controllers, ResourceApi, EntityMethods, RacesApi, RacesController
<1>3. RequiredRoles(<<"results", "list">>) = AppRole
  BY DEF RequiredRoles, Controllers, ResourceApi, ResultsApi, ResultsController
<1>4. RequiredRoles(<<"results", "detail">>) = AppRole
  BY DEF RequiredRoles, Controllers, ResourceApi, ResultsApi, ResultsController
<1>5. RequiredRoles(<<"competitors", "list">>) = AppRole
  BY DEF RequiredRoles, Controllers, ResourceApi, EntityMethods, CompetitorsApi,
         CompetitorsController
<1>6. RequiredRoles(<<"competitors", "detail">>) = AppRole
  BY DEF RequiredRoles, Controllers, ResourceApi, EntityMethods, CompetitorsApi,
         CompetitorsController
<1>7. RequiredRoles(<<"teams", "list">>) = AppRole
  BY DEF RequiredRoles, Controllers, ResourceApi, TeamsApi, TeamsController
<1>8. RequiredRoles(<<"teams", "detail">>) = AppRole
  BY DEF RequiredRoles, Controllers, ResourceApi, TeamsApi, TeamsController
<1>9. \A method \in {"overall", "competitors", "teams"} :
         RequiredRoles(<<"standings", method>>) = AppRole
  BY DEF RequiredRoles, Controllers, ResourceApi, StandingsApi, StandingsController
<1> QED BY <1>1, <1>2, <1>3, <1>4, <1>5, <1>6, <1>7, <1>8, <1>9 DEF OpenCalls

(* The endpoints that organizers and administrators may call.                *)
LEMMA OrganizerTable == \A call \in OrganizerCalls : RequiredRoles(call) = Organizers
<1>1. \A method \in {"create", "update", "updateStatus", "remove"} :
         RequiredRoles(<<"races", method>>) = Organizers
  BY DEF RequiredRoles, Controllers, ResourceApi, EntityMethods, RacesApi, RacesController
<1>2. \A method \in {"list", "create", "approve", "reject", "cancel"} :
         RequiredRoles(<<"registrations", method>>) = Organizers
  BY DEF RequiredRoles, Controllers, ResourceApi, RegistrationsApi, RegistrationsController
<1>3. \A method \in {"create", "update"} :
         RequiredRoles(<<"results", method>>) = Organizers
  BY DEF RequiredRoles, Controllers, ResourceApi, ResultsApi, ResultsController
<1> QED BY <1>1, <1>2, <1>3 DEF OrganizerCalls

(* The endpoints that only administrators may call.                          *)
LEMMA AdministratorTable ==
    \A call \in AdministratorCalls : RequiredRoles(call) = Administrators
<1>1. \A method \in {"create", "update", "updateStatus", "remove"} :
         RequiredRoles(<<"competitors", method>>) = Administrators
  BY DEF RequiredRoles, Controllers, ResourceApi, EntityMethods, CompetitorsApi,
         CompetitorsController
<1>2. \A method \in {"create", "update", "updateStatus", "remove", "addMember",
                     "removeMember"} :
         RequiredRoles(<<"teams", method>>) = Administrators
  BY DEF RequiredRoles, Controllers, ResourceApi, TeamsApi, TeamsController
<1>3. \A method \in {"list", "detail", "updateStatus"} :
         RequiredRoles(<<"users", method>>) = Administrators
  BY DEF RequiredRoles, Controllers, ResourceApi, UsersApi, UsersController
<1>4. \A method \in {"list", "detail"} :
         RequiredRoles(<<"audit", method>>) = Administrators
  BY DEF RequiredRoles, Controllers, ResourceApi, AuditApi, AuditController
<1> QED BY <1>1, <1>2, <1>3, <1>4 DEF AdministratorCalls

(* The routes ask for these.                                                 *)
LEMMA RouteTable ==
    /\ OpenPages \cup OrganizerPages \cup AdministratorPages = LinkedPages
    /\ \A page \in OpenPages \cup {"*"} : RequiredRole(page) = AppRole
    /\ \A page \in OrganizerPages : RequiredRole(page) = Organizers
    /\ \A page \in AdministratorPages : RequiredRole(page) = Administrators
BY DEF LinkedPages, ApplicationPages, OpenPages, OrganizerPages, AdministratorPages,
       RequiredRole

(* What the roles of a user give: everybody who has one may visit the open   *)
(* pages, an administrator is an organiser too.                              *)
LEMMA WhatRolesGive ==
    ASSUME NEW roles \in SUBSET AppRole, roles # {}
    PROVE  /\ \A call \in OpenCalls : MayCall(roles, call)
           /\ \A page \in OpenPages : MayVisit(roles, page)
           /\ CanManage(roles) =>
                 /\ \A call \in OrganizerCalls : MayCall(roles, call)
                 /\ \A page \in OrganizerPages : MayVisit(roles, page)
           /\ IsAdministrator(roles) =>
                 /\ CanManage(roles)
                 /\ \A call \in AdministratorCalls : MayCall(roles, call)
                 /\ \A page \in AdministratorPages : MayVisit(roles, page)
<1>1. roles \cap AppRole # {}
  OBVIOUS
<1>2. IsAdministrator(roles) => CanManage(roles)
  BY DEF IsAdministrator, CanManage, Administrators, Organizers
<1>3. OpenPages \subseteq LinkedPages /\ OrganizerPages \subseteq LinkedPages
      /\ AdministratorPages \subseteq LinkedPages
  BY RouteTable
<1>4. Organizers \subseteq AppRole /\ Administrators \subseteq AppRole
  BY DEF Organizers, Administrators, AppRole
<1> QED BY <1>1, <1>2, <1>3, <1>4, OpenTable, OrganizerTable, AdministratorTable, RouteTable
        DEF MayCall, MayVisit, CanManage, IsAdministrator

-----------------------------------------------------------------------------
(* The frame and the dashboard.                                              *)
LEMMA FrameAllowed ==
    ASSUME NEW roles \in SUBSET AppRole, roles # {}
    PROVE  Allows(Frame(roles), roles)
<1>1. \A page \in FilterNavigationByRoles(roles) \cup {"/profile"} :
         page \in OpenPages \/ (IsAdministrator(roles) /\ page \in AdministratorPages)
  BY DEF FilterNavigationByRoles, NavigationItems, OpenPages, AdministratorPages
<1> QED BY <1>1, WhatRolesGive, LinksAllowed DEF Frame

(* The dashboard offers its reader what the reader may do.                   *)
LEMMA DashboardAllowed ==
    ASSUME NEW roles \in SUBSET AppRole, roles # {}
    PROVE  Allows(Dashboard(roles), roles)
<1>1. Allows(DashboardQueries(roles), roles)
  <2>1. \A call \in {<<"races", "list">>, <<"competitors", "list">>,
                     <<"standings", "overall">>, <<"results", "list">>} : call \in OpenCalls
    BY DEF OpenCalls
  <2>2. <<"registrations", "list">> \in OrganizerCalls
    BY DEF OrganizerCalls
  <2> QED BY <2>1, <2>2, WhatRolesGive, ReadsAllowed DEF DashboardQueries
<1>2. Allows(DashboardHeader(roles), roles)
  <2>1. "/competitors/new" \in AdministratorPages /\ "/races/new" \in OrganizerPages
    BY DEF AdministratorPages, OrganizerPages
  <2> QED BY <2>1, WhatRolesGive, LinksAllowed DEF DashboardHeader
<1>3. {"/races", "/races/:id", "/standings"} \subseteq OpenPages
  BY DEF OpenPages
<1>4. Allows(FeaturedRace, roles) /\ Allows(UpcomingRacesPanel, roles)
      /\ Allows(StandingsPanel, roles)
  BY <1>3, WhatRolesGive, LinksAllowed DEF FeaturedRace, UpcomingRacesPanel, StandingsPanel
<1> QED BY <1>1, <1>2, <1>4, TogetherAllowed DEF Dashboard

-----------------------------------------------------------------------------
(* The pages of races.                                                       *)
LEMMA RaceListAllowed ==
    ASSUME NEW roles \in SUBSET AppRole, roles # {}, NEW status
    PROVE  Allows(RaceList(roles, status), roles)
<1>1. /\ <<"races", "list">> \in OpenCalls /\ "/races/:id" \in OpenPages
      /\ {"/races/:id/edit", "/races/new"} \subseteq OrganizerPages
  BY DEF OpenCalls, OpenPages, OrganizerPages
<1>2. Allows(Reads({<<"races", "list">>}), roles)
  BY <1>1, WhatRolesGive, ReadsAllowed
<1>3. Allows(RaceColumns(roles, status), roles)
  BY <1>1, WhatRolesGive, LinksAllowed DEF RaceColumns
<1>4. CanManage(roles) => Allows(Links({"/races/new"}), roles)
  BY <1>1, WhatRolesGive, LinksAllowed
<1>5. Allows(When(CanManage(roles), Links({"/races/new"})), roles)
  BY <1>4, WhenAllowed
<1> QED BY <1>2, <1>3, <1>5, TogetherAllowed DEF RaceList

(* So does the page of a race, in each status of the race.                   *)
LEMMA RaceDetailAllowed ==
    ASSUME NEW roles \in SUBSET AppRole, roles # {}, NEW status
    PROVE  Allows(RaceDetail(roles, status), roles)
<1>1. /\ <<"races", "detail">> \in OpenCalls
      /\ {"/races", "/races/:raceId/results"} \subseteq OpenPages
      /\ {<<"races", "updateStatus">>, <<"races", "remove">>} \subseteq OrganizerCalls
      /\ {"/races/:id/edit", "/races/:raceId/registrations"} \subseteq OrganizerPages
  BY DEF OpenCalls, OrganizerCalls, OpenPages, OrganizerPages
<1>2. Allows(Reads({<<"races", "detail">>}), roles)
  BY <1>1, WhatRolesGive, ReadsAllowed
<1>3. Allows(RaceHeader(roles, status), roles)
  BY <1>1, WhatRolesGive, LinksAllowed DEF RaceHeader
<1>4. Allows(RelatedModules(roles), roles)
  BY <1>1, WhatRolesGive, LinksAllowed DEF RelatedModules
<1>5. Allows(RaceLifecycle(roles, status), roles)
  <2> DEFINE moves == MovesTo(<<"races", "updateStatus">>, RaceStatusTransitions[status])
             removes == Does({<<"races", "remove">>})
  <2>1. CanManage(roles) => Allows(moves, roles) /\ Allows(removes, roles)
    BY <1>1, WhatRolesGive, MovesAllowed, DoesAllowed
  <2> HIDE DEF moves, removes
  <2>2. CanManage(roles) => Allows(Together({moves, removes}), roles)
    BY <2>1, TogetherAllowed
  <2> QED BY <2>2, WhenAllowed DEF RaceLifecycle, moves, removes
<1> QED BY <1>2, <1>3, <1>4, <1>5, TogetherAllowed DEF RaceDetail

(* The forms of a race call what those who may open them may call.           *)
LEMMA RaceFormsAllowed ==
    ASSUME NEW roles \in SUBSET AppRole, CanManage(roles), NEW status
    PROVE  Allows(RaceCreateForm, roles) /\ Allows(RaceEditForm(status), roles)
<1>1. /\ <<"races", "detail">> \in OpenCalls
      /\ {"/races", "/races/:id"} \subseteq OpenPages
      /\ {<<"races", "create">>, <<"races", "update">>} \subseteq OrganizerCalls
      /\ roles # {}
  BY DEF OpenCalls, OrganizerCalls, OpenPages, CanManage
<1>2. /\ Allows(Does({<<"races", "create">>}), roles)
      /\ Allows(Does({<<"races", "update">>}), roles)
      /\ Allows(Reads({<<"races", "detail">>}), roles)
      /\ Allows(Links({"/races"}), roles) /\ Allows(Links({"/races/:id"}), roles)
  BY <1>1, WhatRolesGive, DoesAllowed, ReadsAllowed, LinksAllowed
<1>3. Allows(RaceCreateForm, roles)
  BY <1>2, TogetherAllowed DEF RaceCreateForm
<1>4. Allows(Together({Does({<<"races", "update">>}), Links({"/races/:id"})}), roles)
  BY <1>2, TogetherAllowed
<1>5. Allows(When(status = "DRAFT",
                  Together({Does({<<"races", "update">>}), Links({"/races/:id"})})), roles)
  BY <1>4, WhenAllowed
<1> QED BY <1>2, <1>3, <1>5, TogetherAllowed DEF RaceEditForm

(* So does the page of the registrations of a race.                          *)
LEMMA RaceRegistrationsAllowed ==
    ASSUME NEW roles \in SUBSET AppRole, CanManage(roles), NEW status
    PROVE  Allows(RaceRegistrations(status), roles)
<1>1. /\ {<<"races", "detail">>, <<"competitors", "list">>, <<"teams", "list">>}
            \subseteq OpenCalls
      /\ {"/races/:id", "/competitors/:id", "/teams/:id"} \subseteq OpenPages
      /\ {<<"registrations", "list">>, <<"registrations", "create">>,
          <<"registrations", "approve">>, <<"registrations", "reject">>,
          <<"registrations", "cancel">>} \subseteq OrganizerCalls
      /\ roles # {}
  BY DEF OpenCalls, OrganizerCalls, OpenPages, CanManage
<1>2. Allows(RegistrationQueries, roles)
  BY <1>1, WhatRolesGive, ReadsAllowed DEF RegistrationQueries
<1>3. Allows(NewRegistration(status), roles)
  <2>1. Allows(Does({<<"registrations", "create">>}), roles)
    BY <1>1, WhatRolesGive, DoesAllowed
  <2> QED BY <2>1, WhenAllowed DEF NewRegistration
<1>4. Allows(RegistrationColumns, roles) /\ Allows(Links({"/races/:id"}), roles)
  BY <1>1, WhatRolesGive, LinksAllowed DEF RegistrationColumns
<1>5. ASSUME NEW s PROVE Allows(RegistrationActions(status = "OPEN_FOR_REGISTRATION", s), roles)
  <2> DEFINE decides == Does({<<"registrations", "approve">>, <<"registrations", "reject">>})
             cancels == Does({<<"registrations", "cancel">>})
  <2>1. Allows(decides, roles) /\ Allows(cancels, roles)
    BY <1>1, WhatRolesGive, DoesAllowed
  <2> HIDE DEF decides, cancels
  <2>2. /\ Allows(When(s = "PENDING", decides), roles)
        /\ Allows(When(status = "OPEN_FOR_REGISTRATION" /\ s \in {"PENDING", "APPROVED"},
                       cancels), roles)
    BY <2>1, WhenAllowed
  <2> QED BY <2>2, TogetherAllowed DEF RegistrationActions, decides, cancels
<1>6. \A section \in {RegistrationQueries, NewRegistration(status), RegistrationColumns,
                      Links({"/races/:id"})}
                     \cup {RegistrationActions(status = "OPEN_FOR_REGISTRATION", s) :
                              s \in RegistrationStatuses} : Allows(section, roles)
  BY <1>2, <1>3, <1>4, <1>5
<1> QED BY <1>6, TogetherAllowed DEF RaceRegistrations

(* The results of a race offer readers and organizers what each may do.      *)
LEMMA RaceResultsAllowed ==
    ASSUME NEW roles \in SUBSET AppRole, roles # {}, NEW status
    PROVE  Allows(RaceResults(roles, status), roles)
<1>1. /\ {<<"races", "detail">>, <<"results", "list">>} \subseteq OpenCalls
      /\ "/races/:id" \in OpenPages
      /\ {<<"registrations", "list">>, <<"results", "create">>} \subseteq OrganizerCalls
      /\ "/results/:id/edit" \in OrganizerPages
  BY DEF OpenCalls, OrganizerCalls, OpenPages, OrganizerPages
<1>2. Allows(ResultQueries(roles, status), roles)
  BY <1>1, WhatRolesGive, ReadsAllowed DEF ResultQueries
<1>3. Allows(NewResult(roles, status), roles)
  <2>1. CanManage(roles) => Allows(Does({<<"results", "create">>}), roles)
    BY <1>1, WhatRolesGive, DoesAllowed
  <2> QED BY <2>1, WhenAllowed DEF NewResult
<1>4. Allows(ResultColumns(roles), roles)
  <2>1. CanManage(roles) => Allows(Links({"/results/:id/edit"}), roles)
    BY <1>1, WhatRolesGive, LinksAllowed
  <2> QED BY <2>1, WhenAllowed DEF ResultColumns
<1>5. Allows(Links({"/races/:id"}), roles)
  BY <1>1, WhatRolesGive, LinksAllowed
<1> QED BY <1>2, <1>3, <1>4, <1>5, TogetherAllowed DEF RaceResults

(* The correction of a result calls what an organizer may call.              *)
LEMMA ResultEditAllowed ==
    ASSUME NEW roles \in SUBSET AppRole, CanManage(roles), NEW status
    PROVE  Allows(ResultEdit(status), roles)
<1>1. /\ {<<"results", "detail">>, <<"races", "detail">>} \subseteq OpenCalls
      /\ "/races/:raceId/results" \in OpenPages
      /\ <<"results", "update">> \in OrganizerCalls
      /\ roles # {}
  BY DEF OpenCalls, OrganizerCalls, OpenPages, CanManage
<1> DEFINE corrects == Does({<<"results", "update">>})
           leads == Links({"/races/:raceId/results"})
           reads == Reads({<<"results", "detail">>, <<"races", "detail">>})
<1>2. Allows(corrects, roles) /\ Allows(leads, roles) /\ Allows(reads, roles)
  BY <1>1, WhatRolesGive, DoesAllowed, LinksAllowed, ReadsAllowed
<1> HIDE DEF corrects, leads, reads
<1>3. Allows(Together({corrects, leads}), roles)
  BY <1>2, TogetherAllowed
<1>4. Allows(When(status \in {"IN_PROGRESS", "COMPLETED"}, Together({corrects, leads})), roles)
  BY <1>3, WhenAllowed
<1> QED BY <1>2, <1>4, TogetherAllowed DEF ResultEdit, corrects, leads, reads

-----------------------------------------------------------------------------
(* The pages of competitors and of teams.                                    *)
LEMMA CompetitorPagesAllowed ==
    ASSUME NEW roles \in SUBSET AppRole, roles # {}, NEW status
    PROVE  /\ Allows(CompetitorList(roles), roles)
           /\ Allows(CompetitorDetail(roles, status), roles)
<1>1. /\ {<<"competitors", "list">>, <<"competitors", "detail">>} \subseteq OpenCalls
      /\ {"/competitors", "/competitors/:id"} \subseteq OpenPages
      /\ {<<"competitors", "updateStatus">>, <<"competitors", "remove">>}
            \subseteq AdministratorCalls
      /\ {"/competitors/:id/edit", "/competitors/new"} \subseteq AdministratorPages
  BY DEF OpenCalls, AdministratorCalls, OpenPages, AdministratorPages
<1>2. Allows(CompetitorList(roles), roles)
  <2>1. Allows(Reads({<<"competitors", "list">>}), roles)
    BY <1>1, WhatRolesGive, ReadsAllowed
  <2>2. Allows(CompetitorColumns(roles), roles)
    BY <1>1, WhatRolesGive, LinksAllowed DEF CompetitorColumns
  <2>3. IsAdministrator(roles) => Allows(Links({"/competitors/new"}), roles)
    BY <1>1, WhatRolesGive, LinksAllowed
  <2>4. Allows(When(IsAdministrator(roles), Links({"/competitors/new"})), roles)
    BY <2>3, WhenAllowed
  <2> QED BY <2>1, <2>2, <2>4, TogetherAllowed DEF CompetitorList
<1>3. Allows(CompetitorDetail(roles, status), roles)
  <2>1. Allows(Reads({<<"competitors", "detail">>}), roles)
    BY <1>1, WhatRolesGive, ReadsAllowed
  <2>2. Allows(CompetitorHeader(roles), roles)
    BY <1>1, WhatRolesGive, LinksAllowed DEF CompetitorHeader
  <2> DEFINE moves == MovesTo(<<"competitors", "updateStatus">>,
                              CompetitorStatusTransitions[status])
             removes == Does({<<"competitors", "remove">>})
  <2>3. IsAdministrator(roles) => Allows(moves, roles) /\ Allows(removes, roles)
    BY <1>1, WhatRolesGive, MovesAllowed, DoesAllowed
  <2> HIDE DEF moves, removes
  <2>4. IsAdministrator(roles) => Allows(Together({moves, removes}), roles)
    BY <2>3, TogetherAllowed
  <2>5. Allows(CompetitorAdministration(roles, status), roles)
    BY <2>4, WhenAllowed DEF CompetitorAdministration, moves, removes
  <2> QED BY <2>1, <2>2, <2>5, TogetherAllowed DEF CompetitorDetail
<1> QED BY <1>2, <1>3

(* The forms of a competitor call what an administrator may call.            *)
LEMMA CompetitorFormsAllowed ==
    ASSUME NEW roles \in SUBSET AppRole, IsAdministrator(roles)
    PROVE  Allows(CompetitorCreateForm, roles) /\ Allows(CompetitorEditForm, roles)
<1>1. /\ <<"competitors", "detail">> \in OpenCalls
      /\ {"/competitors", "/competitors/:id"} \subseteq OpenPages
      /\ {<<"competitors", "create">>, <<"competitors", "update">>}
            \subseteq AdministratorCalls
      /\ roles # {}
  BY DEF OpenCalls, AdministratorCalls, OpenPages, IsAdministrator
<1>2. /\ Allows(Does({<<"competitors", "create">>}), roles)
      /\ Allows(Does({<<"competitors", "update">>}), roles)
      /\ Allows(Reads({<<"competitors", "detail">>}), roles)
      /\ Allows(Links({"/competitors"}), roles) /\ Allows(Links({"/competitors/:id"}), roles)
  BY <1>1, WhatRolesGive, DoesAllowed, ReadsAllowed, LinksAllowed
<1> QED BY <1>2, TogetherAllowed DEF CompetitorCreateForm, CompetitorEditForm

(* The pages of teams offer readers and administrators what each may do.     *)
LEMMA TeamPagesAllowed ==
    ASSUME NEW roles \in SUBSET AppRole, roles # {}, NEW status
    PROVE  Allows(TeamList(roles), roles) /\ Allows(TeamDetail(roles, status), roles)
<1>1. /\ {<<"teams", "list">>, <<"teams", "detail">>, <<"competitors", "list">>}
            \subseteq OpenCalls
      /\ {"/teams", "/teams/:id", "/competitors/:id"} \subseteq OpenPages
      /\ {<<"teams", "updateStatus">>, <<"teams", "remove">>, <<"teams", "addMember">>,
          <<"teams", "removeMember">>} \subseteq AdministratorCalls
      /\ {"/teams/:id/edit", "/teams/new"} \subseteq AdministratorPages
  BY DEF OpenCalls, AdministratorCalls, OpenPages, AdministratorPages
<1>2. Allows(TeamList(roles), roles)
  <2>1. Allows(Reads({<<"teams", "list">>}), roles)
    BY <1>1, WhatRolesGive, ReadsAllowed
  <2>2. Allows(TeamColumns(roles), roles)
    BY <1>1, WhatRolesGive, LinksAllowed DEF TeamColumns
  <2>3. IsAdministrator(roles) => Allows(Links({"/teams/new"}), roles)
    BY <1>1, WhatRolesGive, LinksAllowed
  <2>4. Allows(When(IsAdministrator(roles), Links({"/teams/new"})), roles)
    BY <2>3, WhenAllowed
  <2> QED BY <2>1, <2>2, <2>4, TogetherAllowed DEF TeamList
<1>3. Allows(Reads({<<"teams", "detail">>}), roles) /\ Allows(TeamHeader(roles), roles)
  BY <1>1, WhatRolesGive, ReadsAllowed, LinksAllowed DEF TeamHeader
<1>4. Allows(TeamAdministration(roles, status), roles)
  <2> DEFINE moves == MovesTo(<<"teams", "updateStatus">>, {OtherTeamStatus(status)})
             removes == Does({<<"teams", "remove">>})
  <2>1. IsAdministrator(roles) => Allows(moves, roles) /\ Allows(removes, roles)
    BY <1>1, WhatRolesGive, MovesAllowed, DoesAllowed
  <2> HIDE DEF moves, removes
  <2>2. IsAdministrator(roles) => Allows(Together({moves, removes}), roles)
    BY <2>1, TogetherAllowed
  <2> QED BY <2>2, WhenAllowed DEF TeamAdministration, moves, removes
<1>5. Allows(AddMemberPanel(roles, status), roles)
  <2> DEFINE finds == Reads({<<"competitors", "list">>})
             adds == Does({<<"teams", "addMember">>})
  <2>1. IsAdministrator(roles) => Allows(finds, roles) /\ Allows(adds, roles)
    BY <1>1, WhatRolesGive, ReadsAllowed, DoesAllowed
  <2> HIDE DEF finds, adds
  <2>2. IsAdministrator(roles) => Allows(Together({finds, adds}), roles)
    BY <2>1, TogetherAllowed
  <2> QED BY <2>2, WhenAllowed DEF AddMemberPanel, finds, adds
<1>6. Allows(ActiveMemberColumns(roles), roles)
  <2>1. Allows(Links({"/competitors/:id"}), roles)
    BY <1>1, WhatRolesGive, LinksAllowed
  <2>2. IsAdministrator(roles) => Allows(Does({<<"teams", "removeMember">>}), roles)
    BY <1>1, WhatRolesGive, DoesAllowed
  <2>3. Allows(When(IsAdministrator(roles), Does({<<"teams", "removeMember">>})), roles)
    BY <2>2, WhenAllowed
  <2> QED BY <2>1, <2>3, TogetherAllowed DEF ActiveMemberColumns
<1>7. Allows(TeamDetail(roles, status), roles)
  BY <1>3, <1>4, <1>5, <1>6, TogetherAllowed DEF TeamDetail
<1> QED BY <1>2, <1>7

(* The forms of a team call what an administrator may call.                  *)
LEMMA TeamFormsAllowed ==
    ASSUME NEW roles \in SUBSET AppRole, IsAdministrator(roles)
    PROVE  Allows(TeamCreateForm, roles) /\ Allows(TeamEditForm, roles)
<1>1. /\ <<"teams", "detail">> \in OpenCalls
      /\ {"/teams", "/teams/:id"} \subseteq OpenPages
      /\ {<<"teams", "create">>, <<"teams", "update">>} \subseteq AdministratorCalls
      /\ roles # {}
  BY DEF OpenCalls, AdministratorCalls, OpenPages, IsAdministrator
<1>2. /\ Allows(Does({<<"teams", "create">>}), roles)
      /\ Allows(Does({<<"teams", "update">>}), roles)
      /\ Allows(Reads({<<"teams", "detail">>}), roles)
      /\ Allows(Links({"/teams"}), roles) /\ Allows(Links({"/teams/:id"}), roles)
  BY <1>1, WhatRolesGive, DoesAllowed, ReadsAllowed, LinksAllowed
<1> QED BY <1>2, TogetherAllowed DEF TeamCreateForm, TeamEditForm

-----------------------------------------------------------------------------
(* Standings, the profile, the page for unknown paths.                       *)
LEMMA OtherPagesAllowed ==
    ASSUME NEW roles \in SUBSET AppRole, roles # {}
    PROVE  Allows(Standings, roles) /\ Allows(Profile, roles) /\ Allows(NotFound, roles)
<1>1. /\ {<<"standings", "overall">>, <<"standings", "competitors">>,
          <<"standings", "teams">>} \subseteq OpenCalls
      /\ {"/competitors/:id", "/teams/:id", "/"} \subseteq OpenPages
  BY DEF OpenCalls, OpenPages
<1> DEFINE reads == Reads({<<"standings", "overall">>, <<"standings", "competitors">>,
                           <<"standings", "teams">>})
<1>2. Allows(reads, roles)
  BY <1>1, WhatRolesGive, ReadsAllowed
<1>3. Allows(StandingsColumns, roles) /\ Allows(NotFound, roles)
  BY <1>1, WhatRolesGive, LinksAllowed DEF StandingsColumns, NotFound
<1> HIDE DEF reads
<1>4. Allows(Standings, roles)
  BY <1>2, <1>3, TogetherAllowed DEF Standings, reads
<1> QED BY <1>3, <1>4, NothingAllowed DEF Profile

(* Users and audit events.                                                   *)
LEMMA AdministrationAllowed ==
    ASSUME NEW roles \in SUBSET AppRole, IsAdministrator(roles), NEW status, NEW self
    PROVE  /\ Allows(UserList, roles) /\ Allows(UserDetail(status, self), roles)
           /\ Allows(AuditList, roles) /\ Allows(AuditDetail, roles)
<1>1. /\ {<<"users", "list">>, <<"users", "detail">>, <<"users", "updateStatus">>,
          <<"audit", "list">>, <<"audit", "detail">>} \subseteq AdministratorCalls
      /\ {"/users", "/users/:id", "/audit", "/audit/:id"} \subseteq AdministratorPages
      /\ roles # {}
  BY DEF AdministratorCalls, AdministratorPages, IsAdministrator
<1>2. /\ Allows(Reads({<<"users", "list">>}), roles)
      /\ Allows(Reads({<<"users", "detail">>}), roles)
      /\ Allows(Reads({<<"audit", "list">>}), roles)
      /\ Allows(Reads({<<"audit", "detail">>}), roles)
  BY <1>1, WhatRolesGive, ReadsAllowed
<1>3. /\ Allows(Links({"/users/:id", "/audit"}), roles)
      /\ Allows(Links({"/users"}), roles)
      /\ Allows(Links({"/audit/:id"}), roles)
      /\ Allows(Links({"/audit"}), roles)
  BY <1>1, WhatRolesGive, LinksAllowed
<1>4. Allows(AccessState(status, self), roles)
  <2>1. Allows(MovesTo(<<"users", "updateStatus">>, {OtherProfileStatus(status)}), roles)
    BY <1>1, WhatRolesGive, MovesAllowed
  <2> QED BY <2>1, WhenAllowed DEF AccessState
<1>5. Allows(UserList, roles) /\ Allows(UserDetail(status, self), roles)
  BY <1>2, <1>3, <1>4, TogetherAllowed DEF UserList, UserDetail
<1>6. Allows(AuditList, roles) /\ Allows(AuditDetail, roles)
  BY <1>2, <1>3, TogetherAllowed DEF AuditList, AuditDetail
<1> QED BY <1>5, <1>6

-----------------------------------------------------------------------------
(* The pages, the routes and the controllers agree: on a page whose gates    *)
(* let a user in, each link leads to a page whose gates do as well, and each *)
(* call is one the backend answers to a user of these roles.                 *)
LEMMA PagesAgree ==
    ASSUME NEW page \in ApplicationPages, NEW roles \in SUBSET AppRole,
           roles \cap RequiredRole(page) # {}
    PROVE  Allows(Content[page][roles], roles)
<1> DEFINE own == ContentOf(page, roles)
<1>0. roles # {}
  OBVIOUS
<1>1. page \in OrganizerPages => CanManage(roles)
  BY RouteTable DEF CanManage
<1>2. page \in AdministratorPages => IsAdministrator(roles)
  BY RouteTable DEF IsAdministrator
<1>3. ASSUME page \in {"/", "/standings", "/profile", "*"} PROVE Allows(own, roles)
  <2>1. own \in {Dashboard(roles), Standings, Profile, NotFound}
    BY <1>3 DEF ContentOf
  <2> QED BY <1>0, <2>1, DashboardAllowed, OtherPagesAllowed
<1>4. ASSUME page \in {"/races", "/races/:id", "/races/:raceId/results"}
      PROVE  Allows(own, roles)
  <2>1. own \in {Together({RaceList(roles, s) : s \in RaceStatuses}),
                 Together({RaceDetail(roles, s) : s \in RaceStatuses}),
                 Together({RaceResults(roles, s) : s \in RaceStatuses})}
    BY <1>4 DEF ContentOf
  <2>2. /\ Allows(Together({RaceList(roles, s) : s \in RaceStatuses}), roles)
        /\ Allows(Together({RaceDetail(roles, s) : s \in RaceStatuses}), roles)
        /\ Allows(Together({RaceResults(roles, s) : s \in RaceStatuses}), roles)
    BY <1>0, RaceListAllowed, RaceDetailAllowed, RaceResultsAllowed, TogetherAllowed
  <2> QED BY <2>1, <2>2
<1>5. ASSUME page \in OrganizerPages PROVE Allows(own, roles)
  <2>1. own \in {RaceCreateForm, Together({RaceEditForm(s) : s \in RaceStatuses}),
                 Together({RaceRegistrations(s) : s \in RaceStatuses}),
                 Together({ResultEdit(s) : s \in RaceStatuses})}
    BY <1>5 DEF ContentOf, OrganizerPages
  <2>2. /\ Allows(RaceCreateForm, roles)
        /\ Allows(Together({RaceEditForm(t) : t \in RaceStatuses}), roles)
        /\ Allows(Together({RaceRegistrations(t) : t \in RaceStatuses}), roles)
        /\ Allows(Together({ResultEdit(t) : t \in RaceStatuses}), roles)
    BY <1>1, <1>5, RaceFormsAllowed, RaceRegistrationsAllowed, ResultEditAllowed,
       TogetherAllowed
  <2> QED BY <2>1, <2>2
<1>6. ASSUME page \in {"/competitors", "/competitors/:id", "/teams", "/teams/:id"}
      PROVE  Allows(own, roles)
  <2> DEFINE competitors == {CompetitorDetail(roles, s) :
                                s \in DOMAIN CompetitorStatusTransitions}
             teams == {TeamDetail(roles, s) : s \in {"ACTIVE", "INACTIVE"}}
  <2>1. own \in {CompetitorList(roles), Together(competitors), TeamList(roles),
                 Together(teams)}
    BY <1>6 DEF ContentOf
  <2>2. /\ Allows(CompetitorList(roles), roles) /\ Allows(TeamList(roles), roles)
        /\ \A s : Allows(CompetitorDetail(roles, s), roles)
        /\ \A s : Allows(TeamDetail(roles, s), roles)
    BY <1>0, CompetitorPagesAllowed, TeamPagesAllowed
  <2>3. Allows(Together(competitors), roles) /\ Allows(Together(teams), roles)
    BY <2>2, TogetherAllowed
  <2> QED BY <2>1, <2>2, <2>3
<1>7. ASSUME page \in AdministratorPages PROVE Allows(own, roles)
  <2> DEFINE users == {UserDetail(s, self) : s \in {"ACTIVE", "DISABLED"}, self \in BOOLEAN}
  <2>1. own \in {CompetitorCreateForm, CompetitorEditForm, TeamCreateForm, TeamEditForm,
                 UserList, Together(users), AuditList, AuditDetail}
    BY <1>7 DEF ContentOf, AdministratorPages
  <2>2. /\ Allows(CompetitorCreateForm, roles) /\ Allows(CompetitorEditForm, roles)
        /\ Allows(TeamCreateForm, roles) /\ Allows(TeamEditForm, roles)
    BY <1>2, <1>7, CompetitorFormsAllowed, TeamFormsAllowed
  <2>3. /\ Allows(UserList, roles) /\ Allows(AuditList, roles) /\ Allows(AuditDetail, roles)
        /\ \A s, self : Allows(UserDetail(s, self), roles)
    BY <1>2, <1>7, AdministrationAllowed
  <2>4. Allows(Together(users), roles)
    BY <2>3, TogetherAllowed
  <2> HIDE DEF users
  <2> QED BY <2>1, <2>2, <2>3, <2>4
<1>8. Allows(own, roles)
  BY <1>3, <1>4, <1>5, <1>6, <1>7 DEF ApplicationPages, OpenPages
<1>9. Content[page][roles] = Together({Frame(roles), own})
  BY DEF Content
<1> HIDE DEF own
<1> QED BY <1>0, <1>8, <1>9, FrameAllowed, TogetherAllowed

-----------------------------------------------------------------------------
(* The session.  Who is signed in has a role.                                *)
RolesKnown == auth.status = "authenticated" => auth.roles # {}

(* Before the session is known nothing has been called or followed.          *)
NothingYet ==
    auth.status = "loading" =>
        place.came # "link" /\ \A c \in Slots : calls[c].at = "idle"

(* The page behind a followed link is one the user may see.                  *)
LinkVisible ==
    place.came = "link" /\ auth.status = "authenticated" /\ auth.profile = "ACTIVE" =>
        MayVisit(auth.roles, place.page)

(* What is called, the user may call, for as long as the session lasts.      *)
CallsPermitted ==
    auth.status = "authenticated" =>
        \A c \in Slots : calls[c].at \in {"waiting", "sent"} =>
                             calls[c].required \cap auth.roles # {}

AuthType ==
    [status : {"loading", "authenticated", "anonymous", "forbidden", "error"},
     roles : SUBSET AppRole, profile : {"ACTIVE", "DISABLED"}]

SessionInv == TypeOK /\ RolesKnown /\ NothingYet /\ LinkVisible /\ CallsPermitted

(* A page is shown to users of active profiles with a role it requires.      *)
LEMMA ShownIsAllowed ==
    ASSUME TypeOK, Shown
    PROVE  /\ auth.status = "authenticated" /\ auth.roles \in SUBSET AppRole
           /\ auth.roles # {}
           /\ place.page \in ApplicationPages
           /\ Allows(Content[place.page][auth.roles], auth.roles)
<1>1. /\ auth.status = "authenticated" /\ auth.roles \in SUBSET AppRole
      /\ place.page \in ApplicationPages /\ Destination(place.page) = place.page
  BY DEF Shown, Settled, TypeOK
<1>2. place.page \notin {"/login", "/access-denied", "/account-disabled"}
  BY <1>1 DEF ApplicationPages, AdministratorPages, OrganizerPages, OpenPages
<1>3. auth.roles \cap RequiredRole(place.page) # {}
  BY <1>1, <1>2 DEF Destination, ActiveProfileGate, RequiredRoleGate
<1> QED BY <1>1, <1>3, PagesAgree

(* And a page such a user may visit is not redirected.                       *)
LEMMA VisibleIsSettled ==
    ASSUME auth.status = "authenticated", auth.profile = "ACTIVE",
           MayVisit(auth.roles, place.page)
    PROVE  Settled /\ place.page # "*"
<1>1. place.page \notin {"/login", "/access-denied", "/account-disabled", "*"}
  BY DEF MayVisit, LinkedPages, ApplicationPages, AdministratorPages, OrganizerPages,
         OpenPages
<1> QED BY <1>1 DEF Settled, Destination, ActiveProfileGate, RequiredRoleGate, MayVisit

(* The gates send the browser to routes only.                                *)
LEMMA GatesLeadToRoutes ==
    ASSUME NEW page \in Routes PROVE Destination(page) \in Routes
<1>1. {"/login", "/access-denied", "/account-disabled", "/"} \subseteq Routes
  BY DEF Routes, ApplicationPages, OpenPages
<1> QED BY <1>1 DEF Destination, ProtectedRoute, AnonymousRoute, DisabledProfileGate,
                    ActiveProfileGate, RequiredRoleGate

-----------------------------------------------------------------------------
(* The tab loads the application: it has forgotten everything.               *)
LEMMA LoadKeeps ==
    ASSUME SessionInv, NEW page \in Routes, LoadAt(page),
           account' \in [roles : RoleSets, profile : {"ACTIVE", "DISABLED"}, sso : BOOLEAN],
           changes' \in 0 .. MaxChanges
    PROVE  SessionInv'
<1>1. "/" \in Routes
  BY DEF Routes, ApplicationPages, OpenPages
<1>2. \A c \in Slots : calls'[c] = [at |-> "idle"]
  BY DEF LoadAt, Idle
<1>3. auth' = [status |-> "loading", roles |-> {}, profile |-> "ACTIVE"]
      /\ place' = [page |-> page, came |-> "typed", returnTo |-> "/"]
  BY DEF LoadAt, SignedOut
<1>4. TypeOK'
  BY <1>1, <1>2, <1>3 DEF TypeOK, LoadAt
<1> QED BY <1>2, <1>3, <1>4 DEF SessionInv, RolesKnown, NothingYet, LinkVisible,
                                CallsPermitted

(* An address typed in the address bar loads the tab anew.                   *)
LEMMA AddressKeeps == ASSUME SessionInv, TypeAddress PROVE SessionInv'
<1>1. changes' \in 0 .. MaxChanges
  BY ClientSessionAssumption DEF TypeAddress, SessionInv, TypeOK, ClientSessionAssumption
<1> QED BY <1>1, LoadKeeps DEF TypeAddress, SessionInv, TypeOK

(* So does coming back from the sign-in page of Keycloak.                    *)
LEMMA LoginKeeps == ASSUME SessionInv, Login PROVE SessionInv'
<1>1. changes' \in 0 .. MaxChanges
  BY ClientSessionAssumption DEF Login, SessionInv, TypeOK, ClientSessionAssumption
<1>2. place.returnTo \in Routes
      /\ account' \in [roles : RoleSets, profile : {"ACTIVE", "DISABLED"}, sso : BOOLEAN]
  BY DEF Login, SessionInv, TypeOK
<1> QED BY <1>1, <1>2, LoadKeeps DEF Login

(* So does signing out.                                                      *)
LEMMA LogoutKeeps == ASSUME SessionInv, Logout PROVE SessionInv'
<1>1. changes' \in 0 .. MaxChanges
  BY ClientSessionAssumption DEF Logout, SessionInv, TypeOK, ClientSessionAssumption
<1>2. "/login" \in Routes
      /\ account' \in [roles : RoleSets, profile : {"ACTIVE", "DISABLED"}, sso : BOOLEAN]
  BY DEF Logout, SessionInv, TypeOK, Routes
<1> QED BY <1>1, <1>2, LoadKeeps DEF Logout

-----------------------------------------------------------------------------
(* The session is asked for, and nothing has been called before it is known. *)
LEMMA InitializeKeeps == ASSUME SessionInv, InitializeKeycloak PROVE SessionInv'
<1>1. /\ token' \in [roles : RoleSets, valid : BOOLEAN, held : {TRUE}] \cup {NoToken}
      /\ auth' = auth \/ auth' = [status |-> "anonymous", roles |-> {}, profile |-> "ACTIVE"]
  <2>1. /\ token' = token \/ token' = IssuedToken
        /\ auth' = auth \/ auth' = SignedOut("anonymous")
    BY DEF InitializeKeycloak
  <2>2. IssuedToken \in [roles : RoleSets, valid : BOOLEAN, held : {TRUE}]
    BY DEF IssuedToken, SessionInv, TypeOK
  <2> QED BY <2>1, <2>2 DEF SessionInv, TypeOK, SignedOut
<1>2. auth' \in AuthType
  <2>1. auth \in AuthType
    BY DEF SessionInv, TypeOK, AuthType
  <2>2. [status |-> "anonymous", roles |-> {}, profile |-> "ACTIVE"] \in AuthType
    BY DEF AuthType
  <2> QED BY <1>1, <2>1, <2>2
<1>3. TypeOK'
  BY <1>1, <1>2 DEF SessionInv, TypeOK, InitializeKeycloak, AuthType
<1>4. UNCHANGED <<place, calls>>
  BY DEF InitializeKeycloak
<1>5. NothingYet' /\ RolesKnown' /\ LinkVisible'
  BY <1>1, <1>4 DEF SessionInv, RolesKnown, NothingYet, LinkVisible
<1>6. CallsPermitted'
  BY <1>1, <1>4 DEF SessionInv, CallsPermitted
<1> QED BY <1>3, <1>5, <1>6 DEF SessionInv

(* The session is known once the backend has said who the user is.           *)
LEMMA LoadSessionKeeps == ASSUME SessionInv, LoadSession PROVE SessionInv'
<1>1. /\ auth.status = "loading" /\ place.came # "link"
      /\ \A c \in Slots : calls[c].at = "idle"
  BY DEF LoadSession, SessionInv, NothingYet
<1>2. \/ /\ auth' = [status |-> "authenticated", roles |-> ExtractRoles(token.roles),
                     profile |-> account.profile]
         /\ ExtractRoles(token.roles) # {}
      \/ auth' = [status |-> "anonymous", roles |-> {}, profile |-> "ACTIVE"]
      \/ auth' = [status |-> "forbidden", roles |-> {}, profile |-> "ACTIVE"]
  <2>1. CASE ~token.valid
    BY <2>1 DEF LoadSession, OpeningStatus, SignedOut
  <2>2. CASE token.valid /\ RolesGuard(AuthController["getMe"], token.roles)
    BY <2>2 DEF LoadSession, OpeningStatus, RolesGuard
  <2>3. CASE token.valid /\ ~RolesGuard(AuthController["getMe"], token.roles)
    BY <2>3 DEF LoadSession, OpeningStatus, SignedOut
  <2> QED BY <2>1, <2>2, <2>3
<1>3. ExtractRoles(token.roles) \in SUBSET AppRole
  BY DEF ExtractRoles
<1>4. auth' \in AuthType /\ RolesKnown' /\ auth'.status # "loading"
  BY <1>2, <1>3 DEF SessionInv, TypeOK, RolesKnown, AuthType
<1>5. token' = token \/ token' = NoToken
  BY DEF LoadSession
<1>6. TypeOK'
  BY <1>4, <1>5 DEF SessionInv, TypeOK, LoadSession, AuthType
<1> QED BY <1>1, <1>4, <1>6 DEF SessionInv, LoadSession, NothingYet, LinkVisible,
                                CallsPermitted

(* A session that cannot be loaded shows nothing.                            *)
LEMMA BootstrapFailsKeeps == ASSUME SessionInv, BootstrapFails PROVE SessionInv'
<1>1. auth' = [status |-> "error", roles |-> {}, profile |-> "ACTIVE"]
  BY DEF BootstrapFails, SignedOut
<1>2. auth' \in AuthType
  BY <1>1 DEF AuthType
<1>3. TypeOK'
  BY <1>2 DEF SessionInv, TypeOK, BootstrapFails, AuthType
<1> QED BY <1>1, <1>3 DEF SessionInv, BootstrapFails, RolesKnown, NothingYet,
                          LinkVisible, CallsPermitted

-----------------------------------------------------------------------------
(* The router. *)
LEMMA RedirectKeeps == ASSUME SessionInv, Redirect PROVE SessionInv'
<1>1. place.page \in Routes /\ Destination(place.page) \in Routes /\ "/" \in Routes
  BY GatesLeadToRoutes DEF SessionInv, TypeOK, Routes, ApplicationPages, OpenPages
<1>2. place' \in [page : Routes, came : {"typed", "link", "redirect"}, returnTo : Routes]
      /\ place'.came = "redirect"
  BY <1>1 DEF Redirect
<1>3. TypeOK'
  BY <1>2 DEF SessionInv, TypeOK, Redirect
<1> QED BY <1>2, <1>3 DEF SessionInv, Redirect, RolesKnown, NothingYet, LinkVisible,
                          CallsPermitted

(* A link of a page that is shown leads to a page the user may visit; so     *)
(* does the one of AccessDeniedPage, for a user with a role.                 *)
LEMMA FollowKeeps == ASSUME SessionInv, FollowLink PROVE SessionInv'
<1>1. PICK page \in IF Shown THEN Content[place.page][auth.roles].links
                    ELSE IF place.page = "/access-denied" /\ auth.status = "authenticated"
                         THEN {"/"} ELSE {} :
              place' = [page |-> page, came |-> "link", returnTo |-> "/"]
  BY DEF FollowLink
<1>2. MayVisit(auth.roles, page) /\ auth.status = "authenticated"
  <2>1. CASE Shown
    BY <1>1, <2>1, ShownIsAllowed DEF SessionInv, Allows
  <2>2. CASE ~Shown
    <3>1. page = "/" /\ auth.status = "authenticated" /\ auth.roles # {}
          /\ auth.roles \in SUBSET AppRole
      BY <1>1, <2>2 DEF SessionInv, RolesKnown, TypeOK
    <3>2. "/" \in OpenPages
      BY DEF OpenPages
    <3> QED BY <3>1, <3>2, WhatRolesGive
  <2> QED BY <2>1, <2>2
<1>3. page \in Routes /\ "/" \in Routes
  BY <1>2 DEF MayVisit, LinkedPages, Routes, ApplicationPages, OpenPages
<1>4. \A c \in Slots : \/ calls'[c] = [at |-> "idle"]
                       \/ calls'[c] = calls[c]
  BY DEF FollowLink, Idle
<1>5. refresh' = "none" => \A c \in Slots : calls'[c].at # "waiting"
  BY <1>4 DEF FollowLink, SessionInv, TypeOK
<1>6. /\ refresh' \in {"none", "asked", "exchanging"}
      /\ calls' \in [Slots -> Call \cup {Idle}]
  BY <1>4 DEF FollowLink, SessionInv, TypeOK, Idle
<1>7. TypeOK'
  BY <1>1, <1>3, <1>5, <1>6 DEF SessionInv, TypeOK, FollowLink
<1>8. UNCHANGED auth
  BY DEF FollowLink
<1> QED BY <1>1, <1>2, <1>4, <1>7, <1>8
        DEF SessionInv, RolesKnown, NothingYet, LinkVisible, CallsPermitted

-----------------------------------------------------------------------------
(* A call of a page that is shown is one its user may make.                  *)
LEMMA StartKeeps ==
    ASSUME SessionInv, NEW c \in Slots, StartCall(c)
    PROVE  SessionInv'
<1>1. PICK call, aborts :
         /\ aborts \in BOOLEAN
         /\ calls' = [calls EXCEPT ![c] =
                [at |-> "waiting", required |-> RequiredRoles(call), aborts |-> aborts]]
         /\ MayCall(auth.roles, call)
  <2> DEFINE content == Content[place.page][auth.roles]
  <2>1. Allows(content, auth.roles)
    BY ShownIsAllowed DEF StartCall, SessionInv
  <2> DEFINE Started(call, aborts) ==
               /\ aborts \in BOOLEAN
               /\ calls' = [calls EXCEPT ![c] =
                     [at |-> "waiting", required |-> RequiredRoles(call), aborts |-> aborts]]
               /\ MayCall(auth.roles, call)
  <2>2. ASSUME NEW call \in content.reads,
               calls' = [calls EXCEPT ![c] =
                  [at |-> "waiting", required |-> RequiredRoles(call), aborts |-> TRUE]]
        PROVE  \E other, aborts : Started(other, aborts)
    <3>1. Started(call, TRUE)
      BY <2>1, <2>2 DEF Allows
    <3> QED BY <3>1
  <2>3. ASSUME NEW operation \in content.does,
               calls' = [calls EXCEPT ![c] =
                  [at |-> "waiting", required |-> RequiredRoles(operation[1]),
                   aborts |-> FALSE]]
        PROVE  \E other, aborts : Started(other, aborts)
    <3>1. Started(operation[1], FALSE)
      BY <2>1, <2>3 DEF Allows
    <3> QED BY <3>1
  <2>4. \E other, aborts : Started(other, aborts)
    BY <2>2, <2>3 DEF StartCall
  <2> QED BY <2>4
<1> DEFINE new == [at |-> "waiting", required |-> RequiredRoles(call), aborts |-> aborts]
<1>2. new \in Call /\ new.at = "waiting" /\ new.required = RequiredRoles(call)
  BY <1>1 DEF Call, MayCall
<1> HIDE DEF new
<1>3. /\ calls' \in [Slots -> Call \cup {Idle}]
      /\ calls'[c] = new
      /\ \A d \in Slots \ {c} : calls'[d] = calls[d]
  BY <1>1, <1>2 DEF SessionInv, TypeOK, new
<1>4. refresh' \in {"asked", "exchanging"} /\ auth.status = "authenticated"
  BY DEF StartCall, SessionInv, TypeOK, Shown
<1>5. TypeOK'
  BY <1>3, <1>4 DEF SessionInv, TypeOK, StartCall
<1>6. UNCHANGED <<auth, place>>
  BY DEF StartCall
<1>7. CallsPermitted'
  BY <1>1, <1>2, <1>3, <1>6 DEF SessionInv, CallsPermitted, MayCall
<1> QED BY <1>4, <1>5, <1>6, <1>7 DEF SessionInv, RolesKnown, NothingYet, LinkVisible

(* A step in which calls end, or wait and are sent, and the session stays.   *)
LEMMA CallsGoOn ==
    ASSUME SessionInv, TypeOK', UNCHANGED <<auth, place>>,
           \A c \in Slots : \/ calls'[c] = calls[c]
                            \/ calls'[c].at \notin {"waiting", "sent"}
                               /\ calls[c].at # "idle"
                            \/ calls'[c].at = "sent" /\ calls[c].at \in {"waiting", "sent"}
                               /\ calls'[c].required = calls[c].required
    PROVE  SessionInv'
<1>1. CallsPermitted'
  BY DEF SessionInv, CallsPermitted
<1>2. NothingYet'
  BY DEF SessionInv, NothingYet
<1> QED BY <1>1, <1>2 DEF SessionInv, RolesKnown, LinkVisible

(* What is known of a call that waits, and of one that has been sent.        *)
Waiting == [at : {"waiting"}, required : SUBSET AppRole, aborts : BOOLEAN]
OnItsWay == [at : {"sent"}, required : SUBSET AppRole, aborts : BOOLEAN,
             bearer : [roles : RoleSets, valid : BOOLEAN, held : {TRUE}]]

(* The state of a call says which fields it has.                             *)
LEMMA CallForms ==
    ASSUME NEW call \in Call \cup {Idle}
    PROVE  /\ call.at = "waiting" => call \in Waiting
           /\ call.at = "sent" => call \in OnItsWay
<1>1. CASE call \in Waiting
  <2>1. call.at = "waiting"
    BY <1>1 DEF Waiting
  <2> QED BY <1>1, <2>1
<1>2. CASE call \in OnItsWay
  <2>1. call.at = "sent"
    BY <1>2 DEF OnItsWay
  <2> QED BY <1>2, <2>1
<1>3. CASE call \in [at : {"done", "forbidden", "unauthorized", "expired"}]
  <2>1. call.at \in {"done", "forbidden", "unauthorized", "expired"}
    BY <1>3
  <2> QED BY <2>1
<1>4. CASE call = Idle
  BY <1>4 DEF Idle
<1> QED BY <1>1, <1>2, <1>3, <1>4 DEF Call, Waiting, OnItsWay

(* A step that sends what waits leaves nobody waiting.                       *)
LEMMA SentTyped ==
    ASSUME TypeOK, NEW bearer \in [roles : RoleSets, valid : BOOLEAN, held : {TRUE}],
           calls' = Sent(bearer)
    PROVE  /\ calls' \in [Slots -> Call \cup {Idle}]
           /\ \A c \in Slots : calls'[c].at # "waiting"
           /\ \A c \in Slots : \/ calls'[c] = calls[c]
                               \/ calls'[c].at = "sent" /\ calls[c].at = "waiting"
                                  /\ calls'[c].required = calls[c].required
<1> DEFINE new(c) == [at |-> "sent", required |-> calls[c].required,
                      aborts |-> calls[c].aborts, bearer |-> bearer]
<1>1. ASSUME NEW c \in Slots, calls[c].at = "waiting"
      PROVE  new(c) \in Call
  <2>1. calls[c] \in Waiting
    BY <1>1, CallForms DEF TypeOK
  <2> QED BY <2>1 DEF Call, Waiting
<1>2. \A c \in Slots : calls'[c] = IF calls[c].at = "waiting" THEN new(c) ELSE calls[c]
  BY DEF Sent
<1>3. \A c \in Slots : new(c).at = "sent" /\ new(c).required = calls[c].required
  OBVIOUS
<1>4. DOMAIN calls' = Slots /\ calls' = [c \in Slots |-> calls'[c]]
  BY DEF Sent
<1> HIDE DEF new
<1>5. \A c \in Slots : calls'[c] \in Call \cup {Idle}
  BY <1>1, <1>2 DEF TypeOK
<1>6. calls' \in [Slots -> Call \cup {Idle}]
  BY <1>4, <1>5
<1> QED BY <1>2, <1>3, <1>6

(* A token that is still valid is sent with every call that waits.           *)
LEMMA TokenKeptKeeps == ASSUME SessionInv, TokenKept PROVE SessionInv'
<1>1. token \in [roles : RoleSets, valid : BOOLEAN, held : {TRUE}]
  <2>1. token \in [roles : RoleSets, valid : BOOLEAN, held : {TRUE}] \cup {NoToken}
    BY DEF SessionInv, TypeOK
  <2>2. token.held /\ ~NoToken.held
    BY DEF TokenKept, NoToken
  <2>3. token # NoToken
    BY ONLY <2>2, Zenon
  <2> QED BY <2>1, <2>3
<1>2. /\ calls' \in [Slots -> Call \cup {Idle}]
      /\ \A c \in Slots : calls'[c].at # "waiting"
      /\ \A c \in Slots : \/ calls'[c] = calls[c]
                          \/ calls'[c].at = "sent" /\ calls[c].at = "waiting"
                             /\ calls'[c].required = calls[c].required
  BY <1>1, SentTyped DEF TokenKept, SessionInv
<1>3. TypeOK'
  BY <1>2 DEF TokenKept, SessionInv, TypeOK
<1> QED BY <1>2, <1>3, CallsGoOn DEF TokenKept

(* The exchange of the token begins, and the calls go on waiting.            *)
LEMMA BeginExchangeKeeps == ASSUME SessionInv, BeginExchange PROVE SessionInv'
<1>1. TypeOK'
  BY DEF BeginExchange, SessionInv, TypeOK
<1> QED BY <1>1, CallsGoOn DEF BeginExchange

(* The new token is sent with every call that waits.                         *)
LEMMA ExchangedKeeps == ASSUME SessionInv, TokenExchanged PROVE SessionInv'
<1>1. IssuedToken \in [roles : RoleSets, valid : BOOLEAN, held : {TRUE}]
  BY DEF IssuedToken, SessionInv, TypeOK
<1>2. /\ calls' \in [Slots -> Call \cup {Idle}]
      /\ \A c \in Slots : calls'[c].at # "waiting"
      /\ \A c \in Slots : \/ calls'[c] = calls[c]
                          \/ calls'[c].at = "sent" /\ calls[c].at = "waiting"
                             /\ calls'[c].required = calls[c].required
  BY <1>1, SentTyped DEF TokenExchanged, SessionInv
<1>3. TypeOK'
  BY <1>1, <1>2 DEF TokenExchanged, SessionInv, TypeOK
<1> QED BY <1>2, <1>3, CallsGoOn DEF TokenExchanged

(* The request for a token fails: nobody waits any more.                     *)
LEMMA RefusedKeeps == ASSUME SessionInv, TokenRefused PROVE SessionInv'
<1>1. \A c \in Slots : calls'[c] = IF calls[c].at = "waiting" THEN [at |-> "expired"]
                                                             ELSE calls[c]
  BY DEF TokenRefused, WaitersFail
<1>2. [at |-> "expired"] \in Call
  BY DEF Call
<1>3. calls' \in [Slots -> Call \cup {Idle}]
  BY <1>2 DEF TokenRefused, WaitersFail, SessionInv, TypeOK
<1>4. TypeOK'
  BY <1>1, <1>3 DEF TokenRefused, SessionInv, TypeOK
<1> QED BY <1>1, <1>4, CallsGoOn DEF TokenRefused

(* An answer ends its call; a 401 ends the session.                          *)
LEMMA AnswerKeeps ==
    ASSUME SessionInv, NEW c \in Slots, Answer(c)
    PROVE  SessionInv'
<1>1. PICK at \in {"done", "unauthorized", "forbidden"} :
         calls' = [calls EXCEPT ![c] = [at |-> at]]
  <2> DEFINE status == StatusOf(calls[c].required, calls[c].bearer, account.profile)
             answer == CASE status = 200 -> "done"
                         [] status = 401 -> "unauthorized"
                         [] status = 403 -> "forbidden"
  <2>1. status \in {200, 401, 403}
    BY DEF StatusOf
  <2>2. calls' = [calls EXCEPT ![c] = [at |-> answer]]
    BY DEF Answer
  <2> HIDE DEF status
  <2>3. answer \in {"done", "unauthorized", "forbidden"}
    BY <2>1
  <2> HIDE DEF answer
  <2> QED BY <2>2, <2>3
<1>2. [at |-> at] \in Call
  BY DEF Call
<1>3. /\ calls' \in [Slots -> Call \cup {Idle}] /\ calls'[c] = [at |-> at]
      /\ \A d \in Slots \ {c} : calls'[d] = calls[d]
  BY <1>1, <1>2 DEF SessionInv, TypeOK
<1>4. calls[c].at = "sent" /\ auth.status # "loading"
  BY DEF Answer, SessionInv, NothingYet
<1>5. /\ auth' = auth \/ auth' = [status |-> "anonymous", roles |-> {}, profile |-> "ACTIVE"]
      /\ token' = token \/ token' = NoToken
  BY DEF Answer, SignedOut
<1>6. auth' \in AuthType
  <2>1. auth \in AuthType
    BY DEF SessionInv, TypeOK, AuthType
  <2>2. [status |-> "anonymous", roles |-> {}, profile |-> "ACTIVE"] \in AuthType
    BY DEF AuthType
  <2> QED BY <1>5, <2>1, <2>2
<1>7. \A d \in Slots : calls'[d].at = "waiting" => calls[d].at = "waiting"
  BY <1>3
<1>8. TypeOK'
  BY <1>3, <1>5, <1>6, <1>7 DEF SessionInv, TypeOK, Answer, AuthType
<1>9. CASE auth' = auth
  BY <1>3, <1>4, <1>8, <1>9, CallsGoOn DEF Answer
<1>10. CASE auth' # auth
  <2>1. auth'.status = "anonymous"
    BY <1>5, <1>10
  <2> QED BY <1>8, <2>1 DEF SessionInv, RolesKnown, NothingYet, LinkVisible, CallsPermitted
<1> QED BY <1>9, <1>10

(* A call whose answer the page has seen leaves its slot.                    *)
LEMMA DismissKeeps ==
    ASSUME SessionInv, NEW c \in Slots, Dismiss(c)
    PROVE  SessionInv'
<1>1. /\ calls' \in [Slots -> Call \cup {Idle}] /\ calls'[c] = [at |-> "idle"]
      /\ \A d \in Slots \ {c} : calls'[d] = calls[d]
  BY DEF Dismiss, SessionInv, TypeOK, Idle
<1>2. calls[c].at # "idle"
  BY DEF Dismiss
<1>3. TypeOK'
  <2>1. \A d \in Slots : calls'[d].at = "waiting" => calls[d].at = "waiting"
    BY <1>1
  <2> QED BY <1>1, <2>1 DEF Dismiss, SessionInv, TypeOK
<1> QED BY <1>1, <1>2, <1>3, CallsGoOn DEF Dismiss

-----------------------------------------------------------------------------
(* What happens to the account is not seen by the tab.                       *)
LEMMA AccountKeeps == ASSUME SessionInv, AccountChanges PROVE SessionInv'
<1>1. changes' \in 0 .. MaxChanges
  BY ClientSessionAssumption DEF AccountChanges, SessionInv, TypeOK, ClientSessionAssumption
<1>2. account' \in [roles : RoleSets, profile : {"ACTIVE", "DISABLED"}, sso : BOOLEAN]
  <2>1. account \in [roles : RoleSets, profile : {"ACTIVE", "DISABLED"}, sso : BOOLEAN]
    BY DEF SessionInv, TypeOK
  <2>2. CASE \E roles \in RoleSets : account' = [account EXCEPT !.roles = roles]
    BY <2>1, <2>2
  <2>3. CASE \E profile \in {"ACTIVE", "DISABLED"} :
                account' = [account EXCEPT !.profile = profile]
    BY <2>1, <2>3
  <2>4. CASE account' = [account EXCEPT !.sso = FALSE]
    BY <2>1, <2>4
  <2> QED BY <2>2, <2>3, <2>4 DEF AccountChanges
<1>3. TypeOK'
  BY <1>1, <1>2 DEF AccountChanges, SessionInv, TypeOK
<1> QED BY <1>3, CallsGoOn DEF AccountChanges

(* Tokens expire on their way too, which changes no other part of a call.    *)
LEMMA ExpireKeeps == ASSUME SessionInv, TokensExpire PROVE SessionInv'
<1>1. changes' \in 0 .. MaxChanges
  BY ClientSessionAssumption DEF TokensExpire, SessionInv, TypeOK, ClientSessionAssumption
<1>2. token' \in [roles : RoleSets, valid : BOOLEAN, held : {TRUE}] \cup {NoToken}
  <2>1. token' = [token EXCEPT !.valid = FALSE]
    BY DEF TokensExpire
  <2>2. CASE token = NoToken
    BY <2>1, <2>2 DEF NoToken
  <2>3. CASE token \in [roles : RoleSets, valid : BOOLEAN, held : {TRUE}]
    BY <2>1, <2>3
  <2> QED BY <2>2, <2>3 DEF SessionInv, TypeOK
<1>3. ASSUME NEW c \in Slots, calls[c].at = "sent"
      PROVE  /\ [calls[c] EXCEPT !.bearer.valid = FALSE] \in Call
             /\ [calls[c] EXCEPT !.bearer.valid = FALSE].at = "sent"
             /\ [calls[c] EXCEPT !.bearer.valid = FALSE].required = calls[c].required
  <2>1. calls[c] \in OnItsWay
    BY <1>3, CallForms DEF SessionInv, TypeOK
  <2> DEFINE bearer == [calls[c].bearer EXCEPT !.valid = FALSE]
             expired == [calls[c] EXCEPT !.bearer = bearer]
  <2>2. bearer \in [roles : RoleSets, valid : BOOLEAN, held : {TRUE}]
    BY <2>1 DEF OnItsWay
  <2> HIDE DEF bearer
  <2>3. expired \in OnItsWay /\ expired.at = "sent"
        /\ expired.required = calls[c].required
    BY <2>1, <2>2 DEF OnItsWay
  <2>4. expired = [calls[c] EXCEPT !.bearer.valid = FALSE]
    BY DEF bearer
  <2> QED BY <2>3, <2>4 DEF Call, OnItsWay
<1>4. /\ DOMAIN calls' = Slots /\ calls' = [c \in Slots |-> calls'[c]]
      /\ \A c \in Slots : calls'[c] = IF calls[c].at = "sent"
                                      THEN [calls[c] EXCEPT !.bearer.valid = FALSE]
                                      ELSE calls[c]
  BY DEF TokensExpire
<1>5. \A c \in Slots : calls'[c] \in Call \cup {Idle}
  BY <1>3, <1>4 DEF SessionInv, TypeOK
<1>6. calls' \in [Slots -> Call \cup {Idle}]
  BY <1>4, <1>5
<1>7. \A c \in Slots : \/ calls'[c] = calls[c]
                       \/ calls'[c].at = "sent" /\ calls[c].at = "sent"
                          /\ calls'[c].required = calls[c].required
  BY <1>3, <1>4
<1>8. TypeOK'
  BY <1>1, <1>2, <1>6, <1>7 DEF TokensExpire, SessionInv, TypeOK
<1> QED BY <1>7, <1>8, CallsGoOn DEF TokensExpire

-----------------------------------------------------------------------------
(* The inductive invariant of the tab: its types, and that what it has       *)
(* followed and called is what its user may see and call.                    *)
THEOREM SessionInvariant == Spec => []SessionInv
<1>1. Init => SessionInv
  <2> SUFFICES ASSUME Init PROVE SessionInv
    OBVIOUS
  <2>1. /\ auth = [status |-> "loading", roles |-> {}, profile |-> "ACTIVE"]
        /\ \A c \in Slots : calls[c].at = "idle"
        /\ place.came = "typed"
    BY DEF Init, SignedOut, Idle
  <2>2. "/" \in Routes /\ 0 \in 0 .. MaxChanges
    BY ClientSessionAssumption
       DEF Routes, ApplicationPages, OpenPages, ClientSessionAssumption
  <2>3. TypeOK
    BY <2>1, <2>2 DEF Init, TypeOK
  <2> QED BY <2>1, <2>3 DEF SessionInv, RolesKnown, NothingYet, LinkVisible, CallsPermitted
<1>2. SessionInv /\ [Next]_vars => SessionInv'
  <2> SUFFICES ASSUME SessionInv, [Next]_vars PROVE SessionInv'
    OBVIOUS
  <2>1. CASE Bootstrap \/ BootstrapFails
    BY <2>1, InitializeKeeps, LoadSessionKeeps, BootstrapFailsKeeps DEF Bootstrap
  <2>2. CASE Redirect \/ FollowLink \/ TypeAddress \/ Login \/ Logout
    BY <2>2, RedirectKeeps, FollowKeeps, AddressKeeps, LoginKeeps, LogoutKeeps
  <2>3. CASE TokenRequest
    BY <2>3, TokenKeptKeeps, BeginExchangeKeeps, ExchangedKeeps, RefusedKeeps
       DEF TokenRequest
  <2>4. CASE \E c \in Slots : StartCall(c) \/ Answer(c) \/ Dismiss(c)
    BY <2>4, StartKeeps, AnswerKeeps, DismissKeeps
  <2>5. CASE AccountChanges \/ TokensExpire
    BY <2>5, AccountKeeps, ExpireKeeps
  <2>6. CASE UNCHANGED vars
    <3>1. TypeOK'
      BY <2>6 DEF vars, SessionInv, TypeOK
    <3> QED BY <2>6, <3>1, CallsGoOn DEF vars
  <2> QED BY <2>1, <2>2, <2>3, <2>4, <2>5, <2>6 DEF Next
<1> QED BY <1>1, <1>2, PTL DEF Spec

(* A link a user of an active profile sees leads to a page that the gates    *)
(* let them see, whatever has happened to the account, the token and the     *)
(* calls since the page was rendered.                                        *)
THEOREM LinksLeadToPagesAlways == Spec => []LinksLeadToPages
<1>1. SessionInv => LinksLeadToPages
  BY VisibleIsSettled DEF SessionInv, LinkVisible, LinksLeadToPages
<1> QED BY <1>1, SessionInvariant, PTL

(* The backend forbids a call of a session only because the roles in the     *)
(* token or the profile have changed since the tab read them: no page calls  *)
(* what its own gates do not guarantee.                                      *)
THEOREM ForbiddenIsNewsAlways == Spec => ForbiddenIsNews
<1> DEFINE A == \A c \in Slots :
              calls[c].at = "sent" /\ calls'[c].at = "forbidden" =>
                  \/ auth.status # "authenticated"
                  \/ ExtractRoles(calls[c].bearer.roles) # auth.roles
                  \/ account.profile = "DISABLED"
<1>1. SessionInv /\ [Next]_vars => [A]_vars
  <2> SUFFICES ASSUME SessionInv, Next, NEW c \in Slots,
                      calls[c].at = "sent", calls'[c].at = "forbidden",
                      auth.status = "authenticated",
                      ExtractRoles(calls[c].bearer.roles) = auth.roles,
                      account.profile # "DISABLED"
               PROVE  FALSE
    BY DEF vars
  <2>1. calls \in [Slots -> Call \cup {Idle}] /\ account.profile = "ACTIVE"
    BY DEF SessionInv, TypeOK
  <2>2. Answer(c)
    <3>1. CASE \E d \in Slots : StartCall(d) \/ Dismiss(d)
      BY <2>1, <3>1 DEF StartCall, Dismiss, Idle
    <3>2. CASE \E d \in Slots : Answer(d)
      <4>1. PICK d \in Slots : Answer(d)
        BY <3>2
      <4>2. d # c => calls'[c] = calls[c]
        BY <2>1, <4>1 DEF Answer
      <4> QED BY <4>1, <4>2
    <3>3. CASE TypeAddress \/ Login \/ Logout
      BY <3>3 DEF TypeAddress, Login, Logout, LoadAt, Idle
    <3>4. CASE FollowLink
      BY <3>4 DEF FollowLink, Idle
    <3>5. CASE TokenRequest
      BY <3>5 DEF TokenRequest, TokenKept, BeginExchange, TokenExchanged, TokenRefused,
                  Sent, WaitersFail
    <3>6. CASE TokensExpire
      <4>1. calls[c] \in OnItsWay
        BY <2>1, CallForms
      <4>2. calls'[c] = [calls[c] EXCEPT !.bearer.valid = FALSE]
        BY <3>6 DEF TokensExpire
      <4> QED BY <4>1, <4>2 DEF OnItsWay
    <3>7. CASE Bootstrap \/ BootstrapFails \/ Redirect \/ AccountChanges
      BY <3>7 DEF Bootstrap, InitializeKeycloak, LoadSession, BootstrapFails, Redirect,
                  AccountChanges
    <3> QED BY <3>1, <3>2, <3>3, <3>4, <3>5, <3>6, <3>7 DEF Next
  <2>3. StatusOf(calls[c].required, calls[c].bearer, account.profile) = 403
    BY <2>1, <2>2 DEF Answer, StatusOf
  <2>4. ~RolesGuard(calls[c].required, calls[c].bearer.roles)
    BY <2>1, <2>3 DEF StatusOf, ActiveUserProfileGuard
  <2>5. calls[c].required \cap auth.roles # {}
    BY DEF SessionInv, CallsPermitted
  <2> QED BY <2>4, <2>5 DEF RolesGuard
<1> QED BY <1>1, SessionInvariant, PTL DEF Spec, ForbiddenIsNews
=============================================================================
