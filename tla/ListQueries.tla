------------------------------ MODULE ListQueries ------------------------------
(***************************************************************************)
(* The lists of the browser application and the queries that answer them.  *)
(* A list keeps its filters, order and page in the address bar: a page     *)
(* READS the address into a query, and a control WRITES the next query,    *)
(* without the values it omits, into the address.  The API checks the      *)
(* query against the DTO of the endpoint and answers one page of rows.     *)
(*                                                                         *)
(* An address and a query are functions from the parameters they have to   *)
(* values.  A search is the length of its text in hundreds of characters   *)
(* rounded up, a date is an instant, an unreadable number is 0.            *)
(***************************************************************************)
EXTENDS Naturals, Sequences, FiniteSetsExt, Functions

CONSTANTS
    Sizes,         \* the page sizes a list offers
    DefaultSize,   \* the size of a page when the address has none
    MaxSize,       \* the largest page the API answers
    LastPage       \* bound on the page numbers

ASSUME ListQueriesAssumption ==
    /\ MaxSize \in Nat /\ LastPage \in Nat \ {0}
    /\ Sizes \subseteq 1 .. MaxSize /\ DefaultSize \in Sizes

-----------------------------------------------------------------------------
(* One query spread over another, and the query of one parameter: those of   *)
(* TLC, of which the proof system knows no definition.                       *)
f @@ g == [p \in DOMAIN f \cup DOMAIN g |-> IF p \in DOMAIN f THEN f[p] ELSE g[p]]

p :> v == [q \in {p} |-> v]

-----------------------------------------------------------------------------
(* The values of the columns.                                                *)
RaceStatuses ==
    {"DRAFT", "OPEN_FOR_REGISTRATION", "CLOSED", "IN_PROGRESS", "COMPLETED", "CANCELLED"}
RaceTypes == {"INDIVIDUAL", "TEAM", "MIXED"}
CompetitorStatuses == {"ACTIVE", "SUSPENDED", "RETIRED"}
CompetitorTypes == {"DWARF", "CAMEL", "MEDIUM", "OTHER"}
TeamStatuses == {"ACTIVE", "INACTIVE"}
UserProfileStatuses == {"ACTIVE", "DISABLED"}
RegistrationStatuses == {"PENDING", "APPROVED", "REJECTED", "CANCELLED"}
ResultStatuses == {"FINISHED", "DISQUALIFIED", "DID_NOT_FINISH", "DID_NOT_START"}

(* The API takes any text for these two: two texts stand for all.            *)
AuditActions == {"RACE_CREATED", "RESULT_CORRECTED"}
AuditEntityTypes == {"RACE", "RACE_RESULT"}

SortOrders == {"asc", "desc"}

(* Texts of any length; instants in the DTO's format; what else Date parses. *)
Texts == 1 .. 3
StrictDates == {1, 2}
LooseDate == 3

-----------------------------------------------------------------------------
(* readQuery, one per page: the values it accepts from the address, the ones *)
(* it takes instead, and the length at which it cuts a search.               *)
CommonReads == [limit |-> Sizes, page |-> 1 .. LastPage]

CommonDefaults == [limit |-> DefaultSize, page |-> 1]

SortReads(fields) == [sortBy |-> fields, sortOrder |-> SortOrders]

SortDefaults(field, order) == [sortBy |-> field, sortOrder |-> order]

RaceListReads ==
    [accepts |-> [status |-> RaceStatuses, type |-> RaceTypes, search |-> Texts]
                 @@ SortReads({"scheduledAt", "registrationDeadline", "name", "status",
                               "createdAt"}),
     defaults |-> SortDefaults("scheduledAt", "asc"), cut |-> 1]

CompetitorListReads ==
    [accepts |-> [status |-> CompetitorStatuses, type |-> CompetitorTypes, search |-> Texts]
                 @@ SortReads({"registeredAt", "name", "nickname", "type", "status"}),
     defaults |-> SortDefaults("registeredAt", "desc"), cut |-> 1]

TeamListReads ==
    [accepts |-> [status |-> TeamStatuses, search |-> Texts]
                 @@ SortReads({"createdAt", "name", "responsiblePerson", "status"}),
     defaults |-> SortDefaults("createdAt", "desc"), cut |-> 1]

UserListReads ==
    [accepts |-> [status |-> UserProfileStatuses, search |-> Texts]
                 @@ SortReads({"createdAt", "displayName", "status"}),
     defaults |-> SortDefaults("createdAt", "desc"), cut |-> 2]

RegistrationListReads ==
    [accepts |-> [status |-> RegistrationStatuses], defaults |-> <<>>, cut |-> 1]

ResultListReads ==
    [accepts |-> [status |-> ResultStatuses], defaults |-> <<>>, cut |-> 1]

AuditListReads ==
    [accepts |-> [action |-> AuditActions, entityType |-> AuditEntityTypes,
                  from |-> StrictDates \cup {LooseDate}, to |-> StrictDates \cup {LooseDate}],
     defaults |-> <<>>, cut |-> 1]

StandingsSorts ==
    {"position", "name", "totalPoints", "wins", "secondPlaces", "racesCompleted",
     "bestFinalTimeMs"}

(* StandingsPage has two views, each a list of its own.                      *)
StandingsReads ==
    LET Read(filters) ==
            [accepts |-> filters @@ [search |-> Texts] @@ SortReads(StandingsSorts),
             defaults |-> SortDefaults("position", "asc"), cut |-> 1]
    IN  [competitorStandings |->
             Read([status |-> CompetitorStatuses, type |-> CompetitorTypes]),
         teamStandings |-> Read([status |-> TeamStatuses])]

ReadsOf ==
    [races |-> RaceListReads, competitors |-> CompetitorListReads, teams |-> TeamListReads,
     users |-> UserListReads, registrations |-> RegistrationListReads,
     results |-> ResultListReads, audit |-> AuditListReads]
    @@ StandingsReads

Lists == DOMAIN ReadsOf

Read(l, params) ==
    LET accepts == ReadsOf[l].accepts @@ CommonReads
        defaults == ReadsOf[l].defaults @@ CommonDefaults
        valid == {p \in DOMAIN params \cap DOMAIN accepts : params[p] \in accepts[p]}
        Taken(p) == IF p = "search" THEN Min({params[p], ReadsOf[l].cut}) ELSE params[p]
    IN  [p \in valid \cup DOMAIN defaults |-> IF p \in valid THEN Taken(p) ELSE defaults[p]]

-----------------------------------------------------------------------------
(* updateQuery, one per page: the values it omits from the address.          *)
CommonOmits == [limit |-> DefaultSize, page |-> 1]

RaceListOmitsDeadline == SortDefaults("registrationDeadline", "asc")

RaceListOmits == SortDefaults("scheduledAt", "asc")
CompetitorListOmits == SortDefaults("registeredAt", "desc")
TeamListOmits == SortDefaults("createdAt", "desc")
UserListOmits == SortDefaults("createdAt", "desc")
RegistrationListOmits == <<>>
ResultListOmits == <<>>
AuditListOmits == <<>>
StandingsOmits == SortDefaults("position", "asc")

OmitsOf ==
    [races |-> RaceListOmits, competitors |-> CompetitorListOmits, teams |-> TeamListOmits,
     users |-> UserListOmits, registrations |-> RegistrationListOmits,
     results |-> ResultListOmits, audit |-> AuditListOmits,
     competitorStandings |-> StandingsOmits, teamStandings |-> StandingsOmits]

Write(l, query) ==
    LET omits == OmitsOf[l] @@ CommonOmits
    IN  Restrict(query, {p \in DOMAIN query : p \in DOMAIN omits => query[p] # omits[p]})

-----------------------------------------------------------------------------
(* The controls above each list: what they offer.  The search of a list has  *)
(* a maximal length.                                                         *)
CommonControls == [limit |-> Sizes]

RaceListControls ==
    [search |-> {1}, type |-> RaceTypes, status |-> RaceStatuses,
     sortBy |-> {"scheduledAt", "registrationDeadline", "name", "status", "createdAt"},
     sortOrder |-> SortOrders]

CompetitorListControls ==
    [search |-> {1}, type |-> CompetitorTypes, status |-> CompetitorStatuses,
     sortBy |-> {"registeredAt", "name", "nickname", "type", "status"},
     sortOrder |-> SortOrders]

TeamListControls ==
    [search |-> {1}, status |-> TeamStatuses,
     sortBy |-> {"createdAt", "name", "responsiblePerson", "status"},
     sortOrder |-> SortOrders]

UserListControls ==
    [search |-> {1, 2}, status |-> UserProfileStatuses,
     sortBy |-> {"createdAt", "displayName", "status"}, sortOrder |-> SortOrders]

RegistrationListControls == [status |-> RegistrationStatuses]

ResultListControls == [status |-> ResultStatuses]

(* The controls of the audit list are applied together, by submit.           *)
AuditListControls ==
    [action |-> AuditActions, entityType |-> AuditEntityTypes,
     from |-> StrictDates, to |-> StrictDates]

StandingsControls ==
    LET Common == [search |-> {1}, sortBy |-> StandingsSorts, sortOrder |-> SortOrders]
    IN  [competitorStandings |->
             Common @@ [status |-> CompetitorStatuses, type |-> CompetitorTypes],
         teamStandings |-> Common @@ [status |-> TeamStatuses]]

ControlsOf ==
    [races |-> RaceListControls, competitors |-> CompetitorListControls,
     teams |-> TeamListControls, users |-> UserListControls,
     registrations |-> RegistrationListControls, results |-> ResultListControls,
     audit |-> AuditListControls]
    @@ StandingsControls

(* The controls that also offer no value at all.                             *)
Clearable == {"search", "type", "status"}

-----------------------------------------------------------------------------
(* The DTO of each endpoint.  The validation pipe refuses a parameter that   *)
(* the DTO does not name.                                                    *)
PaginationQueryDto == [limit |-> 1 .. MaxSize, page |-> 1 .. LastPage]

RaceQueryDto ==
    [status |-> RaceStatuses, type |-> RaceTypes, search |-> {1},
     sortBy |-> {"name", "scheduledAt", "registrationDeadline", "status", "createdAt"},
     sortOrder |-> SortOrders]

CompetitorQueryDto ==
    [status |-> CompetitorStatuses, type |-> CompetitorTypes, search |-> {1},
     sortBy |-> {"name", "nickname", "type", "status", "registeredAt"},
     sortOrder |-> SortOrders]

TeamQueryDto ==
    [status |-> TeamStatuses, search |-> {1},
     sortBy |-> {"name", "responsiblePerson", "status", "createdAt"},
     sortOrder |-> SortOrders]

UserProfileQueryDtoShort ==
    [status |-> UserProfileStatuses, search |-> {1},
     sortBy |-> {"displayName", "status", "createdAt"}, sortOrder |-> SortOrders]

UserProfileQueryDto ==
    [status |-> UserProfileStatuses, search |-> {1, 2},
     sortBy |-> {"displayName", "status", "createdAt"}, sortOrder |-> SortOrders]

RegistrationQueryDto == [status |-> RegistrationStatuses]

ResultQueryDto == [status |-> ResultStatuses]

AuditLogQueryDto ==
    [action |-> AuditActions, entityType |-> AuditEntityTypes,
     from |-> StrictDates, to |-> StrictDates]

StandingsQueryDto ==
    [search |-> {1}, sortBy |-> StandingsSorts, sortOrder |-> SortOrders]

CompetitorStandingsQueryDto ==
    StandingsQueryDto @@ [status |-> CompetitorStatuses, type |-> CompetitorTypes]

TeamStandingsQueryDto == StandingsQueryDto @@ [status |-> TeamStatuses]

DtoOf ==
    [races |-> RaceQueryDto, competitors |-> CompetitorQueryDto, teams |-> TeamQueryDto,
     users |-> UserProfileQueryDto, registrations |-> RegistrationQueryDto,
     results |-> ResultQueryDto, audit |-> AuditLogQueryDto,
     competitorStandings |-> CompetitorStandingsQueryDto,
     teamStandings |-> TeamStandingsQueryDto]

Accepted(l, query) ==
    LET dto == DtoOf[l] @@ PaginationQueryDto
    IN  \A p \in DOMAIN query : p \in DOMAIN dto /\ query[p] \in dto[p]
=============================================================================
