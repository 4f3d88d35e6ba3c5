---------------------------- MODULE ListPagesProofs ----------------------------
(***************************************************************************)
(* What a page of a list reads back from the address it wrote, and what a  *)
(* walk from page 1 shows.  The tables of the lists agree with each other, *)
(* list by list; from there on a list is any list.  The queries a page can *)
(* have are the CANONICAL ones, which the address keeps and the API        *)
(* answers; an answer held from before is what the API would answer now,   *)
(* unless a change has outdated it; the order of the rows is one, whatever *)
(* it compares; and so the pages shown since page 1 hold the rows of one   *)
(* sequence, in turn.  In the standings the positions follow the points,   *)
(* race by race.                                                           *)
(***************************************************************************)
EXTENDS ListPages, StandingsProofs, FiniteSetTheorems, SequenceTheorems, TLAPS

(* The tables of one list agree: updateQuery omits what readQuery takes when *)
(* it is absent, that and what the controls offer is accepted, the DTO knows *)
(* what is accepted and takes it but for a loose date, and the service       *)
(* filters by every parameter that is not the order or the page, and takes   *)
(* its order from a query that always has one.                               *)
Agree(reads, omits, controls, dto, findAll, loose) ==
    /\ omits = reads.defaults
    /\ (DOMAIN reads.accepts \cup DOMAIN dto) \cap {"limit", "page"} = {}
    /\ reads.cut \in {1, 2}
    /\ "search" \in DOMAIN reads.accepts => reads.accepts["search"] = Texts
    /\ \A p \in DOMAIN reads.defaults :
          p \in DOMAIN reads.accepts \ Clearable /\ reads.defaults[p] \in reads.accepts[p]
    /\ \A p \in DOMAIN controls :
          /\ p \in DOMAIN reads.accepts
          /\ \A v \in controls[p] :
                v \in reads.accepts[p] /\ (p = "search" => v <= reads.cut)
    /\ \A p \in DOMAIN reads.accepts :
          /\ p \in DOMAIN dto
          /\ \A v \in reads.accepts[p] :
                (p = "search" => v <= reads.cut) =>
                    v \in dto[p] \/ (p \in loose /\ v = LooseDate)
    /\ findAll.where = DOMAIN reads.accepts \ {"sortBy", "sortOrder"}
    /\ findAll.sorted => {"sortBy", "sortOrder"} \subseteq DOMAIN reads.defaults

-----------------------------------------------------------------------------
(* The tables of the list of races.                                          *)
LEMMA RaceTables ==
    Agree(RaceListReads, RaceListOmits,
          RaceListControls, RaceQueryDto,
          RacesFindAll, {})
<1> DEFINE accepts == RaceListReads.accepts
           defaults == RaceListReads.defaults
<1>1. /\ DOMAIN accepts = {"status", "type", "search", "sortBy", "sortOrder"}
      /\ accepts["status"] = RaceStatuses
      /\ accepts["type"] = RaceTypes
      /\ accepts["search"] = Texts
      /\ accepts["sortBy"] = {"scheduledAt", "registrationDeadline", "name", "status",
                            "createdAt"}
      /\ accepts["sortOrder"] = SortOrders
  BY DEF RaceListReads, SortReads, @@
<1>2. RaceListReads.cut = 1 /\ defaults = SortDefaults("scheduledAt", "asc")
  BY DEF RaceListReads
<1> HIDE DEF accepts, defaults
<1>3. \A p \in DOMAIN defaults :
         p \in DOMAIN accepts \ Clearable /\ defaults[p] \in accepts[p]
  BY <1>1, <1>2 DEF SortDefaults, SortOrders, Clearable
<1>4. \A p \in DOMAIN RaceListControls :
         /\ p \in DOMAIN accepts
         /\ \A v \in RaceListControls[p] :
               v \in accepts[p] /\ (p = "search" => v <= 1)
  BY <1>1 DEF RaceListControls, Texts
<1>5. \A v \in Texts : v <= 1 => v \in {1}
  BY DEF Texts
<1>6. \A p \in DOMAIN accepts :
         /\ p \in DOMAIN RaceQueryDto
         /\ \A v \in accepts[p] : (p = "search" => v <= 1) =>
                v \in RaceQueryDto[p]
  BY <1>1, <1>5 DEF RaceQueryDto
<1>7. DOMAIN RaceQueryDto \cap {"limit", "page"} = {}
  BY DEF RaceQueryDto
<1> QED
  BY <1>1, <1>2, <1>3, <1>4, <1>6, <1>7
     DEF Agree, accepts, defaults, RaceListOmits, RacesFindAll, SortDefaults

(* The tables of the list of competitors.                                    *)
LEMMA CompetitorTables ==
    Agree(CompetitorListReads, CompetitorListOmits,
          CompetitorListControls, CompetitorQueryDto,
          CompetitorsFindAll, {})
<1> DEFINE accepts == CompetitorListReads.accepts
           defaults == CompetitorListReads.defaults
<1>1. /\ DOMAIN accepts = {"status", "type", "search", "sortBy", "sortOrder"}
      /\ accepts["status"] = CompetitorStatuses
      /\ accepts["type"] = CompetitorTypes
      /\ accepts["search"] = Texts
      /\ accepts["sortBy"] = {"registeredAt", "name", "nickname", "type", "status"}
      /\ accepts["sortOrder"] = SortOrders
  BY DEF CompetitorListReads, SortReads, @@
<1>2. CompetitorListReads.cut = 1 /\ defaults = SortDefaults("registeredAt", "desc")
  BY DEF CompetitorListReads
<1> HIDE DEF accepts, defaults
<1>3. \A p \in DOMAIN defaults :
         p \in DOMAIN accepts \ Clearable /\ defaults[p] \in accepts[p]
  BY <1>1, <1>2 DEF SortDefaults, SortOrders, Clearable
<1>4. \A p \in DOMAIN CompetitorListControls :
         /\ p \in DOMAIN accepts
         /\ \A v \in CompetitorListControls[p] :
               v \in accepts[p] /\ (p = "search" => v <= 1)
  BY <1>1 DEF CompetitorListControls, Texts
<1>5. \A v \in Texts : v <= 1 => v \in {1}
  BY DEF Texts
<1>6. \A p \in DOMAIN accepts :
         /\ p \in DOMAIN CompetitorQueryDto
         /\ \A v \in accepts[p] : (p = "search" => v <= 1) =>
                v \in CompetitorQueryDto[p]
  BY <1>1, <1>5 DEF CompetitorQueryDto
<1>7. DOMAIN CompetitorQueryDto \cap {"limit", "page"} = {}
  BY DEF CompetitorQueryDto
<1> QED
  BY <1>1, <1>2, <1>3, <1>4, <1>6, <1>7
     DEF Agree, accepts, defaults, CompetitorListOmits, CompetitorsFindAll, SortDefaults

(* The tables of the list of teams.                                          *)
LEMMA TeamTables ==
    Agree(TeamListReads, TeamListOmits,
          TeamListControls, TeamQueryDto,
          TeamsFindAll, {})
<1> DEFINE accepts == TeamListReads.accepts
           defaults == TeamListReads.defaults
<1>1. /\ DOMAIN accepts = {"status", "search", "sortBy", "sortOrder"}
      /\ accepts["status"] = TeamStatuses
      /\ accepts["search"] = Texts
      /\ accepts["sortBy"] = {"createdAt", "name", "responsiblePerson", "status"}
      /\ accepts["sortOrder"] = SortOrders
  BY DEF TeamListReads, SortReads, @@
<1>2. TeamListReads.cut = 1 /\ defaults = SortDefaults("createdAt", "desc")
  BY DEF TeamListReads
<1> HIDE DEF accepts, defaults
<1>3. \A p \in DOMAIN defaults :
         p \in DOMAIN accepts \ Clearable /\ defaults[p] \in accepts[p]
  BY <1>1, <1>2 DEF SortDefaults, SortOrders, Clearable
<1>4. \A p \in DOMAIN TeamListControls :
         /\ p \in DOMAIN accepts
         /\ \A v \in TeamListControls[p] :
               v \in accepts[p] /\ (p = "search" => v <= 1)
  BY <1>1 DEF TeamListControls, Texts
<1>5. \A v \in Texts : v <= 1 => v \in {1}
  BY DEF Texts
<1>6. \A p \in DOMAIN accepts :
         /\ p \in DOMAIN TeamQueryDto
         /\ \A v \in accepts[p] : (p = "search" => v <= 1) =>
                v \in TeamQueryDto[p]
  BY <1>1, <1>5 DEF TeamQueryDto
<1>7. DOMAIN TeamQueryDto \cap {"limit", "page"} = {}
  BY DEF TeamQueryDto
<1> QED
  BY <1>1, <1>2, <1>3, <1>4, <1>6, <1>7
     DEF Agree, accepts, defaults, TeamListOmits, TeamsFindAll, SortDefaults

(* The tables of the list of user profiles.                                  *)
LEMMA UserTables ==
    Agree(UserListReads, UserListOmits,
          UserListControls, UserProfileQueryDto,
          UsersFindAll, {})
<1> DEFINE accepts == UserListReads.accepts
           defaults == UserListReads.defaults
<1>1. /\ DOMAIN accepts = {"status", "search", "sortBy", "sortOrder"}
      /\ accepts["status"] = UserProfileStatuses
      /\ accepts["search"] = Texts
      /\ accepts["sortBy"] = {"createdAt", "displayName", "status"}
      /\ accepts["sortOrder"] = SortOrders
  BY DEF UserListReads, SortReads, @@
<1>2. UserListReads.cut = 2 /\ defaults = SortDefaults("createdAt", "desc")
  BY DEF UserListReads
<1> HIDE DEF accepts, defaults
<1>3. \A p \in DOMAIN defaults :
         p \in DOMAIN accepts \ Clearable /\ defaults[p] \in accepts[p]
  BY <1>1, <1>2 DEF SortDefaults, SortOrders, Clearable
<1>4. \A p \in DOMAIN UserListControls :
         /\ p \in DOMAIN accepts
         /\ \A v \in UserListControls[p] :
               v \in accepts[p] /\ (p = "search" => v <= 2)
  BY <1>1 DEF UserListControls, Texts
<1>5. \A v \in Texts : v <= 2 => v \in {1, 2}
  BY DEF Texts
<1>6. \A p \in DOMAIN accepts :
         /\ p \in DOMAIN UserProfileQueryDto
         /\ \A v \in accepts[p] : (p = "search" => v <= 2) =>
                v \in UserProfileQueryDto[p]
  BY <1>1, <1>5 DEF UserProfileQueryDto
<1>7. DOMAIN UserProfileQueryDto \cap {"limit", "page"} = {}
  BY DEF UserProfileQueryDto
<1> QED
  BY <1>1, <1>2, <1>3, <1>4, <1>6, <1>7
     DEF Agree, accepts, defaults, UserListOmits, UsersFindAll, SortDefaults

(* The tables of the list of registrations of a race.                        *)
LEMMA RegistrationTables ==
    Agree(RegistrationListReads, RegistrationListOmits,
          RegistrationListControls, RegistrationQueryDto,
          RegistrationsFindAll, {})
<1> DEFINE accepts == RegistrationListReads.accepts
           defaults == RegistrationListReads.defaults
<1>1. /\ DOMAIN accepts = {"status"}
      /\ accepts["status"] = RegistrationStatuses
  BY DEF RegistrationListReads
<1>2. RegistrationListReads.cut = 1 /\ defaults = <<>>
  BY DEF RegistrationListReads
<1> HIDE DEF accepts, defaults
<1>3. \A p \in DOMAIN defaults :
         p \in DOMAIN accepts \ Clearable /\ defaults[p] \in accepts[p]
  BY <1>1, <1>2 DEF SortDefaults, SortOrders, Clearable
<1>4. \A p \in DOMAIN RegistrationListControls :
         /\ p \in DOMAIN accepts
         /\ \A v \in RegistrationListControls[p] :
               v \in accepts[p] /\ (p = "search" => v <= 1)
  BY <1>1 DEF RegistrationListControls
<1>5. \A p \in DOMAIN accepts :
         /\ p \in DOMAIN RegistrationQueryDto
         /\ \A v \in accepts[p] : (p = "search" => v <= 1) =>
                v \in RegistrationQueryDto[p]
  BY <1>1 DEF RegistrationQueryDto
<1>6. DOMAIN RegistrationQueryDto \cap {"limit", "page"} = {}
  BY DEF RegistrationQueryDto
<1> QED
  BY <1>1, <1>2, <1>3, <1>4, <1>5, <1>6
     DEF Agree, accepts, defaults, RegistrationListOmits, RegistrationsFindAll

(* The tables of the list of results of a race.                              *)
LEMMA ResultTables ==
    Agree(ResultListReads, ResultListOmits,
          ResultListControls, ResultQueryDto,
          ResultsFindAll, {})
<1> DEFINE accepts == ResultListReads.accepts
           defaults == ResultListReads.defaults
<1>1. /\ DOMAIN accepts = {"status"}
      /\ accepts["status"] = ResultStatuses
  BY DEF ResultListReads
<1>2. ResultListReads.cut = 1 /\ defaults = <<>>
  BY DEF ResultListReads
<1> HIDE DEF accepts, defaults
<1>3. \A p \in DOMAIN defaults :
         p \in DOMAIN accepts \ Clearable /\ defaults[p] \in accepts[p]
  BY <1>1, <1>2 DEF SortDefaults, SortOrders, Clearable
<1>4. \A p \in DOMAIN ResultListControls :
         /\ p \in DOMAIN accepts
         /\ \A v \in ResultListControls[p] :
               v \in accepts[p] /\ (p = "search" => v <= 1)
  BY <1>1 DEF ResultListControls
<1>5. \A p \in DOMAIN accepts :
         /\ p \in DOMAIN ResultQueryDto
         /\ \A v \in accepts[p] : (p = "search" => v <= 1) =>
                v \in ResultQueryDto[p]
  BY <1>1 DEF ResultQueryDto
<1>6. DOMAIN ResultQueryDto \cap {"limit", "page"} = {}
  BY DEF ResultQueryDto
<1> QED
  BY <1>1, <1>2, <1>3, <1>4, <1>5, <1>6
     DEF Agree, accepts, defaults, ResultListOmits, ResultsFindAll

(* The tables of the audit log: its dates are the ones read too freely.      *)
LEMMA AuditTables ==
    Agree(AuditListReads, AuditListOmits,
          AuditListControls, AuditLogQueryDto,
          AuditFindAll, {"from", "to"})
<1> DEFINE accepts == AuditListReads.accepts
           defaults == AuditListReads.defaults
<1>1. /\ DOMAIN accepts = {"action", "entityType", "from", "to"}
      /\ accepts["action"] = AuditActions
      /\ accepts["entityType"] = AuditEntityTypes
      /\ accepts["from"] = StrictDates \cup {LooseDate}
      /\ accepts["to"] = StrictDates \cup {LooseDate}
  BY DEF AuditListReads
<1>2. AuditListReads.cut = 1 /\ defaults = <<>>
  BY DEF AuditListReads
<1> HIDE DEF accepts, defaults
<1>3. \A p \in DOMAIN defaults :
         p \in DOMAIN accepts \ Clearable /\ defaults[p] \in accepts[p]
  BY <1>1, <1>2 DEF SortDefaults, SortOrders, Clearable
<1>4. \A p \in DOMAIN AuditListControls :
         /\ p \in DOMAIN accepts
         /\ \A v \in AuditListControls[p] :
               v \in accepts[p] /\ (p = "search" => v <= 1)
  BY <1>1 DEF AuditListControls
<1>5. \A p \in DOMAIN accepts :
         /\ p \in DOMAIN AuditLogQueryDto
         /\ \A v \in accepts[p] : (p = "search" => v <= 1) =>
                v \in AuditLogQueryDto[p] \/ (p \in {"from", "to"} /\ v = LooseDate)
  BY <1>1 DEF AuditLogQueryDto
<1>6. DOMAIN AuditLogQueryDto \cap {"limit", "page"} = {}
  BY DEF AuditLogQueryDto
<1> QED
  BY <1>1, <1>2, <1>3, <1>4, <1>5, <1>6
     DEF Agree, accepts, defaults, AuditListOmits, AuditFindAll

(* The tables of the standings of competitors.                               *)
LEMMA CompetitorStandingsTables ==
    Agree(StandingsReads.competitorStandings, StandingsOmits,
          StandingsControls.competitorStandings, CompetitorStandingsQueryDto,
          GetCompetitors, {})
<1> DEFINE accepts == StandingsReads.competitorStandings.accepts
           controls == StandingsControls.competitorStandings
           defaults == StandingsReads.competitorStandings.defaults
<1>1. /\ DOMAIN accepts = {"status", "type", "search", "sortBy", "sortOrder"}
      /\ accepts["status"] = CompetitorStatuses
      /\ accepts["type"] = CompetitorTypes
      /\ accepts["search"] = Texts
      /\ accepts["sortBy"] = StandingsSorts
      /\ accepts["sortOrder"] = SortOrders
  BY DEF StandingsReads, SortReads, @@
<1>2. StandingsReads.competitorStandings.cut = 1 /\ defaults = SortDefaults("position", "asc")
  BY DEF StandingsReads
<1>3. /\ DOMAIN controls = {"status", "type", "search", "sortBy", "sortOrder"}
      /\ \A p \in DOMAIN controls \ {"search"} : controls[p] = accepts[p]
      /\ controls["search"] = {1}
  BY <1>1 DEF StandingsControls, @@
<1>4. /\ DOMAIN CompetitorStandingsQueryDto = {"status", "type", "search", "sortBy", "sortOrder"}
      /\ \A p \in DOMAIN accepts \ {"search"} : CompetitorStandingsQueryDto[p] = accepts[p]
      /\ CompetitorStandingsQueryDto["search"] = {1}
  BY <1>1 DEF CompetitorStandingsQueryDto, StandingsQueryDto, @@
<1> HIDE DEF accepts, defaults, controls
<1>5. \A p \in DOMAIN defaults :
         p \in DOMAIN accepts \ Clearable /\ defaults[p] \in accepts[p]
  BY <1>1, <1>2 DEF SortDefaults, SortOrders, Clearable, StandingsSorts
<1>6. \A p \in DOMAIN controls :
         /\ p \in DOMAIN accepts
         /\ \A v \in controls[p] :
               v \in accepts[p] /\ (p = "search" => v <= 1)
  BY <1>1, <1>3 DEF Texts
<1>7. \A v \in Texts : v <= 1 => v \in {1}
  BY DEF Texts
<1>8. \A p \in DOMAIN accepts :
         /\ p \in DOMAIN CompetitorStandingsQueryDto
         /\ \A v \in accepts[p] : (p = "search" => v <= 1) =>
                v \in CompetitorStandingsQueryDto[p]
  BY <1>1, <1>4, <1>7
<1> QED
  BY <1>1, <1>2, <1>4, <1>5, <1>6, <1>8
     DEF Agree, accepts, defaults, controls, StandingsOmits, GetCompetitors, SortDefaults

(* The tables of the standings of teams.                                     *)
LEMMA TeamStandingsTables ==
    Agree(StandingsReads.teamStandings, StandingsOmits,
          StandingsControls.teamStandings, TeamStandingsQueryDto,
          GetTeams, {})
<1> DEFINE accepts == StandingsReads.teamStandings.accepts
           controls == StandingsControls.teamStandings
           defaults == StandingsReads.teamStandings.defaults
<1>1. /\ DOMAIN accepts = {"status", "search", "sortBy", "sortOrder"}
      /\ accepts["status"] = TeamStatuses
      /\ accepts["search"] = Texts
      /\ accepts["sortBy"] = StandingsSorts
      /\ accepts["sortOrder"] = SortOrders
  BY DEF StandingsReads, SortReads, @@
<1>2. StandingsReads.teamStandings.cut = 1 /\ defaults = SortDefaults("position", "asc")
  BY DEF StandingsReads
<1>3. /\ DOMAIN controls = {"status", "search", "sortBy", "sortOrder"}
      /\ \A p \in DOMAIN controls \ {"search"} : controls[p] = accepts[p]
      /\ controls["search"] = {1}
  BY <1>1 DEF StandingsControls, @@
<1>4. /\ DOMAIN TeamStandingsQueryDto = {"status", "search", "sortBy", "sortOrder"}
      /\ \A p \in DOMAIN accepts \ {"search"} : TeamStandingsQueryDto[p] = accepts[p]
      /\ TeamStandingsQueryDto["search"] = {1}
  BY <1>1 DEF TeamStandingsQueryDto, StandingsQueryDto, @@
<1> HIDE DEF accepts, defaults, controls
<1>5. \A p \in DOMAIN defaults :
         p \in DOMAIN accepts \ Clearable /\ defaults[p] \in accepts[p]
  BY <1>1, <1>2 DEF SortDefaults, SortOrders, Clearable, StandingsSorts
<1>6. \A p \in DOMAIN controls :
         /\ p \in DOMAIN accepts
         /\ \A v \in controls[p] :
               v \in accepts[p] /\ (p = "search" => v <= 1)
  BY <1>1, <1>3 DEF Texts
<1>7. \A v \in Texts : v <= 1 => v \in {1}
  BY DEF Texts
<1>8. \A p \in DOMAIN accepts :
         /\ p \in DOMAIN TeamStandingsQueryDto
         /\ \A v \in accepts[p] : (p = "search" => v <= 1) =>
                v \in TeamStandingsQueryDto[p]
  BY <1>1, <1>4, <1>7
<1> QED
  BY <1>1, <1>2, <1>4, <1>5, <1>6, <1>8
     DEF Agree, accepts, defaults, controls, StandingsOmits, GetTeams, SortDefaults

-----------------------------------------------------------------------------
(* The tables of any list agree. *)
LEMMA TablesAgree ==
    ASSUME NEW l \in Lists
    PROVE  Agree(ReadsOf[l], OmitsOf[l], ControlsOf[l], DtoOf[l], FindAllOf[l],
                 IF l = "audit" THEN {"from", "to"} ELSE {})
<1>1. l \in {"races", "competitors", "teams", "users", "registrations", "results", "audit",
             "competitorStandings", "teamStandings"}
  BY DEF Lists, ReadsOf, StandingsReads, @@
<1>2. CASE l = "races"
  <2>1. /\ ReadsOf[l] = RaceListReads /\ OmitsOf[l] = RaceListOmits
        /\ ControlsOf[l] = RaceListControls /\ DtoOf[l] = RaceQueryDto
        /\ FindAllOf[l] = RacesFindAll
    BY <1>2 DEF ReadsOf, OmitsOf, ControlsOf, DtoOf, FindAllOf, @@
  <2> QED BY <1>2, <2>1, RaceTables
<1>3. CASE l = "competitors"
  <2>1. /\ ReadsOf[l] = CompetitorListReads /\ OmitsOf[l] = CompetitorListOmits
        /\ ControlsOf[l] = CompetitorListControls /\ DtoOf[l] = CompetitorQueryDto
        /\ FindAllOf[l] = CompetitorsFindAll
    BY <1>3 DEF ReadsOf, OmitsOf, ControlsOf, DtoOf, FindAllOf, @@
  <2> QED BY <1>3, <2>1, CompetitorTables
<1>4. CASE l = "teams"
  <2>1. /\ ReadsOf[l] = TeamListReads /\ OmitsOf[l] = TeamListOmits
        /\ ControlsOf[l] = TeamListControls /\ DtoOf[l] = TeamQueryDto
        /\ FindAllOf[l] = TeamsFindAll
    BY <1>4 DEF ReadsOf, OmitsOf, ControlsOf, DtoOf, FindAllOf, @@
  <2> QED BY <1>4, <2>1, TeamTables
<1>5. CASE l = "users"
  <2>1. /\ ReadsOf[l] = UserListReads /\ OmitsOf[l] = UserListOmits
        /\ ControlsOf[l] = UserListControls /\ DtoOf[l] = UserProfileQueryDto
        /\ FindAllOf[l] = UsersFindAll
    BY <1>5 DEF ReadsOf, OmitsOf, ControlsOf, DtoOf, FindAllOf, @@
  <2> QED BY <1>5, <2>1, UserTables
<1>6. CASE l = "registrations"
  <2>1. /\ ReadsOf[l] = RegistrationListReads /\ OmitsOf[l] = RegistrationListOmits
        /\ ControlsOf[l] = RegistrationListControls /\ DtoOf[l] = RegistrationQueryDto
        /\ FindAllOf[l] = RegistrationsFindAll
    BY <1>6 DEF ReadsOf, OmitsOf, ControlsOf, DtoOf, FindAllOf, @@
  <2> QED BY <1>6, <2>1, RegistrationTables
<1>7. CASE l = "results"
  <2>1. /\ ReadsOf[l] = ResultListReads /\ OmitsOf[l] = ResultListOmits
        /\ ControlsOf[l] = ResultListControls /\ DtoOf[l] = ResultQueryDto
        /\ FindAllOf[l] = ResultsFindAll
    BY <1>7 DEF ReadsOf, OmitsOf, ControlsOf, DtoOf, FindAllOf, @@
  <2> QED BY <1>7, <2>1, ResultTables
<1>8. CASE l = "audit"
  <2>1. /\ ReadsOf[l] = AuditListReads /\ OmitsOf[l] = AuditListOmits
        /\ ControlsOf[l] = AuditListControls /\ DtoOf[l] = AuditLogQueryDto
        /\ FindAllOf[l] = AuditFindAll
    BY <1>8 DEF ReadsOf, OmitsOf, ControlsOf, DtoOf, FindAllOf, @@
  <2> QED BY <1>8, <2>1, AuditTables
<1>9. CASE l = "competitorStandings"
  <2>1. /\ ReadsOf[l] = StandingsReads.competitorStandings /\ OmitsOf[l] = StandingsOmits
        /\ ControlsOf[l] = StandingsControls.competitorStandings
        /\ DtoOf[l] = CompetitorStandingsQueryDto /\ FindAllOf[l] = GetCompetitors
    BY <1>9 DEF ReadsOf, StandingsReads, OmitsOf, ControlsOf, StandingsControls, DtoOf,
                FindAllOf, @@
  <2> QED BY <1>9, <2>1, CompetitorStandingsTables
<1>10. CASE l = "teamStandings"
  <2>1. /\ ReadsOf[l] = StandingsReads.teamStandings /\ OmitsOf[l] = StandingsOmits
        /\ ControlsOf[l] = StandingsControls.teamStandings
        /\ DtoOf[l] = TeamStandingsQueryDto /\ FindAllOf[l] = GetTeams
    BY <1>10 DEF ReadsOf, StandingsReads, OmitsOf, ControlsOf, StandingsControls, DtoOf,
                 FindAllOf, @@
  <2> QED BY <1>10, <2>1, TeamStandingsTables
<1> QED BY <1>1, <1>2, <1>3, <1>4, <1>5, <1>6, <1>7, <1>8, <1>9, <1>10

(* What the page of a list accepts and takes, with the paging all lists have.*)
Accepts(l) == ReadsOf[l].accepts @@ CommonReads
Defaults(l) == ReadsOf[l].defaults @@ CommonDefaults

(* A parameter that the page of a list may have in its query.                *)
Takes(l, p, v) == v \in Accepts(l)[p] /\ (p = "search" => v <= ReadsOf[l].cut)

(* A query that the page of a list may have.                                 *)
Canonical(l, q) ==
    /\ q = [p \in DOMAIN q |-> q[p]]
    /\ DOMAIN Defaults(l) \subseteq DOMAIN q
    /\ \A p \in DOMAIN q : p \in DOMAIN Accepts(l) /\ Takes(l, p, q[p])

(* What all lists share, said of the tables with the paging.                 *)
LEMMA Tables ==
    ASSUME NEW l \in Lists
    PROVE  /\ OmitsOf[l] @@ CommonOmits = Defaults(l)
           /\ {"limit", "page"} \subseteq DOMAIN Defaults(l) /\ Defaults(l)["page"] = 1
           /\ \A p \in DOMAIN Defaults(l) :
                 /\ p \in DOMAIN Accepts(l) \ Clearable
                 /\ Takes(l, p, Defaults(l)[p])
           /\ Accepts(l)["limit"] = Sizes /\ Accepts(l)["page"] = 1 .. LastPage
           /\ {"limit", "page"} \subseteq DOMAIN Accepts(l)
           /\ "search" \in DOMAIN Accepts(l) => Accepts(l)["search"] = Texts
           /\ ReadsOf[l].cut \in {1, 2}
           /\ FindAllOf[l].where =
                 DOMAIN Accepts(l) \ {"sortBy", "sortOrder", "page", "limit"}
           /\ FindAllOf[l].sorted => {"sortBy", "sortOrder"} \subseteq DOMAIN Defaults(l)
<1> DEFINE reads == ReadsOf[l]
<1>1. Agree(reads, OmitsOf[l], ControlsOf[l], DtoOf[l], FindAllOf[l],
            IF l = "audit" THEN {"from", "to"} ELSE {})
  BY TablesAgree
<1> HIDE DEF reads
<1>2. /\ DOMAIN Accepts(l) = DOMAIN reads.accepts \cup {"limit", "page"}
      /\ \A p \in DOMAIN reads.accepts : Accepts(l)[p] = reads.accepts[p]
      /\ Accepts(l)["limit"] = Sizes /\ Accepts(l)["page"] = 1 .. LastPage
  BY <1>1 DEF Agree, Accepts, CommonReads, reads, @@
<1>3. /\ DOMAIN Defaults(l) = DOMAIN reads.defaults \cup {"limit", "page"}
      /\ \A p \in DOMAIN reads.defaults : Defaults(l)[p] = reads.defaults[p]
      /\ Defaults(l)["limit"] = DefaultSize /\ Defaults(l)["page"] = 1
  BY <1>1 DEF Agree, Defaults, CommonDefaults, reads, @@
<1>4. OmitsOf[l] @@ CommonOmits = Defaults(l)
  BY <1>1 DEF Agree, Defaults, CommonOmits, CommonDefaults, reads
<1>5. \A p \in DOMAIN Defaults(l) :
         p \in DOMAIN Accepts(l) \ Clearable /\ Takes(l, p, Defaults(l)[p])
  <2> SUFFICES ASSUME NEW p \in DOMAIN Defaults(l)
               PROVE  p \in DOMAIN Accepts(l) \ Clearable /\ Takes(l, p, Defaults(l)[p])
    OBVIOUS
  <2>1. CASE p \in DOMAIN reads.defaults
    BY <1>1, <1>2, <1>3, <2>1 DEF Agree, Takes, Clearable
  <2>2. CASE p \in {"limit", "page"}
    BY <1>2, <1>3, <2>2, ListQueriesAssumption DEF Takes, Clearable, ListQueriesAssumption
  <2> QED BY <1>3, <2>1, <2>2
<1>6. /\ "search" \in DOMAIN Accepts(l) => Accepts(l)["search"] = Texts
      /\ reads.cut \in {1, 2}
      /\ FindAllOf[l].where = DOMAIN Accepts(l) \ {"sortBy", "sortOrder", "page", "limit"}
      /\ FindAllOf[l].sorted => {"sortBy", "sortOrder"} \subseteq DOMAIN Defaults(l)
  BY <1>1, <1>2, <1>3 DEF Agree
<1> QED BY <1>2, <1>3, <1>4, <1>5, <1>6 DEF reads

(* What the controls offer is accepted. *)
LEMMA OffersTaken ==
    ASSUME NEW l \in Lists, NEW p \in DOMAIN (ControlsOf[l] @@ CommonControls),
           NEW v \in (ControlsOf[l] @@ CommonControls)[p]
    PROVE  p \in DOMAIN Accepts(l) /\ Takes(l, p, v) /\ p # "page"
<1>1. Agree(ReadsOf[l], OmitsOf[l], ControlsOf[l], DtoOf[l], FindAllOf[l],
            IF l = "audit" THEN {"from", "to"} ELSE {})
  BY TablesAgree
<1>2. CASE p \in DOMAIN ControlsOf[l]
  <2>1. v \in ControlsOf[l][p]
    BY <1>2 DEF @@
  <2>2. /\ p \in DOMAIN ReadsOf[l].accepts /\ v \in ReadsOf[l].accepts[p]
        /\ p = "search" => v <= ReadsOf[l].cut
    BY <1>1, <1>2, <2>1 DEF Agree
  <2>3. p \in DOMAIN Accepts(l) /\ Accepts(l)[p] = ReadsOf[l].accepts[p]
    BY <2>2 DEF Accepts, @@
  <2> QED BY <1>1, <2>2, <2>3 DEF Agree, Takes
<1>3. CASE p \notin DOMAIN ControlsOf[l]
  <2>1. p = "limit" /\ v \in Sizes
    BY <1>3 DEF CommonControls, @@
  <2> QED BY <2>1, Tables DEF Takes
<1> QED BY <1>2, <1>3

(* The API refuses no canonical query but one with a loose date.             *)
LEMMA CanonicalAccepted ==
    ASSUME NEW l \in Lists, NEW q, Canonical(l, q), ~Accepted(l, q)
    PROVE  /\ l = "audit"
           /\ \E p \in {"from", "to"} \cap DOMAIN q : q[p] = LooseDate
<1>1. Agree(ReadsOf[l], OmitsOf[l], ControlsOf[l], DtoOf[l], FindAllOf[l],
            IF l = "audit" THEN {"from", "to"} ELSE {})
  BY TablesAgree
<1> DEFINE dto == DtoOf[l] @@ PaginationQueryDto
<1>2. PICK p \in DOMAIN q : p \notin DOMAIN dto \/ q[p] \notin dto[p]
  BY DEF Accepted
<1>3. p \in DOMAIN Accepts(l) /\ Takes(l, p, q[p])
  BY DEF Canonical
<1>4. CASE p \in DOMAIN ReadsOf[l].accepts
  <2>1. q[p] \in ReadsOf[l].accepts[p] /\ (p = "search" => q[p] <= ReadsOf[l].cut)
    BY <1>3, <1>4 DEF Takes, Accepts, @@
  <2>2. p \in DOMAIN dto /\ dto[p] = DtoOf[l][p]
    BY <1>1, <1>4 DEF Agree, @@
  <2> QED BY <1>1, <1>2, <1>4, <2>1, <2>2 DEF Agree
<1>5. CASE p \in {"limit", "page"} /\ p \notin DOMAIN ReadsOf[l].accepts
  <2>1. q[p] \in IF p = "limit" THEN Sizes ELSE 1 .. LastPage
    BY <1>3, <1>5, Tables DEF Takes
  <2>2. /\ p \in DOMAIN dto
        /\ dto[p] = IF p = "limit" THEN 1 .. MaxSize ELSE 1 .. LastPage
    BY <1>1, <1>5 DEF Agree, PaginationQueryDto, @@
  <2>3. Sizes \subseteq 1 .. MaxSize
    BY ListQueriesAssumption DEF ListQueriesAssumption
  <2> QED BY <1>2, <2>1, <2>2, <2>3
<1> QED BY <1>3, <1>4, <1>5 DEF Accepts, CommonReads, @@

-----------------------------------------------------------------------------
(* The least of two numbers. *)
LEMMA LeastOfTwo ==
    ASSUME NEW a \in Int, NEW b \in Int
    PROVE  Min({a, b}) = IF a <= b THEN a ELSE b
<1> DEFINE least == IF a <= b THEN a ELSE b
<1>1. least \in {a, b} /\ \A n \in {a, b} : least <= n
  OBVIOUS
<1>2. \A m \in {a, b} : (\A n \in {a, b} : m <= n) => m = least
  OBVIOUS
<1> HIDE DEF least
<1>3. Min({a, b}) = least
  BY <1>1, <1>2 DEF Min
<1> QED BY <1>3 DEF least

(* What readQuery takes of an address.                                       *)
Kept(l, params) == {p \in DOMAIN params \cap DOMAIN Accepts(l) : params[p] \in Accepts(l)[p]}

(* readQuery returns what it takes of the address, a search cut to the length *)
(* of its field, and its defaults for the rest.                              *)
LEMMA ReadOf ==
    ASSUME NEW l \in Lists, NEW params
    PROVE  LET q == Read(l, params)
           IN  /\ q = [p \in DOMAIN q |-> q[p]]
               /\ DOMAIN q = Kept(l, params) \cup DOMAIN Defaults(l)
               /\ \A p \in Kept(l, params) :
                     q[p] = IF p = "search" THEN Min({params[p], ReadsOf[l].cut}) ELSE params[p]
               /\ \A p \in DOMAIN Defaults(l) \ Kept(l, params) : q[p] = Defaults(l)[p]
BY DEF Read, Kept, Accepts, Defaults

(* Whatever the address holds, what is read there is a canonical query.      *)
LEMMA ReadIsCanonical ==
    ASSUME NEW l \in Lists, NEW params
    PROVE  Canonical(l, Read(l, params))
<1> DEFINE q == Read(l, params)
<1>1. /\ q = [p \in DOMAIN q |-> q[p]]
      /\ DOMAIN q = Kept(l, params) \cup DOMAIN Defaults(l)
      /\ \A p \in Kept(l, params) :
            q[p] = IF p = "search" THEN Min({params[p], ReadsOf[l].cut}) ELSE params[p]
      /\ \A p \in DOMAIN Defaults(l) \ Kept(l, params) : q[p] = Defaults(l)[p]
  BY ReadOf
<1> HIDE DEF q
<1>2. ASSUME NEW p \in Kept(l, params)
      PROVE  p \in DOMAIN Accepts(l) /\ Takes(l, p, q[p])
  <2>1. p \in DOMAIN Accepts(l) /\ params[p] \in Accepts(l)[p]
    BY <1>2 DEF Kept
  <2>2. CASE p # "search"
    BY <1>1, <1>2, <2>1, <2>2 DEF Takes
  <2>3. CASE p = "search"
    <3>1. params[p] \in 1 .. 3 /\ ReadsOf[l].cut \in {1, 2} /\ Accepts(l)[p] = 1 .. 3
      BY <2>1, <2>3, Tables DEF Texts
    <3>2. q[p] = Min({params[p], ReadsOf[l].cut})
      BY <1>1, <1>2, <2>3
    <3>3. q[p] = IF params[p] <= ReadsOf[l].cut THEN params[p] ELSE ReadsOf[l].cut
      BY <3>1, <3>2, LeastOfTwo
    <3> QED BY <2>1, <3>1, <3>3 DEF Takes
  <2> QED BY <2>2, <2>3
<1>3. ASSUME NEW p \in DOMAIN Defaults(l) \ Kept(l, params)
      PROVE  p \in DOMAIN Accepts(l) /\ Takes(l, p, q[p])
  BY <1>1, <1>3, Tables
<1> QED BY <1>1, <1>2, <1>3 DEF Canonical, q

(* The address keeps a canonical query, although it omits the defaults.      *)
LEMMA ReadWhatIsWritten ==
    ASSUME NEW l \in Lists, NEW q, Canonical(l, q)
    PROVE  Read(l, Write(l, q)) = q
<1> DEFINE params == Write(l, q)
           back == Read(l, params)
           kept == {p \in DOMAIN q : p \in DOMAIN Defaults(l) => q[p] # Defaults(l)[p]}
<1>1. DOMAIN params = kept /\ \A p \in kept : params[p] = q[p]
  BY Tables DEF Write, Restrict
<1>2. Kept(l, params) = kept
  BY <1>1 DEF Kept, Canonical, Takes
<1>3. /\ back = [p \in DOMAIN back |-> back[p]]
      /\ DOMAIN back = kept \cup DOMAIN Defaults(l)
      /\ \A p \in kept :
            back[p] = IF p = "search" THEN Min({params[p], ReadsOf[l].cut}) ELSE params[p]
      /\ \A p \in DOMAIN Defaults(l) \ kept : back[p] = Defaults(l)[p]
  <2> HIDE DEF params, kept
  <2>1. /\ back = [p \in DOMAIN back |-> back[p]]
        /\ DOMAIN back = Kept(l, params) \cup DOMAIN Defaults(l)
        /\ \A p \in Kept(l, params) :
              back[p] = IF p = "search" THEN Min({params[p], ReadsOf[l].cut}) ELSE params[p]
        /\ \A p \in DOMAIN Defaults(l) \ Kept(l, params) : back[p] = Defaults(l)[p]
    BY ReadOf
  <2> HIDE DEF back
  <2> QED BY <1>2, <2>1
<1> HIDE DEF params, back
<1>4. DOMAIN back = DOMAIN q
  BY <1>3 DEF Canonical
<1>5. ASSUME NEW p \in kept PROVE back[p] = q[p]
  <2>1. CASE p # "search"
    BY <1>1, <1>3, <1>5, <2>1
  <2>2. CASE p = "search"
    <3>1. q[p] \in 1 .. 3 /\ ReadsOf[l].cut \in {1, 2} /\ q[p] <= ReadsOf[l].cut
      BY <1>5, <2>2, Tables DEF Canonical, Takes, Texts
    <3>2. back[p] = Min({q[p], ReadsOf[l].cut})
      BY <1>1, <1>3, <1>5, <2>2
    <3> QED BY <3>1, <3>2, LeastOfTwo
  <2> QED BY <2>1, <2>2
<1>6. ASSUME NEW p \in DOMAIN q, p \notin kept PROVE back[p] = q[p]
  BY <1>3, <1>6 DEF Canonical
<1>7. \A p \in DOMAIN q : back[p] = q[p]
  BY <1>5, <1>6
<1>8. q = [p \in DOMAIN q |-> q[p]]
  BY DEF Canonical
<1>9. back = q
  BY <1>3, <1>4, <1>7, <1>8
<1> QED BY <1>9 DEF back, params

(* Patching a canonical query with one parameter the page takes.             *)
LEMMA PatchIsCanonical ==
    ASSUME NEW l \in Lists, NEW q, Canonical(l, q), NEW p \in DOMAIN Accepts(l), NEW v,
           Takes(l, p, v), p # "page"
    PROVE  Canonical(l, Patched(q, p :> v)) /\ Patched(q, p :> v).page = 1
<1> DEFINE new == Patched(q, p :> v)
<1>1. /\ DOMAIN new = DOMAIN q \cup {p, "page"}
      /\ new = [o \in DOMAIN new |-> new[o]]
      /\ new[p] = v /\ new["page"] = 1
      /\ \A o \in DOMAIN q \ {p, "page"} : new[o] = q[o]
  BY DEF Patched, @@, :>
<1>2. Takes(l, "page", 1) /\ "page" \in DOMAIN Accepts(l)
  BY Tables
<1> HIDE DEF new
<1> QED BY <1>1, <1>2 DEF Canonical, new

(* Leaving parameters out that the page can do without.                      *)
LEMMA RestOfIsCanonical ==
    ASSUME NEW l \in Lists, NEW m \in Lists, NEW q, Canonical(l, q), NEW gone,
           DOMAIN Defaults(m) \subseteq DOMAIN Defaults(l) \ gone,
           \A p \in DOMAIN Accepts(l) \ gone :
              p \in DOMAIN Accepts(m) /\ \A v : Takes(l, p, v) => Takes(m, p, v)
    PROVE  LET new == Patched(Restrict(q, DOMAIN q \ gone), <<>>)
           IN  Canonical(m, new) /\ new.page = 1
<1> DEFINE rest == Restrict(q, DOMAIN q \ gone)
           new == Patched(rest, <<>>)
<1>1. DOMAIN rest = DOMAIN q \ gone /\ \A p \in DOMAIN rest : rest[p] = q[p]
  BY DEF Restrict
<1> HIDE DEF rest
<1>2. /\ DOMAIN new = DOMAIN rest \cup {"page"}
      /\ new = [o \in DOMAIN new |-> new[o]]
      /\ new["page"] = 1
      /\ \A o \in DOMAIN rest \ {"page"} : new[o] = rest[o]
  BY DEF Patched, @@
<1>3. Takes(m, "page", 1) /\ "page" \in DOMAIN Accepts(m)
  BY Tables
<1> HIDE DEF new
<1>4. Canonical(m, new)
  BY <1>1, <1>2, <1>3 DEF Canonical
<1> QED BY <1>2, <1>4 DEF new, rest

(* Turning a page changes no other parameter.                                *)
LEMMA TurnIsCanonical ==
    ASSUME NEW l \in Lists, NEW q, Canonical(l, q), NEW n \in 1 .. LastPage
    PROVE  LET new == [page |-> n] @@ q
           IN  /\ Canonical(l, new) /\ new.page = n /\ DOMAIN new = DOMAIN q
               /\ \A p \in DOMAIN q \ {"page"} : new[p] = q[p]
<1> DEFINE new == [page |-> n] @@ q
<1>1. "page" \in DOMAIN q
  BY Tables DEF Canonical
<1>2. /\ DOMAIN new = DOMAIN q
      /\ new = [o \in DOMAIN new |-> new[o]]
      /\ new["page"] = n
      /\ \A o \in DOMAIN q \ {"page"} : new[o] = q[o]
  BY <1>1 DEF @@
<1>3. Takes(l, "page", n) /\ "page" \in DOMAIN Accepts(l)
  BY Tables DEF Takes
<1> HIDE DEF new
<1>4. Canonical(l, new)
  BY <1>2, <1>3 DEF Canonical
<1> QED BY <1>2, <1>4 DEF new

-----------------------------------------------------------------------------
(* An order of the rows names each of them once.                             *)
LEMMA OrderNamesEach ==
    ASSUME NEW l, NEW query, NEW matching \in SUBSET Items, NEW s \in Ordered(l, query, matching)
    PROVE  /\ Cardinality(matching) \in Nat
           /\ s \in [1 .. Cardinality(matching) -> matching]
           /\ \A m, n \in 1 .. Cardinality(matching) : m # n => s[m] # s[n]
           /\ \A i \in matching : \E m \in 1 .. Cardinality(matching) : s[m] = i
<1> DEFINE count == Cardinality(matching)
<1>1. IsFiniteSet(matching) /\ count \in Nat
  BY FS_Subset, FS_CardinalityType, ListPagesAssumption DEF ListPagesAssumption
<1>2. /\ s \in [1 .. count -> matching]
      /\ \A m, n \in 1 .. count : m < n => s[m] # s[n]
  BY DEF Ordered, TiesInAnyOrder
<1>3. \A m, n \in 1 .. count : m # n => s[m] # s[n]
  <2> SUFFICES ASSUME NEW m \in 1 .. count, NEW n \in 1 .. count, m # n PROVE s[m] # s[n]
    OBVIOUS
  <2>1. CASE m < n
    BY <1>2, <2>1
  <2>2. CASE n < m
    BY <1>2, <2>2
  <2> QED BY <1>1, <2>1, <2>2
<1>4. s \in Injection(1 .. count, matching)
  BY <1>2, <1>3 DEF Injection, IsInjective
<1>5. Cardinality(1 .. count) = count
  BY <1>1, FS_Interval
<1>6. s \in Surjection(1 .. count, matching)
  BY <1>1, <1>4, <1>5, FS_Injection
<1>7. \A i \in matching : \E m \in 1 .. count : s[m] = i
  BY <1>6 DEF Surjection
<1> QED BY <1>1, <1>2, <1>3, <1>7

(* Who comes before whom, whatever the rows are compared by.                 *)
Precedes(l, query, i, j) == ~Before(l, query, j, i) /\ (Before(l, query, i, j) \/ i < j)

(* In an order of the rows, who precedes a row are those above it, so the    *)
(* place of the row is told by their number.                                 *)
LEMMA PlaceOfRow ==
    ASSUME NEW l, NEW query, NEW matching \in SUBSET Items, NEW s \in Ordered(l, query, matching),
           NEW m \in 1 .. Cardinality(matching)
    PROVE  Cardinality({i \in matching : Precedes(l, query, i, s[m])}) = m - 1
<1> DEFINE count == Cardinality(matching)
           above == {i \in matching : Precedes(l, query, i, s[m])}
           place == [n \in 1 .. m - 1 |-> s[n]]
<1>1. /\ count \in Nat /\ s \in [1 .. count -> matching]
      /\ \A k, n \in 1 .. count : k # n => s[k] # s[n]
      /\ \A i \in matching : \E n \in 1 .. count : s[n] = i
  BY OrderNamesEach
<1>2. \A k, n \in 1 .. count : k < n => Precedes(l, query, s[k], s[n])
  BY <1>1 DEF Ordered, TiesInAnyOrder, Precedes
<1>3. \A i, j \in matching : ~(Precedes(l, query, i, j) /\ Precedes(l, query, j, i))
  BY ListPagesAssumption DEF Precedes, ListPagesAssumption
<1> HIDE DEF count
<1>4. m \in 1 .. count
  BY DEF count
<1>5. \A n \in 1 .. count : s[n] \in above <=> n < m
  <2> SUFFICES ASSUME NEW n \in 1 .. count PROVE s[n] \in above <=> n < m
    OBVIOUS
  <2>1. s[n] \in matching /\ s[m] \in matching
    BY <1>1, <1>4
  <2>2. CASE n < m
    BY <1>2, <1>4, <2>1, <2>2
  <2>3. CASE n = m
    BY <1>3, <2>1, <2>3
  <2>4. CASE m < n
    BY <1>2, <1>3, <1>4, <2>1, <2>4
  <2> QED BY <1>1, <1>4, <2>2, <2>3, <2>4
<1>6. \A n \in 1 .. m - 1 : n \in 1 .. count /\ n < m
  BY <1>1, <1>4
<1>7. above \subseteq matching
  OBVIOUS
<1> HIDE DEF above
<1>8. place \in [1 .. m - 1 -> above]
  BY <1>5, <1>6
<1>9. \A i \in above : \E n \in 1 .. m - 1 : place[n] = i
  <2> SUFFICES ASSUME NEW i \in above PROVE \E n \in 1 .. m - 1 : place[n] = i
    OBVIOUS
  <2>1. PICK n \in 1 .. count : s[n] = i
    BY <1>1, <1>7
  <2>2. n < m
    BY <1>5, <2>1
  <2>3. n \in 1 .. m - 1
    BY <1>1, <1>4, <2>2
  <2> QED BY <2>1, <2>3
<1>10. \A k, n \in 1 .. m - 1 : place[k] = place[n] => k = n
  BY <1>1, <1>6
<1>11. place \in Bijection(1 .. m - 1, above)
  BY <1>8, <1>9, <1>10 DEF Bijection, Injection, IsInjective, Surjection
<1>12. ExistsBijection(1 .. m - 1, above)
  BY <1>11 DEF ExistsBijection
<1>13. IsFiniteSet(1 .. m - 1) /\ Cardinality(1 .. m - 1) = m - 1
  <2>1. m - 1 \in Int /\ ~(1 > m - 1 /\ m # 1)
    BY <1>1, <1>4
  <2>2. /\ IsFiniteSet(1 .. m - 1)
        /\ Cardinality(1 .. m - 1) = IF 1 > m - 1 THEN 0 ELSE (m - 1) - 1 + 1
    BY <2>1, FS_Interval
  <2> QED BY <1>4, <2>1, <2>2
<1>14. Cardinality(above) = m - 1
  BY <1>12, <1>13, FS_Bijection
<1> QED BY <1>14 DEF above

(* The rows have one order. *)
LEMMA OneOrder ==
    ASSUME NEW l, NEW query, NEW matching \in SUBSET Items,
           NEW s \in Ordered(l, query, matching), NEW t \in Ordered(l, query, matching)
    PROVE  s = t
<1> DEFINE count == Cardinality(matching)
<1>1. /\ s \in [1 .. count -> matching] /\ t \in [1 .. count -> matching]
      /\ \A i \in matching : \E n \in 1 .. count : t[n] = i
  BY OrderNamesEach
<1>2. ASSUME NEW m \in 1 .. count PROVE s[m] = t[m]
  <2>1. PICK n \in 1 .. count : t[n] = s[m]
    BY <1>1, <1>2
  <2> DEFINE above == Cardinality({i \in matching : Precedes(l, query, i, s[m])})
  <2>2. above = m - 1
    BY <1>2, PlaceOfRow
  <2>3. Cardinality({i \in matching : Precedes(l, query, i, t[n])}) = n - 1
    BY PlaceOfRow
  <2>4. above = n - 1
    BY <2>1, <2>3
  <2> HIDE DEF above
  <2>5. m = n
    BY <1>2, <2>2, <2>4
  <2> QED BY <2>1, <2>5
<1>3. \A m \in 1 .. count : s[m] = t[m]
  BY <1>2
<1>4. s = [m \in 1 .. count |-> s[m]] /\ t = [m \in 1 .. count |-> t[m]]
  BY <1>1
<1> QED BY <1>3, <1>4

-----------------------------------------------------------------------------
(* What is held of the queries is told by the query on the screen and by the *)
(* cache.                                                                    *)
LEMMA HeldIs ==
    /\ DOMAIN Held = {<<list, Query>>} \cup DOMAIN cache
    /\ Held[<<list, Query>>] = answer
    /\ \A key \in DOMAIN cache : key # <<list, Query>> => Held[key] = cache[key]
BY DEF Held, @@, :>

(* The tables alone tell what the API answers.                               *)
LEMMA SameTables ==
    ASSUME UNCHANGED <<rows, book>>, NEW l, NEW q
    PROVE  /\ \A params : Matching(l, params, q)' = Matching(l, params, q)
           /\ \A matching : Ordered(l, q, matching)' = Ordered(l, q, matching)
           /\ UNCHANGED edits => Answers(l, q)' = Answers(l, q)
<1>1. Present(l)' = Present(l)
  BY DEF Present
<1>2. \A i, p : Fits(Row(l, i), q, p)' <=> Fits(Row(l, i), q, p)
  BY DEF Fits, Row
<1>3. \A params : Matching(l, params, q)' = Matching(l, params, q)
  BY <1>1, <1>2 DEF Matching
<1>4. \A i, j : Before(l, q, i, j)' <=> Before(l, q, i, j)
  <2>1. \A i : Key(l, q, i)' = Key(l, q, i)
    BY <1>1 DEF Key
  <2> QED BY <2>1 DEF Before
<1>5. \A matching : TiesInAnyOrder(l, q, matching)' = TiesInAnyOrder(l, q, matching)
  BY <1>4 DEF TiesInAnyOrder
<1>6. \A matching : Ordered(l, q, matching)' = Ordered(l, q, matching)
  BY <1>4, <1>5 DEF Ordered
<1>7. ASSUME UNCHANGED edits PROVE Answers(l, q)' = Answers(l, q)
  <2>1. \A items, matching :
           Answered(l, q, items, matching)' = Answered(l, q, items, matching)
    BY <1>7 DEF Answered, TotalOf
  <2> QED BY <1>3, <1>6, <2>1 DEF Answers
<1> QED BY <1>3, <1>6, <1>7

(* The rows and their order are those of every page of a query.              *)
LEMMA SameOrder ==
    ASSUME NEW l \in Lists, NEW q, Canonical(l, q), NEW r, DOMAIN r = DOMAIN q,
           \A p \in DOMAIN q \ {"page"} : r[p] = q[p]
    PROVE  /\ Matching(l, FindAllOf[l].where, r) = Matching(l, FindAllOf[l].where, q)
           /\ \A matching : Ordered(l, r, matching) = Ordered(l, q, matching)
<1>1. FindAllOf[l].where \cap DOMAIN q \subseteq DOMAIN q \ {"page"}
  BY Tables
<1>2. \A p \in DOMAIN q \ {"page"} : \A i : Fits(Row(l, i), r, p) <=> Fits(Row(l, i), q, p)
  BY DEF Fits, Row
<1>3. Matching(l, FindAllOf[l].where, r) = Matching(l, FindAllOf[l].where, q)
  <2>1. \A i : (\A p \in FindAllOf[l].where \cap DOMAIN r : Fits(Row(l, i), r, p))
             <=> \A p \in FindAllOf[l].where \cap DOMAIN q : Fits(Row(l, i), q, p)
    BY <1>1, <1>2
  <2> QED BY <2>1 DEF Matching
<1>4. \A i, j : Before(l, r, i, j) <=> Before(l, q, i, j)
  <2>1. FindAllOf[l].sorted \/ l \in Standing =>
           {"sortBy", "sortOrder"} \subseteq DOMAIN q \ {"page"}
    <3>1. l \in Standing => FindAllOf[l].sorted
      BY DEF Standing, FindAllOf, GetCompetitors, GetTeams
    <3> QED BY <3>1, Tables DEF Canonical
  <2>2. \A i : Key(l, r, i) = Key(l, q, i)
    BY <2>1 DEF Key
  <2> QED BY <2>1, <2>2 DEF Before
<1>5. \A matching : TiesInAnyOrder(l, r, matching) = TiesInAnyOrder(l, q, matching)
  BY <1>4 DEF TiesInAnyOrder
<1>6. \A matching : Ordered(l, r, matching) = Ordered(l, q, matching)
  BY <1>4, <1>5 DEF Ordered
<1> QED BY <1>3, <1>6

-----------------------------------------------------------------------------
(* The rows that fit a query, as its service filters them, and how many      *)
(* stand before its page.                                                    *)
FittingOf(l, q) == Matching(l, FindAllOf[l].where, q)

OffsetOf(q) == (q.page - 1) * q.limit

Fitting == FittingOf(list, Query)

Offset == OffsetOf(Query)

(* The rows on the first places of the order of a query are among those.     *)
FirstRows(l, q, place, items) ==
    \A s \in Ordered(l, q, FittingOf(l, q)), n \in 1 .. Cardinality(FittingOf(l, q)) :
        n <= place => s[n] \in items

(* Whoever has been shown these items may go on to the page of the query: no *)
(* other was shown, every page before it was, and rows are left for it.      *)
Reached(l, q, items) ==
    /\ items \subseteq FittingOf(l, q)
    /\ FirstRows(l, q, OffsetOf(q), items)
    /\ q.page = 1 \/ OffsetOf(q) < Cardinality(FittingOf(l, q))

(* Since page 1 was asked for, and while every answer is of the tables as    *)
(* they are, this page has been reached; one that is shown is of the tables  *)
(* too and its rows have been seen.                                          *)
Walk ==
    /\ Reached(list, Query, seen)
    /\ answer.at = "shown" =>
          /\ answer.asOf = edits
          /\ FirstRows(list, Query, Offset + Query.limit, seen)

(* An answer held of a query: the query is one a page may have, an error     *)
(* means that the API refuses it, and an answer with rows is of a version of *)
(* the tables there has been; of the present one, it is what the API answers.*)
Sound(key, a) ==
    /\ key[1] \in Lists /\ Canonical(key[1], key[2])
    /\ a.at \in {"loading", "error", "shown"}
    /\ a.at = "error" => ~Accepted(key[1], key[2])
    /\ a.at = "shown" =>
          /\ a.asOf \in Nat /\ a.asOf <= edits /\ a.page = key[2].page
          /\ a.asOf = edits => a \in Answers(key[1], key[2])

HeldSound == \A key \in DOMAIN Held : Sound(key, Held[key])

(* The inductive invariant: the page reads back what was asked, every answer *)
(* held is sound and agrees with the others, and the page walks.             *)
ListInv ==
    /\ edits \in Nat
    /\ Query = asked
    /\ HeldSound
    /\ PositionsAgree
    /\ ~moved => Walk

(* What the screen shows is one of the answers held.                         *)
LEMMA OnScreen ==
    ASSUME HeldSound
    PROVE  /\ list \in Lists /\ Canonical(list, Query)
           /\ Sound(<<list, Query>>, answer)
<1>1. <<list, Query>> \in DOMAIN Held /\ Held[<<list, Query>>] = answer
  BY HeldIs
<1>2. Sound(<<list, Query>>, answer)
  BY <1>1 DEF HeldSound
<1> QED BY <1>2 DEF Sound

(* Only items fit. *)
LEMMA FittingItems ==
    ASSUME NEW l, NEW q
    PROVE  /\ FittingOf(l, q) \subseteq Items /\ IsFiniteSet(FittingOf(l, q))
           /\ Cardinality(FittingOf(l, q)) \in Nat
<1>1. FittingOf(l, q) \subseteq Items
  BY DEF FittingOf, Matching, Present
<1> QED BY <1>1, FS_Subset, FS_CardinalityType, ListPagesAssumption DEF ListPagesAssumption

(* The page and the size of a canonical query.                               *)
LEMMA Paging ==
    ASSUME NEW l \in Lists, NEW q, Canonical(l, q)
    PROVE  /\ q.page \in 1 .. LastPage /\ q.page \in Nat \ {0}
           /\ q.limit \in Nat \ {0}
           /\ (q.page - 1) * q.limit \in Nat
           /\ q.page * q.limit = (q.page - 1) * q.limit + q.limit
           /\ q.page = 1 => (q.page - 1) * q.limit = 0
<1>1. {"limit", "page"} \subseteq DOMAIN q
  BY Tables DEF Canonical
<1>2. q["page"] \in 1 .. LastPage /\ q["limit"] \in Sizes
  BY <1>1, Tables DEF Canonical, Takes
<1>3. q.page \in Nat \ {0} /\ q.limit \in Nat \ {0} /\ q.page \in 1 .. LastPage
  <2>1. \A n \in Sizes : n \in Nat \ {0}
    BY ListQueriesAssumption DEF ListQueriesAssumption
  <2>2. \A n \in 1 .. LastPage : n \in Nat \ {0}
    OBVIOUS
  <2> QED BY <1>2, <2>1, <2>2
<1> DEFINE p == q.page
           n == q.limit
<1>4. p \in Nat \ {0} /\ n \in Nat \ {0}
  BY <1>3
<1> HIDE DEF p, n
<1>5. (p - 1) * n \in Nat /\ p * n = (p - 1) * n + n /\ (p = 1 => (p - 1) * n = 0)
  BY <1>4
<1> QED BY <1>3, <1>5 DEF p, n

(* What the controls show is what the service filters by.                    *)
LEMMA FiltersAreWhere ==
    ASSUME list \in Lists, Canonical(list, Query)
    PROVE  Matching(list, Filters, Query) = Fitting
<1>1. FindAllOf[list].where \cap DOMAIN Query = Filters \cap DOMAIN Query
  BY Tables DEF Filters, Canonical
<1>2. \A i : (\A p \in Filters \cap DOMAIN Query : Fits(Row(list, i), Query, p))
           <=> \A p \in FindAllOf[list].where \cap DOMAIN Query : Fits(Row(list, i), Query, p)
  BY <1>1
<1> QED BY <1>2 DEF Fitting, FittingOf, Matching

(* The rows of a page of an order.                                           *)
LEMMA RowsOfPage ==
    ASSUME NEW l \in Lists, NEW q, Canonical(l, q), NEW count \in Nat, NEW matching,
           NEW s \in [1 .. count -> matching]
    PROVE  LET items == PageOf(s, q)
               before == (q.page - 1) * q.limit
           IN  /\ Range(items) \subseteq matching
               /\ \A n \in 1 .. count :
                     before < n /\ n <= before + q.limit => s[n] \in Range(items)
               /\ items = <<>> => count <= before
<1> DEFINE before == (q.page - 1) * q.limit
           size == q.limit
           last == Min({q.page * q.limit, Len(s)})
           items == SubSeq(s, before + 1, last)
<1>1. before \in Nat /\ size \in Nat \ {0} /\ q.page * q.limit = before + size
  BY Paging
<1>2. Len(s) = count
  <2>1. s \in Seq(matching)
    BY SeqDef
  <2>2. DOMAIN s = 1 .. Len(s) /\ Len(s) \in Nat
    BY <2>1, LenProperties
  <2>3. 1 .. Len(s) = 1 .. count
    BY <2>2
  <2> QED BY <2>2, <2>3
<1> HIDE DEF before, size
<1>3. last = IF before + size <= count THEN before + size ELSE count
  BY <1>1, <1>2, LeastOfTwo
<1> HIDE DEF last
<1>4. last \in Nat /\ last <= count /\ last <= before + size
  BY <1>1, <1>3
<1>5. \A i \in before + 1 .. last : s[i] \in matching
  BY <1>1, <1>4
<1>6. /\ items \in Seq(matching)
      /\ Len(items) = IF before + 1 <= last THEN last - (before + 1) + 1 ELSE 0
      /\ \A i \in 1 .. last - (before + 1) + 1 : items[i] = s[before + 1 + i - 1]
  BY <1>1, <1>4, <1>5, SubSeqProperties
<1> HIDE DEF items
<1>7. DOMAIN items = 1 .. Len(items) /\ \A i \in 1 .. Len(items) : items[i] \in matching
  BY <1>6, LenProperties, ElementOfSeq
<1>8. Range(items) \subseteq matching
  BY <1>7 DEF Range
<1>9. ASSUME NEW n \in 1 .. count, before < n, n <= before + size
      PROVE  s[n] \in Range(items)
  <2>1. n <= last
    BY <1>1, <1>3, <1>9
  <2>2. n - before \in 1 .. last - (before + 1) + 1 /\ before + 1 + (n - before) - 1 = n
    BY <1>1, <1>4, <1>9, <2>1
  <2>3. items[n - before] = s[n]
    BY <1>6, <2>2
  <2>4. n - before \in DOMAIN items
    BY <1>1, <1>4, <1>6, <1>7, <2>2
  <2> QED BY <2>3, <2>4 DEF Range
<1>10. ASSUME items = <<>> PROVE count <= before
  <2>1. Len(items) = 0
    BY <1>10
  <2> QED BY <1>1, <1>3, <1>4, <1>6, <2>1
<1>11. PageOf(s, q) = items
  BY DEF PageOf, items, before, last
<1> QED BY <1>8, <1>9, <1>10, <1>11 DEF before, size

-----------------------------------------------------------------------------
(* While the tables stay, so do the rows of a query and who may go on to it. *)
LEMMA SameRows ==
    ASSUME UNCHANGED <<rows, book>>, NEW l, NEW q
    PROVE  /\ FittingOf(l, q)' = FittingOf(l, q)
           /\ \A place, items : FirstRows(l, q, place, items)' <=> FirstRows(l, q, place, items)
           /\ \A items : Reached(l, q, items)' <=> Reached(l, q, items)
<1>1. FittingOf(l, q)' = FittingOf(l, q)
  BY SameTables DEF FittingOf
<1>2. \A place, items : FirstRows(l, q, place, items)' <=> FirstRows(l, q, place, items)
  BY <1>1, SameTables DEF FirstRows
<1> QED BY <1>1, <1>2 DEF Reached

(* What the API answers is sound.                                            *)
LEMMA AnswersSound ==
    ASSUME NEW l \in Lists, NEW q, Canonical(l, q), NEW a \in Answers(l, q), edits \in Nat
    PROVE  /\ Sound(<<l, q>>, a)
           /\ a.at = "shown" => a.asOf = edits
<1>1. CASE ~Accepted(l, q)
  <2>1. a = [at |-> "error"]
    BY <1>1 DEF Answers, Refused
  <2> QED BY <1>1, <2>1 DEF Sound
<1>2. CASE Accepted(l, q)
  <2>1. PICK s : a = Answered(l, q, PageOf(s, q), Matching(l, FindAllOf[l].where, q))
    BY <1>2 DEF Answers
  <2>2. a.at = "shown" /\ a.page = q.page /\ a.asOf = edits
    BY <2>1 DEF Answered
  <2> QED BY <2>2 DEF Sound
<1> QED BY <1>1, <1>2

(* An answer with rows is the page of the one order of the rows that fit.    *)
LEMMA AnswerIsPage ==
    ASSUME NEW l, NEW q, NEW a \in Answers(l, q), a.at = "shown"
    PROVE  \E s \in Ordered(l, q, FittingOf(l, q)) :
              a = Answered(l, q, PageOf(s, q), FittingOf(l, q))
<1>1. CASE ~Accepted(l, q)
  <2>1. a = [at |-> "error"]
    BY <1>1 DEF Answers, Refused
  <2> QED BY <2>1
<1>2. CASE Accepted(l, q)
  BY <1>2 DEF Answers, FittingOf
<1> QED BY <1>1, <1>2

(* The position of a row is the one among all participants, of which it is   *)
(* one.                                                                      *)
LEMMA AnswersRank ==
    ASSUME NEW l \in Lists, NEW q, Canonical(l, q), l \in Standing,
           NEW a \in Answers(l, q), a.at = "shown", NEW i \in Range(a.items)
    PROVE  /\ i \in Participants(book)
           /\ a.position[i] = DenseRank(book, Participants(book), i)
<1>1. Cardinality(FittingOf(l, q)) \in Nat /\ FittingOf(l, q) \subseteq Items
  BY FittingItems
<1>2. PICK s \in Ordered(l, q, FittingOf(l, q)) :
         a = Answered(l, q, PageOf(s, q), FittingOf(l, q))
  BY AnswerIsPage
<1>3. s \in [1 .. Cardinality(FittingOf(l, q)) -> FittingOf(l, q)]
  BY <1>1, OrderNamesEach
<1>4. i \in FittingOf(l, q)
  <2>1. i \in Range(PageOf(s, q))
    BY <1>2 DEF Answered
  <2> QED BY <1>1, <1>3, <2>1, RowsOfPage
<1>5. a.position = Ranked(book, FittingOf(l, q))
  BY <1>2 DEF Answered
<1>6. i \in Participants(book)
  BY <1>4 DEF FittingOf, Matching, Present
<1> QED BY <1>4, <1>5, <1>6 DEF Ranked

(* A walk that goes on, or begins, has seen the pages up to the one shown.   *)
LEMMA FollowKeeps ==
    ASSUME NEW l \in Lists, NEW q, Canonical(l, q), NEW a, NEW lost,
           list' = l, Query' = q, answer' = a, UNCHANGED <<rows, book, edits>>,
           Sound(<<l, q>>, a), Follow(lost, q.page, a),
           q.page # 1 /\ ~lost => Reached(l, q, seen)
    PROVE  ~moved' => Walk'
<1> SUFFICES ASSUME ~moved' PROVE Walk'
  OBVIOUS
<1> DEFINE fitting == FittingOf(l, q)
           offset == OffsetOf(q)
           items == IF a.at = "shown" THEN Range(a.items) ELSE {}
           before == IF q.page = 1 THEN {} ELSE seen
<1>1. /\ ~Outdated(a) /\ (q.page = 1 \/ ~lost)
      /\ seen' = before \cup items
  BY DEF Follow
<1>2. offset \in Nat /\ (q.page = 1 => offset = 0)
      /\ q.limit \in Nat \ {0}
  BY Paging DEF OffsetOf
<1>3. fitting \subseteq Items /\ Cardinality(fitting) \in Nat
  BY FittingItems
<1>4. before \subseteq fitting /\ FirstRows(l, q, offset, before)
      /\ (q.page = 1 \/ offset < Cardinality(fitting))
  <2>1. CASE q.page = 1
    BY <1>2, <2>1 DEF FirstRows
  <2>2. CASE q.page # 1
    BY <1>1, <2>2 DEF Reached
  <2> QED BY <2>1, <2>2
<1>5. ASSUME a.at = "shown"
      PROVE  /\ a.asOf = edits /\ items \subseteq fitting
             /\ FirstRows(l, q, offset + q.limit, before \cup items)
  <2>1. a.asOf = edits /\ a \in Answers(l, q)
    BY <1>1, <1>5 DEF Sound, Outdated
  <2>2. PICK s \in Ordered(l, q, fitting) : a = Answered(l, q, PageOf(s, q), fitting)
    BY <1>5, <2>1, AnswerIsPage
  <2>3. items = Range(PageOf(s, q))
    BY <1>5, <2>2 DEF Answered
  <2>4. s \in [1 .. Cardinality(fitting) -> fitting]
    BY <1>3, OrderNamesEach
  <2>5. /\ Range(PageOf(s, q)) \subseteq fitting
        /\ \A n \in 1 .. Cardinality(fitting) :
              offset < n /\ n <= offset + q.limit => s[n] \in Range(PageOf(s, q))
    BY <1>3, <2>4, RowsOfPage DEF OffsetOf
  <2> HIDE DEF items, before, offset, fitting
  <2>6. ASSUME NEW t \in Ordered(l, q, fitting), NEW n \in 1 .. Cardinality(fitting),
               n <= offset + q.limit
        PROVE  t[n] \in before \cup items
    <3>1. t = s
      BY <1>3, OneOrder
    <3>2. CASE n <= offset
      BY <1>4, <2>6, <3>2 DEF FirstRows, fitting
    <3>3. CASE offset < n
      BY <2>3, <2>5, <2>6, <3>1, <3>3
    <3> QED BY <1>2, <1>3, <3>2, <3>3
  <2>7. FirstRows(l, q, offset + q.limit, before \cup items)
    BY <2>6 DEF FirstRows, fitting
  <2> QED BY <2>1, <2>3, <2>5, <2>7
<1>6. items \subseteq fitting
  BY <1>5
<1> HIDE DEF items, before
<1>7. PICK shown : shown = before \cup items
  OBVIOUS
<1>8. seen' = shown
  BY <1>1, <1>7
<1>9. Reached(l, q, shown)'
  <2>1. Reached(l, q, shown)
    BY <1>4, <1>6, <1>7 DEF Reached, FirstRows
  <2> QED BY <2>1, SameRows
<1>10. Reached(list, Query, seen)'
  BY <1>8, <1>9 DEF Reached, FirstRows
<1>11. ASSUME a.at = "shown"
       PROVE  answer'.asOf = edits' /\ FirstRows(list, Query, Offset + Query.limit, seen)'
  <2> DEFINE place == offset + q.limit
  <2>1. FirstRows(l, q, place, shown)
    BY <1>5, <1>7, <1>11
  <2>2. FirstRows(l, q, place, shown)'
    BY <2>1, SameRows
  <2>3. (Offset + Query.limit)' = place
    BY DEF Offset
  <2> HIDE DEF place
  <2> QED BY <1>5, <1>8, <1>11, <2>2, <2>3 DEF FirstRows
<1> QED BY <1>10, <1>11 DEF Walk

(* Where the tables, the query and what was seen of it stay, so does the     *)
(* walk.                                                                     *)
LEMMA WalkStays ==
    ASSUME UNCHANGED <<list, rows, book, answer, seen, edits>>, Query' = Query, Walk
    PROVE  Walk'
<1>1. PICK l, q, items : l = list /\ q = Query /\ items = seen
  OBVIOUS
<1>2. l = list' /\ q = Query' /\ items = seen'
  BY <1>1
<1>3. Reached(l, q, items) /\ Reached(l, q, items)'
  BY <1>1, SameRows DEF Walk
<1>4. Reached(list, Query, seen)'
  BY <1>2, <1>3 DEF Reached, FirstRows
<1>5. ASSUME answer.at = "shown"
      PROVE  answer'.asOf = edits' /\ FirstRows(list, Query, Offset + Query.limit, seen)'
  <2>1. PICK place : place = Offset + Query.limit
    OBVIOUS
  <2>2. FirstRows(l, q, place, items)'
    BY <1>1, <1>5, <2>1, SameRows DEF Walk
  <2>3. (Offset + Query.limit)' = place
    BY <2>1 DEF Offset
  <2> QED BY <1>2, <1>5, <2>2, <2>3 DEF FirstRows, Walk
<1> QED BY <1>4, <1>5 DEF Walk

-----------------------------------------------------------------------------
(* As long as the tables stay, answers that were held before and queries     *)
(* that wait for one disturb nothing.                                        *)
LEMMA HeldKeeps ==
    ASSUME ListInv, UNCHANGED <<rows, book, edits>>,
           \A key \in DOMAIN Held' :
              \/ key \in DOMAIN Held /\ Held'[key] = Held[key]
              \/ /\ Held'[key] = Loading
                 /\ \E l \in Lists : \E q : key = <<l, q>> /\ Canonical(l, q)
    PROVE  HeldSound' /\ PositionsAgree'
<1>1. ASSUME NEW key \in DOMAIN Held' PROVE Sound(key, Held[key])'
  <2>1. CASE key \in DOMAIN Held /\ Held'[key] = Held[key]
    <3>1. Sound(key, Held[key])
      BY <2>1 DEF ListInv, HeldSound
    <3>2. PICK a : a = Held[key]
      OBVIOUS
    <3>3. Answers(key[1], key[2])' = Answers(key[1], key[2])
      BY SameTables
    <3>4. Sound(key, a)'
      BY <3>1, <3>2, <3>3 DEF Sound
    <3> QED BY <2>1, <3>2, <3>4 DEF Sound
  <2>2. CASE /\ Held'[key] = Loading
             /\ \E l \in Lists : \E q : key = <<l, q>> /\ Canonical(l, q)
    <3>1. Held'[key].at = "loading"
      BY <2>2 DEF Loading
    <3> QED BY <2>2, <3>1 DEF Sound
  <2> QED BY <1>1, <2>1, <2>2
<1>2. HeldSound'
  BY <1>1 DEF HeldSound, Sound
<1>3. \A key \in DOMAIN Held' :
         Held'[key].at = "shown" => key \in DOMAIN Held /\ Held'[key] = Held[key]
  BY DEF Loading
<1>4. PositionsAgree'
  BY <1>3 DEF ListInv, PositionsAgree
<1> QED BY <1>2, <1>4

(* The query on the screen becomes another.                                  *)
LEMMA AskKeeps ==
    ASSUME ListInv, NEW l \in Lists, NEW q, Canonical(l, q), Ask(l, q),
           list' = l, Query' = q, UNCHANGED <<rows, book, edits>>
    PROVE  HeldSound' /\ PositionsAgree' /\ Sound(<<l, q>>, answer')
<1> DEFINE key == <<l, q>>
           left == {k \in DOMAIN Held \ {key} :
                       Held[k].at = "shown" \/ k \in Behind(l, q)}
<1>1. /\ DOMAIN cache' = left
      /\ \A k \in left : cache'[k] = Held[k]
  BY DEF Ask, Restrict
<1>2. /\ DOMAIN Held' = {key} \cup DOMAIN cache'
      /\ Held'[key] = answer'
      /\ \A k \in DOMAIN cache' : k # key => Held'[k] = cache'[k]
  BY HeldIs DEF Held, @@, :>
<1>3. answer' = IF key \in DOMAIN Held THEN Held[key] ELSE Loading
  BY DEF Ask
<1>4. \A k \in DOMAIN Held' :
         \/ k \in DOMAIN Held /\ Held'[k] = Held[k]
         \/ Held'[k] = Loading /\ k = key
  BY <1>1, <1>2, <1>3
<1>5. HeldSound' /\ PositionsAgree'
  BY <1>4, HeldKeeps
<1>6. Sound(key, answer')
  <2>1. CASE key \in DOMAIN Held
    BY <1>3, <2>1 DEF ListInv, HeldSound
  <2>2. CASE key \notin DOMAIN Held
    <3>1. answer'.at = "loading"
      BY <1>3, <2>2 DEF Loading
    <3> QED BY <3>1 DEF Sound
  <2> QED BY <2>1, <2>2
<1> QED BY <1>5, <1>6

(* A control asks for page 1, or for a page its user may go on to.           *)
LEMMA NavigateKeeps ==
    ASSUME ListInv, NEW l \in Lists, NEW q, Canonical(l, q), Navigate(l, q),
           q.page # 1 /\ ~moved => Reached(l, q, seen)
    PROVE  ListInv'
<1>1. /\ list' = l /\ asked' = q /\ UNCHANGED <<rows, book, edits>>
      /\ Ask(l, q) /\ Follow(moved, q.page, answer')
  BY DEF Navigate
<1>2. Query' = q
  BY ReadWhatIsWritten DEF Query, Navigate
<1>3. HeldSound' /\ PositionsAgree' /\ Sound(<<l, q>>, answer')
  BY <1>1, <1>2, AskKeeps
<1>4. PICK a : a = answer'
  OBVIOUS
<1>5. Sound(<<l, q>>, a) /\ Follow(moved, q.page, a)
  BY <1>1, <1>3, <1>4
<1>6. PICK lost : lost = moved
  OBVIOUS
<1>7. Follow(lost, q.page, a)
  BY <1>5, <1>6
<1>8. ~moved' => Walk'
  BY <1>1, <1>2, <1>4, <1>5, <1>6, <1>7, FollowKeeps
<1> QED BY <1>1, <1>2, <1>3, <1>8 DEF ListInv

(* A control that returns to page 1 begins a walk.                           *)
LEMMA ControlKeeps ==
    ASSUME ListInv, NEW l \in Lists, NEW q, Canonical(l, q), q.page = 1, Navigate(l, q)
    PROVE  ListInv'
BY NavigateKeeps

(* The controls of a list. *)
LEMMA ChooseKeeps == ASSUME ListInv, Choose PROVE ListInv'
<1> DEFINE offers == ControlsOf[list] @@ CommonControls
<1>0. PICK p \in DOMAIN offers : \E v \in offers[p] : Navigate(list, Patched(Query, p :> v))
  BY DEF Choose
<1>1. PICK v \in offers[p] : Navigate(list, Patched(Query, p :> v))
  BY <1>0
<1>2. list \in Lists /\ Canonical(list, Query)
  BY OnScreen DEF ListInv
<1>3. p \in DOMAIN Accepts(list) /\ Takes(list, p, v) /\ p # "page"
  BY <1>2, OffersTaken
<1> DEFINE q == Patched(Query, p :> v)
<1>4. Canonical(list, q) /\ q.page = 1
  BY <1>2, <1>3, PatchIsCanonical
<1> HIDE DEF q
<1>5. Navigate(list, q)
  BY <1>1 DEF q
<1> QED BY <1>2, <1>4, <1>5, ControlKeeps

(* A filter without a value is left out of the query.                        *)
LEMMA ClearKeeps == ASSUME ListInv, Clear PROVE ListInv'
<1>1. PICK p \in Clearable \cap DOMAIN Query :
         Navigate(list, Patched(Restrict(Query, DOMAIN Query \ {p}), <<>>))
  BY DEF Clear
<1>2. list \in Lists /\ Canonical(list, Query)
  BY OnScreen DEF ListInv
<1>3. p \notin DOMAIN Defaults(list)
  BY <1>2, Tables
<1> DEFINE q == Patched(Restrict(Query, DOMAIN Query \ {p}), <<>>)
<1>4. Canonical(list, q) /\ q.page = 1
  BY <1>2, <1>3, RestOfIsCanonical
<1> HIDE DEF q
<1>5. Navigate(list, q)
  BY <1>1 DEF q
<1> QED BY <1>2, <1>4, <1>5, ControlKeeps

(* Limpiar asks for what an address without parameters asks for.             *)
LEMMA ClearAllKeeps == ASSUME ListInv, ClearAll PROVE ListInv'
<1> DEFINE q == Read(list, <<>>)
<1>1. list \in Lists
  BY OnScreen DEF ListInv
<1>2. Canonical(list, q)
  BY <1>1, ReadIsCanonical
<1>3. q["page"] = 1
  <2>1. "page" \in DOMAIN Defaults(list) \ Kept(list, <<>>)
    BY <1>1, Tables DEF Kept
  <2>2. \A p \in DOMAIN Defaults(list) \ Kept(list, <<>>) : q[p] = Defaults(list)[p]
    BY <1>1, ReadOf
  <2> HIDE DEF q
  <2> QED BY <1>1, <2>1, <2>2, Tables
<1> HIDE DEF q
<1>4. Navigate(list, q)
  BY DEF ClearAll, q
<1> QED BY <1>1, <1>2, <1>3, <1>4, ControlKeeps

(* The two standings sort alike, and differ in the filters they have.        *)
LEMMA StandingsAlike ==
    ASSUME NEW l \in Standing
    PROVE  LET m == OtherView[l]
               gone == {"status", "type"}
           IN  /\ l \in Lists /\ m \in Lists
               /\ DOMAIN Defaults(m) \subseteq DOMAIN Defaults(l) \ gone
               /\ \A p \in DOMAIN Accepts(l) \ gone :
                     p \in DOMAIN Accepts(m) /\ \A v : Takes(l, p, v) => Takes(m, p, v)
<1> DEFINE reads(k) == ReadsOf[k]
           names == {"competitorStandings", "teamStandings"}
<1>1. l \in names /\ OtherView[l] \in names /\ names \subseteq Lists
  BY DEF Standing, OtherView, Lists, ReadsOf, StandingsReads, @@
<1>2. ASSUME NEW k \in names
      PROVE  /\ Defaults(k) = SortDefaults("position", "asc") @@ CommonDefaults
             /\ reads(k).cut = 1
             /\ DOMAIN Accepts(k) \ {"status", "type"} =
                   {"search", "sortBy", "sortOrder", "limit", "page"}
             /\ Accepts(k)["search"] = Texts /\ Accepts(k)["sortBy"] = StandingsSorts
             /\ Accepts(k)["sortOrder"] = SortOrders /\ Accepts(k)["limit"] = Sizes
             /\ Accepts(k)["page"] = 1 .. LastPage
  <2>1. reads(k) = StandingsReads[k]
    BY <1>2 DEF ReadsOf, StandingsReads, @@
  <2>2. /\ reads(k).defaults = SortDefaults("position", "asc") /\ reads(k).cut = 1
        /\ DOMAIN reads(k).accepts \ {"status", "type"} = {"search", "sortBy", "sortOrder"}
        /\ reads(k).accepts["search"] = Texts
        /\ reads(k).accepts["sortBy"] = StandingsSorts
        /\ reads(k).accepts["sortOrder"] = SortOrders
    <3>1. CASE k = "competitorStandings"
      BY <2>1, <3>1 DEF StandingsReads, SortReads, @@
    <3>2. CASE k = "teamStandings"
      BY <2>1, <3>2 DEF StandingsReads, SortReads, @@
    <3> QED BY <1>2, <3>1, <3>2
  <2>3. Agree(reads(k), OmitsOf[k], ControlsOf[k], DtoOf[k], FindAllOf[k],
              IF k = "audit" THEN {"from", "to"} ELSE {})
    BY <1>1, <1>2, TablesAgree
  <2> HIDE DEF reads
  <2> QED BY <2>2, <2>3 DEF Agree, Accepts, Defaults, CommonReads, reads, @@
<1>3. DOMAIN (SortDefaults("position", "asc") @@ CommonDefaults) =
         {"sortBy", "sortOrder", "limit", "page"}
  BY DEF SortDefaults, CommonDefaults, @@
<1> QED BY <1>1, <1>2, <1>3 DEF Takes

(* The other view keeps what both views have.                                *)
LEMMA SwitchKeeps == ASSUME ListInv, SwitchView PROVE ListInv'
<1> DEFINE q == Patched(Restrict(Query, DOMAIN Query \ {"status", "type"}), <<>>)
           m == OtherView[list]
<1>1. list \in Standing /\ Canonical(list, Query)
  BY OnScreen DEF ListInv, SwitchView
<1>2. /\ list \in Lists /\ m \in Lists
      /\ DOMAIN Defaults(m) \subseteq DOMAIN Defaults(list) \ {"status", "type"}
      /\ \A p \in DOMAIN Accepts(list) \ {"status", "type"} :
            p \in DOMAIN Accepts(m) /\ \A v : Takes(list, p, v) => Takes(m, p, v)
  BY <1>1, StandingsAlike
<1> HIDE DEF m
<1>3. Canonical(m, q) /\ q.page = 1
  BY <1>1, <1>2, RestOfIsCanonical
<1> HIDE DEF q
<1>4. Navigate(m, q)
  BY DEF SwitchView, OfBothViews, q, m
<1> QED BY <1>1, <1>2, <1>3, <1>4, ControlKeeps

(* What an input of the audit list's form holds.                             *)
LEMMA InputOf ==
    ASSUME NEW p, NEW a \in {<<>>} \cup {p :> v : v \in AuditListControls[p]}
    PROVE  DOMAIN a \subseteq {p} /\ \A o \in DOMAIN a : a[o] \in AuditListControls[p]
<1>1. CASE a = <<>>
  BY <1>1
<1>2. CASE a \in {p :> v : v \in AuditListControls[p]}
  BY <1>2 DEF :>
<1> QED BY <1>1, <1>2

(* The form of the audit list asks for what its inputs hold.                 *)
LEMMA SubmitKeeps == ASSUME ListInv, Submit PROVE ListInv'
<1> DEFINE Input(p) == {<<>>} \cup {p :> v : v \in AuditListControls[p]}
<1>1. list = "audit" /\ list \in Lists /\ Canonical(list, Query)
  BY OnScreen DEF ListInv, Submit
<1>2. PICK action \in Input("action"), entityType \in Input("entityType"),
           from \in Input("from"), to \in Input("to") :
         Navigate(list, action @@ entityType @@ from @@ to
                        @@ [limit |-> Query.limit, page |-> 1])
  BY DEF Submit
<1>3. /\ DOMAIN action \subseteq {"action"}
      /\ \A o \in DOMAIN action : action[o] \in AuditListControls["action"]
      /\ DOMAIN entityType \subseteq {"entityType"}
      /\ \A o \in DOMAIN entityType : entityType[o] \in AuditListControls["entityType"]
      /\ DOMAIN from \subseteq {"from"}
      /\ \A o \in DOMAIN from : from[o] \in AuditListControls["from"]
      /\ DOMAIN to \subseteq {"to"}
      /\ \A o \in DOMAIN to : to[o] \in AuditListControls["to"]
  BY InputOf
<1> HIDE DEF Input
<1> DEFINE filters == action @@ entityType @@ from @@ to
           paging == [limit |-> Query.limit, page |-> 1]
           q == filters @@ paging
<1>4. /\ DOMAIN filters \subseteq {"action", "entityType", "from", "to"}
      /\ \A p \in DOMAIN filters : filters[p] \in AuditListControls[p]
  <2> DEFINE three == action @@ entityType @@ from
             two == action @@ entityType
  <2>1. /\ DOMAIN two \subseteq {"action", "entityType"}
        /\ \A p \in DOMAIN two : two[p] \in AuditListControls[p]
    BY <1>3 DEF @@
  <2> HIDE DEF two
  <2>2. /\ DOMAIN three \subseteq {"action", "entityType", "from"}
        /\ \A p \in DOMAIN three : three[p] \in AuditListControls[p]
    <3>1. three = two @@ from
      BY DEF two
    <3> HIDE DEF three
    <3> QED BY <1>3, <2>1, <3>1 DEF @@
  <2> HIDE DEF three
  <2>3. filters = three @@ to
    BY DEF three
  <2> HIDE DEF filters
  <2> QED BY <1>3, <2>2, <2>3 DEF @@
<1> HIDE DEF filters
<1>5. /\ q = [p \in DOMAIN q |-> q[p]]
      /\ DOMAIN q = DOMAIN filters \cup {"limit", "page"}
      /\ \A p \in DOMAIN filters : q[p] \in AuditListControls[p]
      /\ q["limit"] = Query.limit /\ q["page"] = 1
  BY <1>4 DEF @@
<1> HIDE DEF q
<1>6. ASSUME NEW p \in DOMAIN filters
      PROVE  p \in DOMAIN Accepts(list) /\ Takes(list, p, q[p])
  <2>1. ControlsOf[list] = AuditListControls
    BY <1>1 DEF ControlsOf, StandingsControls, @@
  <2>2. p \in DOMAIN AuditListControls
    BY <1>4, <1>6 DEF AuditListControls
  <2>3. /\ p \in DOMAIN (ControlsOf[list] @@ CommonControls)
        /\ q[p] \in (ControlsOf[list] @@ CommonControls)[p]
    BY <1>5, <1>6, <2>1, <2>2 DEF @@
  <2> QED BY <1>1, <2>3, OffersTaken
<1>7. /\ {"limit", "page"} \subseteq DOMAIN Accepts(list)
      /\ Takes(list, "limit", q["limit"]) /\ Takes(list, "page", q["page"])
  <2>1. "limit" \in DOMAIN Query
    BY <1>1, Tables DEF Canonical
  <2>2. Takes(list, "limit", Query["limit"])
    BY <1>1, <2>1 DEF Canonical
  <2>3. Takes(list, "page", 1) /\ {"limit", "page"} \subseteq DOMAIN Accepts(list)
    BY <1>1, Tables
  <2> QED BY <1>5, <2>2, <2>3
<1>8. DOMAIN Defaults(list) = {"limit", "page"}
  BY <1>1 DEF Defaults, ReadsOf, AuditListReads, CommonDefaults, @@
<1>9. Canonical(list, q)
  BY <1>5, <1>6, <1>7, <1>8 DEF Canonical
<1>10. Navigate(list, q)
  BY <1>2 DEF q, filters
<1> QED BY <1>1, <1>5, <1>9, <1>10, ControlKeeps

(* An address that is typed, or gone back to, is read as it is.              *)
LEMMA TypeAddressKeeps == ASSUME ListInv, TypeAddress PROVE ListInv'
<1>1. /\ list' = list /\ asked' = Read(list, address') /\ UNCHANGED <<rows, book, edits>>
      /\ \/ answer' = Loading /\ cache' = <<>>
         \/ Ask(list, asked')
      /\ Follow(TRUE, asked'.page, answer')
  BY DEF TypeAddress
<1>2. PICK l, q, a : l = list /\ q = asked' /\ a = answer'
  OBVIOUS
<1>3. l \in Lists /\ list' = l /\ Query' = q /\ Canonical(l, q)
  BY <1>1, <1>2, OnScreen, ReadIsCanonical DEF Query, ListInv
<1>4. HeldSound' /\ PositionsAgree' /\ Sound(<<l, q>>, a)
  <2>1. CASE answer' = Loading /\ cache' = <<>>
    <3>1. Held' = (<<l, q>> :> Loading) @@ <<>>
      BY <1>3, <2>1 DEF Held
    <3>2. DOMAIN Held' = {<<l, q>>} /\ Held'[<<l, q>>] = Loading
      BY <3>1 DEF @@, :>
    <3>3. HeldSound' /\ PositionsAgree'
      BY <1>1, <1>3, <3>2, HeldKeeps
    <3>4. a.at = "loading"
      BY <1>2, <2>1 DEF Loading
    <3> QED BY <1>3, <3>3, <3>4 DEF Sound
  <2>2. CASE Ask(list, asked')
    <3>1. Ask(l, q)
      BY <1>2, <2>2
    <3> QED BY <1>1, <1>2, <1>3, <3>1, AskKeeps
  <2> QED BY <1>1, <2>1, <2>2
<1>5. Follow(TRUE, q.page, a)
  BY <1>1, <1>2
<1>6. ~moved' => Walk'
  BY <1>1, <1>2, <1>3, <1>4, <1>5, FollowKeeps
<1> QED BY <1>1, <1>2, <1>3, <1>4, <1>6 DEF ListInv

(* A change of the rows outdates every answer held, and ends the walk.       *)
LEMMA ChangeRowsKeeps == ASSUME ListInv, ChangeRows PROVE ListInv'
<1>1. UNCHANGED <<list, address, asked, answer, cache>> /\ edits' = edits + 1 /\ moved'
  BY DEF ChangeRows
<1>2. Query' = Query /\ Held' = Held
  BY <1>1 DEF Query, Held
<1>3. \A key \in DOMAIN Held : Sound(key, Held[key])'
  <2> SUFFICES ASSUME NEW key \in DOMAIN Held PROVE Sound(key, Held[key])'
    OBVIOUS
  <2>1. Sound(key, Held[key]) /\ edits \in Nat
    BY DEF ListInv, HeldSound
  <2>2. PICK a : a = Held[key]
    OBVIOUS
  <2>3. a.at = "shown" => a.asOf \in Nat /\ a.asOf <= edits + 1 /\ a.asOf # edits + 1
    BY <2>1, <2>2 DEF Sound
  <2>4. Sound(key, a)'
    BY <1>1, <2>1, <2>2, <2>3 DEF Sound
  <2> QED BY <1>2, <2>2, <2>4 DEF Sound
<1>4. HeldSound'
  BY <1>2, <1>3 DEF HeldSound, Sound
<1>5. PositionsAgree'
  BY <1>2 DEF ListInv, PositionsAgree
<1> QED BY <1>1, <1>2, <1>4, <1>5 DEF ListInv

(* The API answers for the tables as they are, so its positions are those of *)
(* every answer held of the same results.                                    *)
LEMMA AnswerHeld ==
    ASSUME ListInv, UNCHANGED <<rows, book, edits>>,
           NEW key \in DOMAIN Held, NEW a \in Answers(key[1], key[2]),
           DOMAIN Held' = DOMAIN Held, Held'[key] = a,
           \A k \in DOMAIN Held : k # key => Held'[k] = Held[k]
    PROVE  HeldSound' /\ PositionsAgree'
<1>1. Sound(<<key[1], key[2]>>, a) /\ (a.at = "shown" => a.asOf = edits)
  BY AnswersSound DEF ListInv, HeldSound, Sound
<1>2. Sound(key, a)
  BY <1>1 DEF Sound
<1>3. HeldSound'
  <2> SUFFICES ASSUME NEW k \in DOMAIN Held PROVE Sound(k, Held[k])'
    BY DEF HeldSound, Sound
  <2>1. PICK b : b = Held'[k]
    OBVIOUS
  <2>2. Sound(k, b)
    BY <1>2, <2>1 DEF ListInv, HeldSound
  <2>3. Answers(k[1], k[2])' = Answers(k[1], k[2])
    BY SameTables
  <2>4. Sound(k, b)'
    BY <2>2, <2>3 DEF Sound
  <2> QED BY <2>1, <2>4 DEF Sound
<1>4. ASSUME NEW k \in DOMAIN Held, Held'[k].at = "shown", Held'[k].asOf = edits,
             k[1] \in Standing, NEW i \in Range(Held'[k].items)
      PROVE  Held'[k].position[i] = DenseRank(book, Participants(book), i)
  <2>1. Sound(k, Held'[k])
    BY <1>2 DEF ListInv, HeldSound
  <2>2. k[1] \in Lists /\ Canonical(k[1], k[2]) /\ Held'[k] \in Answers(k[1], k[2])
    BY <1>4, <2>1 DEF Sound
  <2> QED BY <1>4, <2>2, AnswersRank
<1>5. PositionsAgree'
  <2> SUFFICES ASSUME NEW k \in DOMAIN Held', NEW m \in DOMAIN Held',
                      k[1] = m[1], k[1] \in Standing,
                      Held'[k].at = "shown", Held'[m].at = "shown",
                      Held'[k].asOf = Held'[m].asOf,
                      NEW i \in Range(Held'[k].items) \cap Range(Held'[m].items)
               PROVE  Held'[k].position[i] = Held'[m].position[i]
    BY DEF PositionsAgree
  <2>1. CASE k # key /\ m # key
    BY <2>1 DEF ListInv, PositionsAgree
  <2>2. CASE k = key \/ m = key
    <3>1. Held'[k].asOf = edits /\ Held'[m].asOf = edits
      BY <1>1, <2>2
    <3> QED BY <1>4, <3>1
  <2> QED BY <2>1, <2>2
<1> QED BY <1>3, <1>5

(* The answer on the screen goes on with the walk.                           *)
LEMMA AnswerKeeps == ASSUME ListInv, Answer PROVE ListInv'
<1>1. UNCHANGED <<list, address, asked, rows, book, cache, edits>>
  BY DEF Answer
<1>2. PICK a \in Answers(list, Query) : answer' = a /\ Follow(moved, Query.page, a)
  BY DEF Answer
<1>3. PICK l, q, lost : l = list /\ q = Query /\ lost = moved
  OBVIOUS
<1>4. /\ l \in Lists /\ Canonical(l, q) /\ list' = l /\ Query' = q /\ Query = asked
      /\ a \in Answers(l, q) /\ edits \in Nat
  BY <1>1, <1>2, <1>3, OnScreen DEF ListInv, Query
<1>5. Sound(<<l, q>>, a)
  BY <1>4, AnswersSound
<1> DEFINE key == <<l, q>>
<1>6. /\ DOMAIN Held' = DOMAIN Held /\ key \in DOMAIN Held
      /\ Held'[key] = a
      /\ \A k \in DOMAIN Held : k # key => Held'[k] = Held[k]
  BY <1>1, <1>2, <1>3, <1>4 DEF Held, @@, :>
<1>7. HeldSound' /\ PositionsAgree'
  BY <1>1, <1>4, <1>6, AnswerHeld
<1>8. q.page # 1 /\ ~lost => Reached(l, q, seen)
  BY <1>3 DEF ListInv, Walk
<1>9. Follow(lost, q.page, a)
  BY <1>2, <1>3
<1>10. ~moved' => Walk'
  BY <1>1, <1>2, <1>4, <1>5, <1>8, <1>9, FollowKeeps
<1> QED BY <1>1, <1>3, <1>4, <1>7, <1>10 DEF ListInv

(* The view behind is answered unseen.                                       *)
LEMMA AnswerBehindKeeps == ASSUME ListInv, AnswerBehind PROVE ListInv'
<1>1. UNCHANGED <<list, address, asked, rows, book, answer, moved, seen, edits>>
  BY DEF AnswerBehind
<1>2. PICK key \in Behind(list, Query) \cap DOMAIN cache :
         \E a \in Answers(key[1], key[2]) : cache' = [cache EXCEPT ![key] = a]
  BY DEF AnswerBehind
<1>3. PICK a \in Answers(key[1], key[2]) : cache' = [cache EXCEPT ![key] = a]
  BY <1>2
<1>4. Query' = Query
  BY <1>1 DEF Query
<1>5. key[1] # list
  <2>1. list \in Standing /\ key = <<OtherView[list], OfBothViews(Query)>>
    BY <1>2 DEF Behind
  <2>2. OtherView[list] # list
    BY <2>1 DEF Standing, OtherView
  <2> QED BY <2>1, <2>2
<1>6. Held' = (<<list, Query>> :> answer) @@ cache'
  BY <1>1, <1>4 DEF Held
<1>7. /\ DOMAIN Held' = DOMAIN Held /\ key \in DOMAIN Held
      /\ Held'[key] = a
      /\ \A k \in DOMAIN Held : k # key => Held'[k] = Held[k]
  BY <1>2, <1>3, <1>5, <1>6 DEF Held, @@, :>
<1>8. HeldSound' /\ PositionsAgree'
  BY <1>1, <1>7, AnswerHeld
<1>9. ~moved' => Walk'
  BY <1>1, <1>4, WalkStays DEF ListInv
<1> QED BY <1>1, <1>4, <1>8, <1>9 DEF ListInv

(* An answer that is dropped is missed by no other.                          *)
LEMMA CollectKeeps == ASSUME ListInv, Collect PROVE ListInv'
<1>1. UNCHANGED <<list, address, asked, rows, book, answer, moved, seen, edits>>
  BY DEF Collect
<1>2. PICK gone : cache' = Restrict(cache, DOMAIN cache \ {gone})
  BY DEF Collect
<1>3. Query' = Query
  BY <1>1 DEF Query
<1>4. DOMAIN cache' \subseteq DOMAIN cache /\ \A k \in DOMAIN cache' : cache'[k] = cache[k]
  BY <1>2 DEF Restrict
<1>5. Held' = (<<list, Query>> :> answer) @@ cache'
  BY <1>1, <1>3 DEF Held
<1>6. \A k \in DOMAIN Held' : k \in DOMAIN Held /\ Held'[k] = Held[k]
  BY <1>4, <1>5 DEF Held, @@, :>
<1>7. HeldSound' /\ PositionsAgree'
  BY <1>1, <1>6, HeldKeeps
<1>8. ~moved' => Walk'
  BY <1>1, <1>3, WalkStays DEF ListInv
<1> QED BY <1>1, <1>3, <1>7, <1>8 DEF ListInv

(* A row is on one of the pages that the count of pages counts.              *)
LEMMA PagesHoldRows ==
    ASSUME NEW count \in Nat, NEW size \in Nat \ {0}
    PROVE  LET pages == CeilingOf(count, size)
           IN  /\ pages \in Nat
               /\ pages * size < count + size /\ count <= pages * size
<1> DEFINE total == count + size - 1
           pages == total \div size
<1>1. total \in Nat
  OBVIOUS
<1> HIDE DEF total
<1>2. pages \in Nat /\ pages * size <= total /\ total < pages * size + size
  BY <1>1, SMT
<1> HIDE DEF pages
<1>3. pages * size \in Int
  BY <1>2
<1>4. pages * size < count + size /\ count <= pages * size
  BY <1>2, <1>3 DEF total
<1> QED BY <1>2, <1>4 DEF CeilingOf, pages, total

(* The buttons: there is a next page exactly while rows are left.            *)
LEMMA NextWhileRows ==
    ASSUME NEW page \in Nat \ {0}, NEW size \in Nat \ {0}, NEW count \in Nat \ {0},
           NEW a, a.page = page, a.totalPages = CeilingOf(count, size)
    PROVE  NextPage(a) <=> page * size < count
<1> DEFINE pages == a.totalPages
<1>1. pages \in Nat /\ pages * size < count + size /\ count <= pages * size
  BY PagesHoldRows
<1> HIDE DEF pages
<1>2. pages # 0
  BY <1>1
<1>3. \A n \in {1, pages} : n <= pages
  BY <1>1, <1>2
<1>4. Max({1, pages}) = pages
  BY <1>1, <1>2, <1>3 DEF Max
<1>5. page < pages <=> page * size < count
  <2>1. ASSUME page < pages PROVE page * size < count
    <3>1. page + 1 <= pages
      BY <1>1, <2>1
    <3>2. (page + 1) * size <= pages * size
      BY <1>1, <3>1
    <3>3. (page + 1) * size = page * size + size
      OBVIOUS
    <3> DEFINE here == page * size
               there == pages * size
    <3>4. here \in Int /\ there \in Int
      BY <1>1
    <3> HIDE DEF here, there
    <3> QED BY <1>1, <3>2, <3>3, <3>4 DEF here, there
  <2>2. ASSUME pages <= page PROVE count <= page * size
    <3>1. pages * size <= page * size
      BY <1>1, <2>2
    <3> DEFINE here == page * size
               there == pages * size
    <3>2. here \in Int /\ there \in Int
      BY <1>1
    <3> HIDE DEF here, there
    <3> QED BY <1>1, <3>1, <3>2 DEF here, there
  <2>3. page * size \in Int
    OBVIOUS
  <2> QED BY <1>1, <2>1, <2>2, <2>3
<1> QED BY <1>2, <1>4, <1>5 DEF NextPage, pages

(* The pagination buttons turn one page, forth only while rows are left.     *)
LEMMA PaginateKeeps == ASSUME ListInv, Paginate PROVE ListInv'
<1>1. /\ list \in Lists /\ Canonical(list, Query) /\ (~moved => Walk)
      /\ answer.at = "shown" /\ answer.items # <<>> /\ answer.page = Query.page
  BY OnScreen DEF ListInv, Paginate, Paginated, Sound
<1>2. Query.page \in Nat \ {0} /\ Query.page \in 1 .. LastPage /\ Query.limit \in Nat \ {0}
  BY <1>1, Paging
<1> DEFINE forth == NextPage(answer) /\ answer.page < LastPage
           back == PreviousPage(answer)
           Turned(n) == [page |-> n] @@ Query
<1>3. PICK n \in 1 .. LastPage :
         /\ Navigate(list, Turned(n))
         /\ \/ NextPage(answer) /\ n = Query.page + 1
            \/ n = Query.page - 1
  <2>1. CASE forth /\ Navigate(list, Turned(answer.page + 1))
    <3>1. Query.page + 1 \in 1 .. LastPage
      BY <1>1, <1>2, <2>1, ListQueriesAssumption DEF ListQueriesAssumption
    <3> HIDE DEF Turned
    <3> QED BY <1>1, <2>1, <3>1
  <2>2. CASE back /\ Navigate(list, Turned(answer.page - 1))
    <3>1. Query.page - 1 \in 1 .. LastPage
      BY <1>1, <1>2, <2>2, ListQueriesAssumption DEF ListQueriesAssumption, PreviousPage
    <3> HIDE DEF Turned
    <3> QED BY <1>1, <2>2, <3>1
  <2> QED BY <2>1, <2>2 DEF Paginate
<1> HIDE DEF Turned
<1> DEFINE q == Turned(n)
<1>4. /\ Canonical(list, q) /\ q.page = n /\ DOMAIN q = DOMAIN Query
      /\ \A p \in DOMAIN Query \ {"page"} : q[p] = Query[p]
  BY <1>1, TurnIsCanonical DEF Turned
<1>5. Navigate(list, q)
  BY <1>3
<1> HIDE DEF q
<1>6. q.limit = Query.limit
  <2>1. "limit" \in DOMAIN Query \ {"page"}
    BY <1>1, Tables DEF Canonical
  <2>2. q["limit"] = Query["limit"]
    BY <1>4, <2>1
  <2> QED BY <2>2
<1>7. ASSUME ~moved PROVE Reached(list, q, seen)
  <2>1. Walk
    BY <1>1, <1>7
  <2>2. /\ FittingOf(list, q) = Fitting
        /\ Ordered(list, q, Fitting) = Ordered(list, Query, Fitting)
    BY <1>1, <1>4, SameOrder DEF Fitting, FittingOf
  <2>3. Cardinality(Fitting) \in Nat
    BY FittingItems DEF Fitting
  <2>4. Offset \in Nat /\ Query.page * Query.limit = Offset + Query.limit
    BY <1>1, Paging DEF Offset, OffsetOf
  <2>5. /\ seen \subseteq Fitting
        /\ \A place : FirstRows(list, q, place, seen) <=> FirstRows(list, Query, place, seen)
    BY <2>1, <2>2 DEF Walk, Reached, FirstRows, Fitting
  <2>6. CASE NextPage(answer) /\ n = Query.page + 1
    <3>1. OffsetOf(q) = Offset + Query.limit
      BY <1>2, <1>4, <1>6, <2>4, <2>6 DEF OffsetOf
    <3>2. FirstRows(list, q, Offset + Query.limit, seen)
      BY <1>1, <2>1, <2>5 DEF Walk
    <3>3. Offset + Query.limit < Cardinality(Fitting)
      <4>1. answer \in Answers(list, Query)
        BY <1>1, <2>1, OnScreen DEF ListInv, Sound, Walk
      <4>2. PICK s : answer = Answered(list, Query, PageOf(s, Query), Fitting)
        BY <1>1, <4>1, AnswerIsPage DEF Fitting
      <4>3. answer.totalPages = CeilingOf(Cardinality(Fitting), Query.limit)
        BY <1>1, <4>2 DEF Answered, TotalOf
      <4>4. Cardinality(Fitting) # 0
        <5>1. SUFFICES ASSUME Cardinality(Fitting) = 0 PROVE answer.totalPages = 0
          BY <2>6 DEF NextPage
        <5> DEFINE pages == CeilingOf(0, Query.limit)
        <5>2. pages \in Nat /\ pages * Query.limit < 0 + Query.limit
          BY <1>2, PagesHoldRows
        <5>3. answer.totalPages = pages
          BY <4>3, <5>1
        <5> HIDE DEF pages
        <5>4. pages = 0
          BY <1>2, <5>2
        <5> QED BY <5>3, <5>4
      <4>5. Query.page * Query.limit < Cardinality(Fitting)
        BY <1>1, <1>2, <2>3, <2>6, <4>3, <4>4, NextWhileRows
      <4> QED BY <2>4, <4>5
    <3> QED BY <2>2, <2>5, <3>1, <3>2, <3>3 DEF Reached
  <2>7. CASE n = Query.page - 1
    <3>1. OffsetOf(q) = Offset - Query.limit /\ Query.page # 1
      BY <1>2, <1>3, <1>4, <1>6, <2>4, <2>7 DEF Offset, OffsetOf
    <3>2. OffsetOf(q) \in Int /\ OffsetOf(q) <= Offset
      BY <1>2, <2>4, <3>1
    <3> DEFINE before == OffsetOf(q)
    <3> HIDE DEF before
    <3>3. FirstRows(list, q, before, seen)
      <4>1. FirstRows(list, q, Offset, seen)
        BY <2>1, <2>5 DEF Walk, Reached, Offset
      <4>2. \A i \in 1 .. Cardinality(FittingOf(list, q)) : i <= before => i <= Offset
        BY <2>2, <2>3, <2>4, <3>2 DEF before
      <4> QED BY <4>1, <4>2 DEF FirstRows
    <3>4. before < Cardinality(Fitting)
      BY <2>1, <2>3, <2>4, <3>1, <3>2 DEF Walk, Reached, Offset, Fitting, before
    <3> QED BY <2>2, <2>5, <3>3, <3>4 DEF Reached, before
  <2> QED BY <1>3, <2>6, <2>7
<1> QED BY <1>1, <1>4, <1>5, <1>7, NavigateKeeps

-----------------------------------------------------------------------------
(* The invariant holds when a list is opened, and every step keeps it.       *)
THEOREM ListInvariant == Spec => []ListInv
<1>1. Init => ListInv
  <2> SUFFICES ASSUME Init PROVE ListInv
    OBVIOUS
  <2>1. /\ list \in Lists /\ asked = Read(list, <<>>) /\ Query = asked /\ seen = {}
        /\ answer = Loading /\ cache = <<>> /\ edits = 0
    BY DEF Init, Query
  <2>2. Canonical(list, Query)
    BY <2>1, ReadIsCanonical
  <2>3. answer.at = "loading"
    BY <2>1 DEF Loading
  <2>4. DOMAIN Held = {<<list, Query>>} /\ Held[<<list, Query>>] = answer
    BY <2>1, HeldIs
  <2>5. HeldSound
    BY <2>1, <2>2, <2>3, <2>4 DEF HeldSound, Sound
  <2>6. PositionsAgree
    BY <2>3, <2>4 DEF PositionsAgree
  <2>7. Query["page"] = 1
    <3>1. "page" \in DOMAIN Defaults(list) \ Kept(list, <<>>)
      BY <2>1, Tables DEF Kept
    <3>2. \A p \in DOMAIN Defaults(list) \ Kept(list, <<>>) :
             Read(list, <<>>)[p] = Defaults(list)[p]
      BY <2>1, ReadOf
    <3> QED BY <2>1, <3>1, <3>2, Tables
  <2>8. OffsetOf(Query) = 0
    BY <2>1, <2>2, <2>7, Paging DEF OffsetOf
  <2>9. Reached(list, Query, seen)
    BY <2>1, <2>7, <2>8 DEF Reached, FirstRows
  <2> QED BY <2>1, <2>3, <2>5, <2>6, <2>9 DEF ListInv, Walk
<1>2. ListInv /\ [Next]_vars => ListInv'
  <2> SUFFICES ASSUME ListInv, [Next]_vars PROVE ListInv'
    OBVIOUS
  <2>1. CASE Choose \/ Clear \/ ClearAll \/ Submit \/ SwitchView
    BY <2>1, ChooseKeeps, ClearKeeps, ClearAllKeeps, SubmitKeeps, SwitchKeeps
  <2>2. CASE Paginate \/ Answer \/ AnswerBehind \/ Collect
    BY <2>2, PaginateKeeps, AnswerKeeps, AnswerBehindKeeps, CollectKeeps
  <2>3. CASE TypeAddress \/ ChangeRows
    BY <2>3, TypeAddressKeeps, ChangeRowsKeeps
  <2>4. CASE UNCHANGED vars
    <3>1. UNCHANGED <<list, address, asked, rows, book, answer, cache, moved, seen, edits>>
      BY <2>4 DEF vars
    <3>2. Query' = Query
      BY <3>1 DEF Query
    <3>3. Held' = Held
      BY <3>1, <3>2 DEF Held
    <3>4. HeldSound' /\ PositionsAgree'
      BY <3>1, <3>3, HeldKeeps
    <3>5. ~moved' => Walk'
      BY <3>1, <3>2, WalkStays DEF ListInv
    <3> QED BY <3>1, <3>2, <3>4, <3>5 DEF ListInv
  <2> QED BY <2>1, <2>2, <2>3, <2>4 DEF Next
<1> QED BY <1>1, <1>2, PTL DEF Spec

(* What a page reads back from the address a control wrote is what the       *)
(* control asked for, whatever else the address held and whoever typed it.   *)
THEOREM AddressKeepsQueryAlways == Spec => []AddressKeepsQuery
<1>1. ListInv => AddressKeepsQuery
  BY DEF ListInv, AddressKeepsQuery
<1> QED BY <1>1, ListInvariant, PTL

(* The API refuses no query of a page but an audit query with a typed date   *)
(* that Date parses and the DTO does not.                                    *)
THEOREM QueriesAcceptedAlways == Spec => []QueriesAccepted
<1>1. ListInv => QueriesAccepted
  BY OnScreen, CanonicalAccepted DEF ListInv, Sound, QueriesAccepted
<1> QED BY <1>1, ListInvariant, PTL

(* An answer shown while the walk goes on: the page of the order of the rows *)
(* that fit what the controls show.                                          *)
LEMMA ShownOnWalk ==
    ASSUME ListInv, ~moved, answer.at = "shown"
    PROVE  /\ list \in Lists /\ Canonical(list, Query) /\ Walk
           /\ Matching(list, Filters, Query) = Fitting
           /\ Cardinality(Fitting) \in Nat /\ Fitting \subseteq Items /\ IsFiniteSet(Fitting)
           /\ answer.page = Query.page
           /\ \E s \in Ordered(list, Query, Fitting) :
                 /\ answer = Answered(list, Query, PageOf(s, Query), Fitting)
                 /\ s \in [1 .. Cardinality(Fitting) -> Fitting]
                 /\ \A i \in Fitting : \E n \in 1 .. Cardinality(Fitting) : s[n] = i
<1>1. /\ list \in Lists /\ Canonical(list, Query) /\ Walk
      /\ answer.page = Query.page /\ answer \in Answers(list, Query)
  BY OnScreen DEF ListInv, Sound, Walk
<1>2. Cardinality(Fitting) \in Nat /\ Fitting \subseteq Items /\ IsFiniteSet(Fitting)
  BY FittingItems DEF Fitting
<1>3. PICK s \in Ordered(list, Query, Fitting) :
         answer = Answered(list, Query, PageOf(s, Query), Fitting)
  BY <1>1, AnswerIsPage DEF Fitting
<1>4. /\ s \in [1 .. Cardinality(Fitting) -> Fitting]
      /\ \A i \in Fitting : \E n \in 1 .. Cardinality(Fitting) : s[n] = i
  BY <1>2, OrderNamesEach
<1> QED BY <1>1, <1>2, <1>3, <1>4, FiltersAreWhere

(* Walking from page 1 to the last one shows every row that fits what the    *)
(* controls show and no other, whatever the rows, their order and the size   *)
(* of a page, as long as the answers shown on the way, from the API or from  *)
(* the cache, are of the tables as they are.                                 *)
THEOREM WalkShowsAllAlways == Spec => []WalkShowsAll
<1>1. ListInv => WalkShowsAll
  <2> SUFFICES ASSUME ListInv, ~moved, answer.at = "shown",
                      answer.items = <<>> \/ ~NextPage(answer)
               PROVE  seen = Matching(list, Filters, Query)
    BY DEF WalkShowsAll
  <2>1. /\ list \in Lists /\ Canonical(list, Query) /\ Walk
        /\ Matching(list, Filters, Query) = Fitting
        /\ Cardinality(Fitting) \in Nat /\ answer.page = Query.page
    BY ShownOnWalk
  <2>2. PICK s \in Ordered(list, Query, Fitting) :
           /\ answer = Answered(list, Query, PageOf(s, Query), Fitting)
           /\ s \in [1 .. Cardinality(Fitting) -> Fitting]
           /\ \A i \in Fitting : \E n \in 1 .. Cardinality(Fitting) : s[n] = i
    BY ShownOnWalk
  <2>3. /\ Query.page \in Nat \ {0} /\ Query.limit \in Nat \ {0} /\ Offset \in Nat
        /\ Query.page * Query.limit = Offset + Query.limit
    BY <2>1, Paging DEF Offset, OffsetOf
  <2>4. Cardinality(Fitting) <= Offset + Query.limit
    <3>1. CASE answer.items = <<>>
      <4>1. PageOf(s, Query) = <<>>
        BY <2>2, <3>1 DEF Answered
      <4>2. Cardinality(Fitting) <= Offset
        BY <2>1, <2>2, <4>1, RowsOfPage DEF Offset, OffsetOf
      <4> QED BY <2>1, <2>3, <4>2
    <3>2. CASE answer.items # <<>> /\ Cardinality(Fitting) # 0
      <4>1. answer.totalPages = CeilingOf(Cardinality(Fitting), Query.limit)
        BY <2>2, <3>2 DEF Answered, TotalOf
      <4>2. ~(Query.page * Query.limit < Cardinality(Fitting))
        BY <2>1, <2>3, <3>2, <4>1, NextWhileRows
      <4> QED BY <2>1, <2>3, <4>2
    <3>3. CASE Cardinality(Fitting) = 0
      BY <2>3, <3>3
    <3> QED BY <3>1, <3>2, <3>3
  <2>5. FirstRows(list, Query, Offset + Query.limit, seen) /\ seen \subseteq Fitting
    BY <2>1 DEF Walk, Reached, Fitting
  <2>6. \A n \in 1 .. Cardinality(Fitting) : s[n] \in seen
    BY <2>1, <2>2, <2>3, <2>4, <2>5 DEF FirstRows, Fitting
  <2> QED BY <2>1, <2>2, <2>5, <2>6
<1> QED BY <1>1, ListInvariant, PTL

(* An empty list, which has no buttons to leave the page by, means that      *)
(* nothing fits the controls, unless a page was reached by an address or an  *)
(* answer shown since page 1 is older than a change of the rows.             *)
THEOREM EmptyMeansNothingFitsAlways == Spec => []EmptyMeansNothingFits
<1>1. ListInv => EmptyMeansNothingFits
  <2> SUFFICES ASSUME ListInv, ~moved, answer.at = "shown", answer.items = <<>>
               PROVE  Matching(list, Filters, Query) = {}
    BY DEF EmptyMeansNothingFits
  <2>1. /\ list \in Lists /\ Canonical(list, Query) /\ Walk
        /\ Matching(list, Filters, Query) = Fitting
        /\ Cardinality(Fitting) \in Nat /\ IsFiniteSet(Fitting)
    BY ShownOnWalk
  <2>2. PICK s \in Ordered(list, Query, Fitting) :
           /\ answer = Answered(list, Query, PageOf(s, Query), Fitting)
           /\ s \in [1 .. Cardinality(Fitting) -> Fitting]
    BY ShownOnWalk
  <2>3. PageOf(s, Query) = <<>>
    BY <2>2 DEF Answered
  <2>4. Cardinality(Fitting) <= Offset
    BY <2>1, <2>2, <2>3, RowsOfPage DEF Offset, OffsetOf
  <2>5. Offset \in Nat /\ (Query.page = 1 => Offset = 0)
    BY <2>1, Paging DEF Offset, OffsetOf
  <2>6. Query.page = 1
    BY <2>1, <2>4, <2>5 DEF Walk, Reached, Fitting, Offset
  <2>7. Cardinality(Fitting) = 0
    BY <2>1, <2>4, <2>5, <2>6
  <2> QED BY <2>1, <2>7, FS_EmptySet
<1> QED BY <1>1, ListInvariant, PTL

(* Whatever is searched, filtered, sorted or paged, in whatever order, the   *)
(* answers held on the screen and in the cache give a participant one        *)
(* position as long as the results between them are the same.                *)
THEOREM PositionsAgreeAlways == Spec => []PositionsAgree
<1>1. ListInv => PositionsAgree
  BY DEF ListInv
<1> QED BY <1>1, ListInvariant, PTL

(* The results are always one of the books. *)
LEMMA BookAlways == Spec => [](book \in Books)
<1>1. Init => book \in Books
  BY DEF Init
<1>2. book \in Books /\ [Next]_vars => (book \in Books)'
  BY DEF Next, Choose, Clear, ClearAll, Submit, SwitchView, Paginate, Answer,
         AnswerBehind, Collect, TypeAddress, ChangeRows, Navigate, vars
<1> QED BY <1>1, <1>2, PTL DEF Spec

(* Who won no fewer points than another in any completed race, and more in   *)
(* one, is before them in every answer on the screen that no change of the   *)
(* results has outdated, whatever the list is filtered and sorted by.        *)
THEOREM ScoresDecideAlways == Spec => []ScoresDecide
<1>1. ListInv /\ book \in Books => ScoresDecide
  <2> SUFFICES ASSUME ListInv, book \in Books, answer.at = "shown", ~Outdated(answer),
                      list \in Standing,
                      NEW i \in Range(answer.items), NEW j \in Range(answer.items),
                      \A race \in {r.race : r \in book} : Points(i, race) >= Points(j, race),
                      \E race \in {r.race : r \in book} : Points(i, race) > Points(j, race)
               PROVE  answer.position[i] < answer.position[j]
    BY DEF ScoresDecide
  <2>1. Proper(book)
    BY ListPagesAssumption DEF ListPagesAssumption, Proper
  <2>2. \A p, race : Points(p, race) = Total(Won(book, p, {race}))
    <3> SUFFICES ASSUME NEW p, NEW race
                 PROVE  Points(p, race) = Total(Won(book, p, {race}))
      OBVIOUS
    <3>1. {r \in book : r.of = p /\ r.race = race /\ r.completed} = Won(book, p, {race})
      BY DEF Won
    <3> QED BY <3>1 DEF Points, Total
  <2>3. /\ list \in Lists /\ Canonical(list, Query) /\ answer \in Answers(list, Query)
    BY OnScreen DEF ListInv, Sound, Outdated
  <2>4. /\ i \in Participants(book) /\ j \in Participants(book)
        /\ answer.position[i] = DenseRank(book, Participants(book), i)
        /\ answer.position[j] = DenseRank(book, Participants(book), j)
    BY <2>3, AnswersRank
  <2>5. DenseRank(book, Participants(book), i) < DenseRank(book, Participants(book), j)
    BY <2>1, <2>2, <2>4, MorePointsRankHigher DEF RacesOf
  <2> QED BY <2>4, <2>5
<1> QED BY <1>1, ListInvariant, BookAlways, PTL
=============================================================================
