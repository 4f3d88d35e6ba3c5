---------------------------- MODULE RosterService ----------------------------
(***************************************************************************)
(* CompetitorsService and TeamsService: the competitors, the teams and who *)
(* is a member of what.                                                    *)
(*                                                                         *)
(* create, update, updateStatus and remove of both services are written    *)
(* alike and work like those of RacesService: no transaction, no lock, a   *)
(* decision on an entity read earlier, TypeORM's two-statement save, and   *)
(* an audit event in a statement of its own.  addMember runs in a          *)
(* transaction that locks the team; removeMember in one that locks the     *)
(* membership.                                                             *)
(*                                                                         *)
(* TeamsService reads a team together with its memberships, so the save of *)
(* a team also compares those: a membership the entity does not have is    *)
(* taken out of the team, which the NOT NULL of its team_id refuses.       *)
(***************************************************************************)
EXTENDS RaceStore

CONSTANTS
    Competitors, Teams,    \* together the participants of RaceStore
    MaxMembers,            \* TEAM_MAX_MEMBERS
    MaxStints,             \* bound on the times a competitor joins one team
    RosterRequests         \* slots for requests of both services

ASSUME RosterAssumption ==
    /\ Participants = Competitors \cup Teams
    /\ Competitors \cap Teams = {}
    /\ MaxMembers \in Nat \ {0}
    /\ MaxStints \in Nat
    /\ Free \notin RosterRequests
    /\ RosterRequests \cap Requests = {}

VARIABLES
    status,          \* competitors and teams: the status of each row
    membership,      \* team_members: the rows of a team and a competitor
    teamLock,        \* the transaction that holds a team row FOR UPDATE
    membershipLock,  \* the transaction that holds an active membership
    rosterAudit,     \* what the newest audit event of a row says of it
    rosterRequest    \* the request each slot is running

rosterVars == <<status, membership, teamLock, membershipLock, rosterAudit,
                rosterRequest>>

-----------------------------------------------------------------------------
Stints == Teams \X Competitors

CompetitorStatus == {"ACTIVE", "SUSPENDED", "RETIRED"}

TeamStatus == {"ACTIVE", "INACTIVE"}

StatusesOf(p) == IF p \in Teams THEN TeamStatus ELSE CompetitorStatus

(* NONE: no row has had this id yet; DELETED: its row was removed. *)
RosterStatus == CompetitorStatus \cup TeamStatus \cup {"NONE", "DELETED"}

Exists(p) == status[p] \notin {"NONE", "DELETED"}

(* rows: how often the competitor has joined the team, each time in a row of *)
(* its own; active: whether the last of them has no left_at yet.             *)
NoMembership == [rows |-> 0, active |-> FALSE]

ActiveTeams(c) == {t \in Teams : membership[<<t, c>>].active}

ActiveMembers(t) == {c \in Competitors : membership[<<t, c>>].active}

RowsOf(t) == [c \in Competitors |-> membership[<<t, c>>].rows]

NoRows == [c \in Competitors |-> 0]

(* The memberships TeamsService loads with a team. *)
LoadedRows(p) == IF p \in Teams THEN RowsOf(p) ELSE NoRows

MembershipHistory(p) ==
    \E m \in Stints : p \in {m[1], m[2]} /\ membership[m].rows > 0

RegistrationHistory(p) ==
    \E k \in Entries : k[2] = p /\ registration[k].status # "NONE"

-----------------------------------------------------------------------------
(* at: the statement the request runs next.  on: the competitor or team, or *)
(* for a membership the pair.  entity: the status in memory; rows: the      *)
(* memberships in memory; dirty: whether save found a difference; orphans:  *)
(* whether it found a membership the entity does not have.                  *)
RosterIdle == [at |-> "idle"]

RosterTask(step, on, entity, rows) ==
    [at |-> step, on |-> on, entity |-> entity, rows |-> rows,
     dirty |-> FALSE, orphans |-> FALSE]

RosterWork == [at : {"checking", "deleting", "loading", "writing", "inserting",
                     "auditing"},
               on : Participants,
               entity : RosterStatus,
               rows : [Competitors -> 0 .. MaxStints],
               dirty : BOOLEAN,
               orphans : BOOLEAN]

MembershipWork == [at : {"finding", "counting", "joining", "leaving"}, on : Stints]

RosterTypeOK ==
    /\ status \in [Participants -> RosterStatus]
    /\ \A p \in Participants : Exists(p) => status[p] \in StatusesOf(p)
    /\ membership \in [Stints -> [rows : 0 .. MaxStints, active : BOOLEAN]]
    /\ teamLock \in [Teams -> RosterRequests \cup {Free}]
    /\ membershipLock \in [Stints -> RosterRequests \cup {Free}]
    /\ rosterAudit \in [Participants \cup Stints ->
                           RosterStatus \cup {"JOINED", "LEFT"}]
    /\ rosterRequest \in [RosterRequests ->
                             RosterWork \cup MembershipWork \cup {RosterIdle}]

RosterStarts(statuses, memberships) ==
    /\ status = statuses
    /\ membership = memberships
    /\ teamLock = [t \in Teams |-> Free]
    /\ membershipLock = [m \in Stints |-> Free]
    /\ rosterAudit = [x \in Participants \cup Stints |->
                         IF x \in Participants THEN statuses[x]
                         ELSE IF memberships[x].active THEN "JOINED" ELSE "NONE"]
    /\ rosterRequest = [q \in RosterRequests |-> RosterIdle]

Nobody == [m \in Stints |-> NoMembership]

RosterInit == RosterStarts([p \in Participants |-> "NONE"], Nobody)

RosterAt(q, step) == rosterRequest[q].at = step

RosterProceed(q, work) == rosterRequest' = [rosterRequest EXCEPT ![q] = work]

RosterFinish(q) == RosterProceed(q, RosterIdle)

KeepMemberships == UNCHANGED <<membership, teamLock, membershipLock>>

RosterReadOnly == KeepMemberships /\ UNCHANGED <<status, rosterAudit>>

RowNeverLocked(p) == TRUE

(* An UPDATE or DELETE of a team waits for the addMember that holds its row. *)
RowUnlocked(p) == p \in Teams => teamLock[p] = Free

-----------------------------------------------------------------------------
(* What the handlers of both services begin with. *)

Create(q, p, s) ==
    /\ RosterAt(q, "idle")
    /\ status[p] = "NONE"
    /\ status' = [status EXCEPT ![p] = s]
    /\ RosterProceed(q, RosterTask("auditing", p, s, NoRows))
    /\ KeepMemberships
    /\ UNCHANGED rosterAudit

(* findOne, and then the entity, with this status, goes to the next step. *)
Begin(q, p, step, entity) ==
    /\ RosterAt(q, "idle")
    /\ Exists(p)
    /\ RosterProceed(q, RosterTask(step, p, entity, LoadedRows(p)))
    /\ RosterReadOnly

CreateCompetitor(q, c) == \E s \in CompetitorStatus : Create(q, c, s)

CreateTeam(q, t) == \E s \in TeamStatus : Create(q, t, s)

(* update sets no column that is modelled, but its entity has them all. *)
UpdateCompetitor(q, c) == Begin(q, c, "loading", status[c])

UpdateTeam(q, t) == Begin(q, t, "loading", status[t])

allowedStatusTransitions ==
    [s \in CompetitorStatus |->
        CASE s = "ACTIVE"    -> {"SUSPENDED", "RETIRED"}
          [] s = "SUSPENDED" -> {"ACTIVE", "RETIRED"}
          [] s = "RETIRED"   -> {}]

UpdateCompetitorStatus(q, c) ==
    Exists(c) /\ \E target \in allowedStatusTransitions[status[c]] :
                    Begin(q, c, "loading", target)

UpdateTeamStatus(q, t) ==
    \E target \in TeamStatus \ {status[t]} : Begin(q, t, "loading", target)

RemoveCompetitor(q, c) == Begin(q, c, "checking", status[c])

RemoveTeam(q, t) == Begin(q, t, "checking", status[t])

(* History is kept by retiring a competitor and deactivating a team.  Both   *)
(* histories only grow, so the two queries of CompetitorsService.remove      *)
(* answer as one would that ran with the first (none) or the second (some).  *)
RetirementOfTeams(p) == "INACTIVE"

Retirement(p) == IF p \in Teams THEN "INACTIVE" ELSE "RETIRED"

HasHistory(p) == \/ MembershipHistory(p)
                 \/ p \in Competitors /\ RegistrationHistory(p)

CheckHistory(q) ==
    /\ RosterAt(q, "checking")
    /\ LET work == rosterRequest[q]
           kept == Retirement(work.on)
           next == IF ~HasHistory(work.on) THEN "deleting"
                   ELSE IF work.entity = kept THEN "auditing" ELSE "loading"
       IN  RosterProceed(q, [work EXCEPT
              !.at = next,
              !.entity = IF next = "loading" THEN kept ELSE @])
    /\ RosterReadOnly

UnrestrictedDelete(p) == FALSE

(* ON DELETE RESTRICT of team_members and race_registrations. *)
RestrictedDelete(p) == MembershipHistory(p) \/ RegistrationHistory(p)

DeleteParticipant(q) ==
    /\ RosterAt(q, "deleting")
    /\ LET p == rosterRequest[q].on
       IN  /\ RowUnlocked(p)
           /\ IF RestrictedDelete(p)
              THEN RosterFinish(q) /\ UNCHANGED status
              ELSE /\ status' = [status EXCEPT ![p] = "DELETED"]
                   /\ RosterProceed(q, RosterTask("auditing", p, "DELETED", NoRows))
    /\ KeepMemberships
    /\ UNCHANGED rosterAudit

-----------------------------------------------------------------------------
(* repository.save: the SELECT finds the differences ... *)
LoadParticipant(q) ==
    /\ RosterAt(q, "loading")
    /\ LET work == rosterRequest[q]
       IN  RosterProceed(q, IF Exists(work.on)
              THEN [work EXCEPT !.at = "writing",
                                !.dirty = status[work.on] # work.entity,
                                !.orphans = work.rows # LoadedRows(work.on)]
              ELSE [work EXCEPT !.at = "inserting"])
    /\ RosterReadOnly

(* ... and the writes of one transaction follow.  team_id is NOT NULL, so a  *)
(* transaction that would take a membership out of its team fails.           *)
NoRowTakenOut(work) == ~work.orphans

WriteParticipant(q) ==
    /\ RosterAt(q, "writing")
    /\ LET work == rosterRequest[q]
           row  == IF work.dirty /\ Exists(work.on) THEN work.entity
                                                    ELSE status[work.on]
       IN  /\ work.dirty => RowUnlocked(work.on)
           /\ IF NoRowTakenOut(work)
              THEN /\ status' = [status EXCEPT ![work.on] = row]
                   /\ RosterProceed(q, [work EXCEPT !.at = "auditing"])
              ELSE RosterFinish(q) /\ UNCHANGED status
    /\ KeepMemberships
    /\ UNCHANGED rosterAudit

(* The INSERT that save makes of an entity whose row was deleted. *)
InsertParticipant(q) ==
    /\ RosterAt(q, "inserting")
    /\ LET work == rosterRequest[q]
       IN  IF Exists(work.on)
           THEN RosterFinish(q) /\ UNCHANGED status
           ELSE /\ status' = [status EXCEPT ![work.on] = work.entity]
                /\ RosterProceed(q, [work EXCEPT !.at = "auditing"])
    /\ KeepMemberships
    /\ UNCHANGED rosterAudit

AuditParticipant(q) ==
    /\ RosterAt(q, "auditing")
    /\ rosterAudit' = [rosterAudit EXCEPT ![rosterRequest[q].on] =
                          rosterRequest[q].entity]
    /\ RosterFinish(q)
    /\ KeepMemberships
    /\ UNCHANGED status

-----------------------------------------------------------------------------
(* addMember and removeMember: COMMIT and ROLLBACK free the transaction's row. *)
EndMembership(q) ==
    /\ teamLock' = [t \in Teams |-> IF teamLock[t] = q THEN Free ELSE teamLock[t]]
    /\ membershipLock' = [m \in Stints |->
                             IF membershipLock[m] = q THEN Free ELSE membershipLock[m]]
    /\ RosterFinish(q)

RollbackMembership(q) ==
    EndMembership(q) /\ UNCHANGED <<status, membership, rosterAudit>>

CommitMembership(q, m, row, event) ==
    /\ membership' = [membership EXCEPT ![m] = row]
    /\ rosterAudit' = [rosterAudit EXCEPT ![m] = event]
    /\ EndMembership(q)
    /\ UNCHANGED status

AddMemberUnlocked(q, t, c) ==
    /\ RosterAt(q, "idle")
    /\ status[t] = "ACTIVE"
    /\ RosterProceed(q, [at |-> "finding", on |-> <<t, c>>])
    /\ RosterReadOnly

(* addMember: lock the team, which must be ACTIVE. *)
AddMember(q, t, c) ==
    /\ RosterAt(q, "idle")
    /\ teamLock[t] = Free
    /\ status[t] = "ACTIVE"
    /\ membership[<<t, c>>].rows < MaxStints
    /\ teamLock' = [teamLock EXCEPT ![t] = q]
    /\ RosterProceed(q, [at |-> "finding", on |-> <<t, c>>])
    /\ UNCHANGED <<status, membership, membershipLock, rosterAudit>>

(* The competitor, whatever its status, must have no active membership. *)
FindCompetitor(q) ==
    /\ RosterAt(q, "finding")
    /\ LET c == rosterRequest[q].on[2]
       IN  IF Exists(c) /\ ActiveTeams(c) = {}
           THEN /\ RosterProceed(q, [rosterRequest[q] EXCEPT !.at = "counting"])
                /\ RosterReadOnly
           ELSE RollbackMembership(q)

CountMembers(q) ==
    /\ RosterAt(q, "counting")
    /\ IF Cardinality(ActiveMembers(rosterRequest[q].on[1])) < MaxMembers
       THEN /\ RosterProceed(q, [rosterRequest[q] EXCEPT !.at = "joining"])
            /\ RosterReadOnly
       ELSE RollbackMembership(q)

NoMembershipIndex(c) == TRUE

(* uq_team_members_active_competitor. *)
ActiveMembershipIndex(c) == ActiveTeams(c) = {}

(* The INSERT, which the index and the foreign keys may refuse. *)
JoinTeam(q) ==
    /\ RosterAt(q, "joining")
    /\ LET m == rosterRequest[q].on
       IN  IF ActiveMembershipIndex(m[2]) /\ Exists(m[1]) /\ Exists(m[2])
           THEN CommitMembership(q, m, [rows |-> membership[m].rows + 1,
                                        active |-> TRUE], "JOINED")
           ELSE RollbackMembership(q)

(* removeMember: lock the active membership, set its left_at. *)
RemoveMember(q, t, c) ==
    /\ RosterAt(q, "idle")
    /\ Exists(t)
    /\ membershipLock[<<t, c>>] = Free
    /\ membership[<<t, c>>].active
    /\ membershipLock' = [membershipLock EXCEPT ![<<t, c>>] = q]
    /\ RosterProceed(q, [at |-> "leaving", on |-> <<t, c>>])
    /\ UNCHANGED <<status, membership, teamLock, rosterAudit>>

LeaveTeam(q) ==
    /\ RosterAt(q, "leaving")
    /\ LET m == rosterRequest[q].on
       IN  CommitMembership(q, m, [membership[m] EXCEPT !.active = FALSE], "LEFT")

(* The process dies, or a statement fails. *)
AbandonRosterRequest(q) == ~RosterAt(q, "idle") /\ RollbackMembership(q)

-----------------------------------------------------------------------------
RosterStep(q) ==
    \/ CheckHistory(q) \/ DeleteParticipant(q)
    \/ LoadParticipant(q) \/ WriteParticipant(q) \/ InsertParticipant(q)
    \/ AuditParticipant(q)
    \/ FindCompetitor(q) \/ CountMembers(q) \/ JoinTeam(q) \/ LeaveTeam(q)

RosterNext ==
    \E q \in RosterRequests :
        \/ \E c \in Competitors :
              \/ CreateCompetitor(q, c) \/ UpdateCompetitor(q, c)
              \/ UpdateCompetitorStatus(q, c) \/ RemoveCompetitor(q, c)
        \/ \E t \in Teams :
              \/ CreateTeam(q, t) \/ UpdateTeam(q, t)
              \/ UpdateTeamStatus(q, t) \/ RemoveTeam(q, t)
        \/ \E t \in Teams, c \in Competitors : AddMember(q, t, c) \/ RemoveMember(q, t, c)
        \/ RosterStep(q)
        \/ AbandonRosterRequest(q)
=============================================================================
