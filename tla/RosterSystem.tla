----------------------------- MODULE RosterSystem -----------------------------
(***************************************************************************)
(* The roster and the entries made from it: RosterService beside           *)
(* RegistrationsService.create, whose validateIndividual and validateTeam  *)
(* are detailed here into the reads they make of competitors, teams and    *)
(* team_members.  RegistrationsService leaves their outcome open; here     *)
(* every step of an entry is shown to be one of its steps.                 *)
(***************************************************************************)
EXTENDS RegistrationsService, RosterService

CONSTANT RaceTypes     \* the values of races.type

ASSUME RaceTypeAssumption == RaceTypes \subseteq {"INDIVIDUAL", "TEAM", "MIXED"}

VARIABLES
    raceType,    \* races.type, read under the race lock
    validation   \* what the validation of an entry has read so far

vars == <<storeVars, registrationRequest, rosterVars, raceType, validation>>

NotValidating == [step |-> "none", members |-> {}, teams |-> {}]

EntryTypeOK ==
    /\ raceType \in [Races -> RaceTypes]
    /\ validation \in [RegistrationRequests ->
          [step : {"none", "participant", "duplicate", "memberships", "overlap",
                   "done"},
           members : SUBSET Competitors,
           teams : SUBSET Teams]]

TypeOK == StoreTypeOK /\ RegistrationsTypeOK /\ RosterTypeOK /\ EntryTypeOK

Reading(q, step) == RegistrationAt(q, "validating") /\ validation[q].step = step

Participant(q) == registrationRequest[q].id[2]

RaceOf(q) == registrationRequest[q].id[1]

EnteredIn(r, p) == registration[<<r, p>>].status # "NONE"

Read(q, read) == validation' = [validation EXCEPT ![q] = read]

(* A read of the validation: no table changes. *)
Reads(q, read) == /\ Read(q, read)
                  /\ UNCHANGED <<storeVars, registrationRequest>>

Refuse(q) == RollbackRegistration(q) /\ Read(q, NotValidating)

(* The validation has succeeded: the base module's ValidateEntry. *)
Accept(q, read) ==
    /\ RegistrationProceed(q, [registrationRequest[q] EXCEPT !.at = "entering"])
    /\ KeepLocks
    /\ RegistrationReadOnly
    /\ Read(q, [read EXCEPT !.step = "done"])

-----------------------------------------------------------------------------
BeginEntry(q, k) == /\ LockRaceForEntry(q, k)
                    /\ Read(q, [NotValidating EXCEPT !.step = "participant"])

(* The race must take this kind of participant; an individual is ACTIVE, and *)
(* a team is ACTIVE with one member or more, all of them ACTIVE.             *)
Compatible(r, p) ==
    raceType[r] \in {"MIXED", IF p \in Teams THEN "TEAM" ELSE "INDIVIDUAL"}

Eligible(p) ==
    /\ status[p] = "ACTIVE"
    /\ p \in Teams => /\ ActiveMembers(p) # {}
                      /\ \A c \in ActiveMembers(p) : status[c] = "ACTIVE"

ReadParticipant(q) ==
    /\ Reading(q, "participant")
    /\ LET p == Participant(q)
       IN  IF Compatible(RaceOf(q), p) /\ Eligible(p)
           THEN Reads(q, [step |-> "duplicate", teams |-> {},
                          members |-> IF p \in Teams THEN ActiveMembers(p) ELSE {}])
           ELSE Refuse(q)

CheckDuplicateSkipped(q) ==
    /\ Reading(q, "duplicate")
    /\ Reads(q, [validation[q] EXCEPT
          !.step = IF Participant(q) \in Teams THEN "overlap" ELSE "memberships"])

CheckDuplicate(q) ==
    /\ Reading(q, "duplicate")
    /\ LET p == Participant(q)
       IN  IF EnteredIn(RaceOf(q), p)
           THEN Refuse(q)
           ELSE Reads(q, [validation[q] EXCEPT
                   !.step = IF p \in Teams THEN "overlap" ELSE "memberships"])

ReadMemberships(q) ==
    /\ Reading(q, "memberships")
    /\ LET read == [validation[q] EXCEPT !.teams = ActiveTeams(Participant(q))]
       IN  IF read.teams = {}
           THEN Accept(q, read)
           ELSE Reads(q, [read EXCEPT !.step = "overlap"])

(* A team's members, or the teams of an individual, that the race has. *)
Overlap(q) == {p \in validation[q].members \cup validation[q].teams :
                  EnteredIn(RaceOf(q), p)}

CheckOverlap(q) ==
    /\ Reading(q, "overlap")
    /\ IF Overlap(q) = {} THEN Accept(q, validation[q]) ELSE Refuse(q)

(* The INSERT waits for the transaction that holds the team, since its       *)
(* foreign key needs a share of that row, and fails if the row has gone.     *)
InsertValidatedEntry(q) ==
    /\ RegistrationAt(q, "entering")
    /\ RowUnlocked(Participant(q))
    /\ IF Exists(Participant(q)) THEN InsertEntry(q) ELSE RollbackRegistration(q)
    /\ Read(q, NotValidating)

AbandonEntry(q) == AbandonRegistrationRequest(q) /\ Read(q, NotValidating)

-----------------------------------------------------------------------------
EntryStep(q) == \/ ReadParticipant(q) \/ CheckDuplicate(q) \/ ReadMemberships(q)
                \/ CheckOverlap(q) \/ InsertValidatedEntry(q)

EntryNext == \E q \in RegistrationRequests :
                \/ \E k \in Entries : BeginEntry(q, k)
                \/ EntryStep(q)
                \/ AbandonEntry(q)

Next == \/ EntryNext /\ UNCHANGED <<rosterVars, raceType>>
        \/ RosterNext /\ UNCHANGED <<storeVars, registrationRequest, raceType, validation>>

EntryInit ==
    /\ RegistrationsInit
    /\ race \in [Races -> {[status |-> "OPEN_FOR_REGISTRATION", maxParticipants |-> c,
                            scheduledAt |-> s.scheduledAt,
                            registrationDeadline |-> s.registrationDeadline] :
                              c \in Capacities, s \in Schedules}]
    /\ now = 0
    /\ registration = [k \in Entries |-> NoRegistration]
    /\ result = [k \in Entries |-> NoResult]
    /\ raceLock = [r \in Races |-> Free]
    /\ registrationLock = [k \in Entries |-> Free]
    /\ raceAudit = [r \in Races |-> "OPEN_FOR_REGISTRATION"]
    /\ registrationAudit = [k \in Entries |-> "NONE"]
    /\ resultAudit = [k \in Entries |-> NoResult]
    /\ raceType \in [Races -> RaceTypes]
    /\ validation = [q \in RegistrationRequests |-> NotValidating]

Init == RosterInit /\ EntryInit

Spec == Init /\ [][Next]_vars

-----------------------------------------------------------------------------
(* A competitor is an active member of one team at most, though additions to *)
(* two teams hold different locks.                                           *)
OneActiveTeam == \A c \in Competitors : Cardinality(ActiveTeams(c)) <= 1

(* No team outgrows its maximum, whatever joins and leaves overlap. *)
TeamsWithinMaximum == \A t \in Teams : Cardinality(ActiveMembers(t)) <= MaxMembers

(* Whoever has been a member, or entered a race, is retired or deactivated   *)
(* but never deleted, though remove looks for history before it deletes and  *)
(* an entry reads its participant before it inserts.                         *)
HistoryKeepsItsRows ==
    \A p \in Participants :
        MembershipHistory(p) \/ RegistrationHistory(p) => Exists(p)

(* A competitor joins a team only while it is active, though organisers      *)
(* deactivate teams without a lock.                                          *)
JoinsActiveTeam ==
    [][\A m \in Stints : ~membership[m].active /\ membership'[m].active
          => status[m[1]] = "ACTIVE"]_vars

(* When an entry commits, the race has none of the members, or of the teams, *)
(* that its validation read: entries of one race wait for one another.       *)
EntriesDisjointAsRead ==
    [][\A q \in RegistrationRequests :
          /\ validation[q].step = "done"
          /\ registration'[registrationRequest[q].id] # registration[registrationRequest[q].id]
          => Overlap(q) = {}]_vars

(* Each step of a validated entry is a step of RegistrationsService. *)
EntriesRefineRegistrations ==
    [][RegistrationsNext]_<<storeVars, registrationRequest>>

(* A participant does not compete both individually and as a member of a     *)
(* team in one race (docs/business-rules.md).                                *)
NobodyEntersTwice ==
    \A r \in Races, t \in Teams : \A c \in ActiveMembers(t) :
        ~(EnteredIn(r, c) /\ EnteredIn(r, t))
=============================================================================
