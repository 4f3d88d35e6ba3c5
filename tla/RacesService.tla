----------------------------- MODULE RacesService -----------------------------
(***************************************************************************)
(* RacesService: creating, editing, moving and removing a race.            *)
(*                                                                         *)
(* No handler opens a transaction or locks a row.  Each reads the race     *)
(* into an entity, decides on what it read, and hands the entity to        *)
(* repository.save, which TypeORM runs as two statements: a SELECT of the  *)
(* row as it is now, and an UPDATE of the columns in which the entity      *)
(* differs from that row (or an INSERT when the row has gone).  The audit  *)
(* event is one more statement, after the row is written.  Other requests  *)
(* run between any two of these statements.                                *)
(***************************************************************************)
EXTENDS RaceStore

VARIABLE raceRequest   \* the request each slot of RaceRequests is running

RaceIdle == [at |-> "idle"]

Unknown == -1          \* a count that has not been read yet

RaceColumns == {"status", "maxParticipants", "scheduledAt",
                "registrationDeadline"}

(* at: the statement the request runs next; entity: the race in memory;     *)
(* approved, recorded: the counts read for COMPLETED; dirty: the columns    *)
(* the UPDATE of save will set.                                             *)
RaceWorkOn(steps, entities) == [at : steps,
                                id : Races,
                                entity : entities,
                                approved : Nat \cup {Unknown},
                                recorded : Nat \cup {Unknown},
                                dirty : SUBSET RaceColumns]

RaceWork == RaceWorkOn({"counting", "checking", "loading", "writing",
                        "inserting", "auditing"}, RaceRow)
            \cup RaceWorkOn({"deleting", "auditing"}, {Deleted})

RacesTypeOK == raceRequest \in [RaceRequests -> RaceWork \cup {RaceIdle}]

RacesInit == raceRequest = [q \in RaceRequests |-> RaceIdle]

RaceAt(q, step) == raceRequest[q].at = step

RaceTask(step, r, entity) ==
    [at |-> step, id |-> r, entity |-> entity,
     approved |-> Unknown, recorded |-> Unknown, dirty |-> {}]

(* The request goes on with its next statement, or ends. *)
RaceProceed(q, work) == raceRequest' = [raceRequest EXCEPT ![q] = work]

RaceFinish(q) == RaceProceed(q, RaceIdle)

(* The race table and the audit event of a race are all these handlers write. *)
UnchangedByRaces == UNCHANGED <<now, registration, result, raceLock,
                                registrationLock, registrationAudit,
                                resultAudit>>

RaceReadOnly == /\ UnchangedByRaces
            /\ UNCHANGED <<race, raceAudit>>

-----------------------------------------------------------------------------
allowedStatusTransitions ==
    [s \in RaceStatus |->
        CASE s = "DRAFT" -> {"OPEN_FOR_REGISTRATION", "CANCELLED"}
          [] s = "OPEN_FOR_REGISTRATION" -> {"CLOSED", "CANCELLED"}
          [] s = "CLOSED" -> {"IN_PROGRESS", "CANCELLED"}
          [] s = "IN_PROGRESS" -> {"COMPLETED", "CANCELLED"}
          [] OTHER -> {}]

validateSchedule(schedule, requireFutureStart) ==
    /\ requireFutureStart => schedule.scheduledAt > now
    /\ schedule.registrationDeadline < schedule.scheduledAt

RaceRowOf(status, capacity, schedule) ==
    [status |-> status, maxParticipants |-> capacity,
     scheduledAt |-> schedule.scheduledAt,
     registrationDeadline |-> schedule.registrationDeadline]

-----------------------------------------------------------------------------
(* create: a new id, so save is one INSERT. *)
CreateRace(q, r, capacity, schedule) ==
    /\ RaceAt(q, "idle")
    /\ race[r] = NeverCreated
    /\ validateSchedule(schedule, TRUE)
    /\ LET entity == RaceRowOf("DRAFT", capacity, schedule)
       IN  /\ race' = [race EXCEPT ![r] = entity]
           /\ RaceProceed(q, RaceTask("auditing", r, entity))
    /\ UNCHANGED raceAudit
    /\ UnchangedByRaces

(* update: only a race read as DRAFT; the start may lie in the past. *)
UpdateRace(q, r, capacity, schedule) ==
    /\ RaceAt(q, "idle")
    /\ race[r].status = "DRAFT"
    /\ validateSchedule(schedule, FALSE)
    /\ RaceProceed(q, RaceTask("loading", r, RaceRowOf("DRAFT", capacity, schedule)))
    /\ RaceReadOnly

(* updateStatus, up to the counts it needs for IN_PROGRESS and COMPLETED. *)
UpdateStatus(q, r, target) ==
    /\ RaceAt(q, "idle")
    /\ RaceExists(r)
    /\ target \in allowedStatusTransitions[race[r].status]
    /\ target = "OPEN_FOR_REGISTRATION" => validateSchedule(race[r], TRUE)
    /\ LET next == IF target \in {"IN_PROGRESS", "COMPLETED"} THEN "counting"
                                                              ELSE "loading"
       IN  RaceProceed(q, RaceTask(next, r, [race[r] EXCEPT !.status = target]))
    /\ RaceReadOnly

(* The counts of updateStatus; Promise.all runs the two of COMPLETED in any *)
(* order, on connections of their own.                                      *)
StartAllowed(work) == work.approved >= 2

CompletionAllowed(work) == /\ work.approved # 0
                           /\ work.recorded = work.approved

Counted(q, work) ==
    IF work.entity.status = "COMPLETED" /\ Unknown \in {work.approved, work.recorded}
    THEN RaceProceed(q, work)
    ELSE IF IF work.entity.status = "COMPLETED" THEN CompletionAllowed(work)
                                                ELSE StartAllowed(work)
         THEN RaceProceed(q, RaceTask("loading", work.id, work.entity))
         ELSE RaceFinish(q)

CountApproved(q) ==
    /\ RaceAt(q, "counting")
    /\ raceRequest[q].approved = Unknown
    /\ Counted(q, [raceRequest[q] EXCEPT
                     !.approved = Cardinality(Approved(raceRequest[q].id))])
    /\ RaceReadOnly

CountResults(q) ==
    /\ RaceAt(q, "counting")
    /\ raceRequest[q].entity.status = "COMPLETED"
    /\ raceRequest[q].recorded = Unknown
    /\ Counted(q, [raceRequest[q] EXCEPT
                     !.recorded = Cardinality(Recorded(raceRequest[q].id))])
    /\ RaceReadOnly

(* remove: the race, then whether it has registrations. *)
RemoveRace(q, r) ==
    /\ RaceAt(q, "idle")
    /\ RaceExists(r)
    /\ RaceProceed(q, RaceTask("checking", r, race[r]))
    /\ RaceReadOnly

CheckRegistrations(q) ==
    /\ RaceAt(q, "checking")
    /\ LET entity == raceRequest[q].entity
           r      == raceRequest[q].id
       IN  \/ /\ entity.status = "DRAFT" /\ Registered(r) = {}
              /\ RaceProceed(q, RaceTask("deleting", r, Deleted))
           \/ /\ entity.status # "DRAFT" \/ Registered(r) # {}
              /\ entity.status \in {"COMPLETED", "CANCELLED"}
              /\ RaceFinish(q)
           \/ /\ entity.status # "DRAFT" \/ Registered(r) # {}
              /\ entity.status \notin {"COMPLETED", "CANCELLED"}
              /\ RaceProceed(q, RaceTask("loading", r,
                                 [entity EXCEPT !.status = "CANCELLED"]))
    /\ RaceReadOnly

(* repository.remove: the DELETE, which the foreign key of a registration   *)
(* refuses and which finds nothing when the row has gone already.           *)
DeleteRace(q) ==
    /\ RaceAt(q, "deleting")
    /\ LET r == raceRequest[q].id
       IN  /\ RaceUnlocked(r)
           /\ IF DeleteRestricted(r)
              THEN RaceFinish(q) /\ UNCHANGED race
              ELSE /\ race' = [race EXCEPT ![r] = Deleted]
                   /\ RaceProceed(q, RaceTask("auditing", r, Deleted))
    /\ UNCHANGED raceAudit
    /\ UnchangedByRaces

-----------------------------------------------------------------------------
(* repository.save of an entity that has an id. *)

DifferingRace(row, entity) ==
    {c \in RaceColumns :
        \/ c = "status" /\ row.status # entity.status
        \/ c = "maxParticipants" /\ row.maxParticipants # entity.maxParticipants
        \/ c = "scheduledAt" /\ row.scheduledAt # entity.scheduledAt
        \/ c = "registrationDeadline"
           /\ row.registrationDeadline # entity.registrationDeadline}

PatchedRace(row, entity, dirty) ==
    [status |-> IF "status" \in dirty THEN entity.status ELSE row.status,
     maxParticipants |-> IF "maxParticipants" \in dirty
                         THEN entity.maxParticipants ELSE row.maxParticipants,
     scheduledAt |-> IF "scheduledAt" \in dirty
                     THEN entity.scheduledAt ELSE row.scheduledAt,
     registrationDeadline |-> IF "registrationDeadline" \in dirty
                              THEN entity.registrationDeadline
                              ELSE row.registrationDeadline]

LoadRace(q) ==
    /\ RaceAt(q, "loading")
    /\ LET work == raceRequest[q]
       IN  IF RaceExists(work.id)
           THEN RaceProceed(q, [work EXCEPT
                              !.at = "writing",
                              !.dirty = DifferingRace(race[work.id], work.entity)])
           ELSE RaceProceed(q, [work EXCEPT !.at = "inserting"])
    /\ RaceReadOnly

(* The UPDATE waits for the row's lock; it sets nothing when the row has     *)
(* gone, and the schedule CHECK may refuse the row it would make.            *)
WriteRace(q) ==
    /\ RaceAt(q, "writing")
    /\ LET work == raceRequest[q]
           row  == PatchedRace(race[work.id], work.entity, work.dirty)
       IN  /\ work.dirty = {} \/ RaceUnlocked(work.id)
           /\ \/ /\ ~RaceExists(work.id)
                 /\ UNCHANGED race
                 /\ RaceProceed(q, RaceTask("auditing", work.id, work.entity))
              \/ /\ RaceExists(work.id) /\ ScheduleCheck(row)
                 /\ race' = [race EXCEPT ![work.id] = row]
                 /\ RaceProceed(q, RaceTask("auditing", work.id, work.entity))
              \/ /\ RaceExists(work.id) /\ ~ScheduleCheck(row)
                 /\ UNCHANGED race
                 /\ RaceFinish(q)
    /\ UNCHANGED raceAudit
    /\ UnchangedByRaces

(* The INSERT that save makes of an entity whose row was deleted. *)
InsertRace(q) ==
    /\ RaceAt(q, "inserting")
    /\ LET work == raceRequest[q]
       IN  IF RaceExists(work.id)
           THEN RaceFinish(q) /\ UNCHANGED race
           ELSE /\ race' = [race EXCEPT ![work.id] = work.entity]
                /\ RaceProceed(q, RaceTask("auditing", work.id, work.entity))
    /\ UNCHANGED raceAudit
    /\ UnchangedByRaces

(* The audit event, in a statement and a transaction of its own. *)
AuditRace(q) ==
    /\ RaceAt(q, "auditing")
    /\ raceAudit' = [raceAudit EXCEPT ![raceRequest[q].id] =
                        raceRequest[q].entity.status]
    /\ RaceFinish(q)
    /\ UNCHANGED race
    /\ UnchangedByRaces

(* The process dies, or a statement fails: what is committed stays.  *)
AbandonRaceRequest(q) ==
    /\ ~RaceAt(q, "idle")
    /\ RaceFinish(q)
    /\ RaceReadOnly

-----------------------------------------------------------------------------
RaceStep(q) ==
    \/ CountApproved(q) \/ CountResults(q) \/ CheckRegistrations(q)
    \/ DeleteRace(q) \/ LoadRace(q) \/ WriteRace(q) \/ InsertRace(q)
    \/ AuditRace(q)

RacesNext ==
    \E q \in RaceRequests :
        \/ \E r \in Races, c \in Capacities, s \in Schedules :
              CreateRace(q, r, c, s) \/ UpdateRace(q, r, c, s)
        \/ \E r \in Races, target \in RaceStatus : UpdateStatus(q, r, target)
        \/ \E r \in Races : RemoveRace(q, r)
        \/ RaceStep(q)
        \/ AbandonRaceRequest(q)
=============================================================================
