------------------------- MODULE RegistrationsService -------------------------
(***************************************************************************)
(* RegistrationsService: entering a race, approving, rejecting and         *)
(* cancelling an entry.                                                    *)
(*                                                                         *)
(* create and approve run in a transaction that locks the race row (and,   *)
(* for approve, the registration row before it) until it commits with its  *)
(* audit event.  reject and cancel open no transaction: they read, decide  *)
(* on what they read, save and audit, as RacesService does.                *)
(***************************************************************************)
EXTENDS RaceStore

VARIABLE registrationRequest   \* the request each slot is running

RegistrationIdle == [at |-> "idle"]

RegistrationColumns == {"status", "startingPosition"}

(* at: the statement the request runs next.  create: validating, entering;   *)
(* approve: lockingRace, checking, approving; reject and cancel: loading,    *)
(* writing, auditing.                                                        *)
RegistrationWork == [at : {"validating", "entering",
                           "lockingRace", "checking", "approving",
                           "loading", "writing", "auditing"},
                     id : Entries,
                     entity : RegistrationRow,
                     dirty : SUBSET RegistrationColumns]

RegistrationsTypeOK ==
    registrationRequest \in
        [RegistrationRequests -> RegistrationWork \cup {RegistrationIdle}]

RegistrationsInit ==
    registrationRequest = [q \in RegistrationRequests |-> RegistrationIdle]

RegistrationAt(q, step) == registrationRequest[q].at = step

RegistrationTask(step, k, entity) ==
    [at |-> step, id |-> k, entity |-> entity, dirty |-> {}]

RegistrationProceed(q, work) ==
    registrationRequest' = [registrationRequest EXCEPT ![q] = work]

RegistrationFinish(q) == RegistrationProceed(q, RegistrationIdle)

UnchangedByRegistrations == UNCHANGED <<now, race, result, raceAudit, resultAudit>>

RegistrationReadOnly == /\ UnchangedByRegistrations
                        /\ UNCHANGED <<registration, registrationAudit>>

KeepLocks == UNCHANGED <<raceLock, registrationLock>>

RollbackUnreleased(q) == /\ RegistrationFinish(q)
                         /\ KeepLocks
                         /\ RegistrationReadOnly

(* The transaction fails: nothing it wrote stays, and its locks are free. *)
RollbackRegistration(q) == /\ RegistrationFinish(q)
                           /\ Release(q)
                           /\ RegistrationReadOnly

(* The transaction commits the row and its audit event together. *)
CommitRegistration(q, k, row) ==
    /\ registration' = [registration EXCEPT ![k] = row]
    /\ registrationAudit' = [registrationAudit EXCEPT ![k] = row.status]
    /\ RegistrationFinish(q)
    /\ Release(q)
    /\ UnchangedByRegistrations

RegistrationWindowOpen(row) == /\ row.status = "OPEN_FOR_REGISTRATION"
                               /\ row.registrationDeadline > now

Pending == [status |-> "PENDING", startingPosition |-> 0]

-----------------------------------------------------------------------------
LockRaceForEntryUnlocked(q, k) ==
    /\ RegistrationAt(q, "idle")
    /\ RegistrationWindowOpen(race[k[1]])
    /\ RegistrationProceed(q, RegistrationTask("validating", k, Pending))
    /\ KeepLocks
    /\ RegistrationReadOnly

(* create: lock the race and check its window. *)
LockRaceForEntry(q, k) ==
    /\ RegistrationAt(q, "idle")
    /\ RaceUnlocked(k[1])
    /\ RegistrationWindowOpen(race[k[1]])
    /\ raceLock' = [raceLock EXCEPT ![k[1]] = q]
    /\ RegistrationProceed(q, RegistrationTask("validating", k, Pending))
    /\ UNCHANGED registrationLock
    /\ RegistrationReadOnly

(* validateIndividual, validateTeam: the participant's own state is outside *)
(* this module, so an eligible and an ineligible participant both occur.    *)
ValidateEntry(q) ==
    /\ RegistrationAt(q, "validating")
    /\ \/ /\ registration[registrationRequest[q].id].status = "NONE"
          /\ RegistrationProceed(q, [registrationRequest[q] EXCEPT !.at = "entering"])
          /\ KeepLocks
          /\ RegistrationReadOnly
       \/ RollbackRegistration(q)

(* The INSERT, which the unique indexes of race and participant may refuse. *)
InsertEntry(q) ==
    /\ RegistrationAt(q, "entering")
    /\ LET k == registrationRequest[q].id
       IN  IF registration[k].status = "NONE"
           THEN CommitRegistration(q, k, Pending)
           ELSE RollbackRegistration(q)

-----------------------------------------------------------------------------
LockRegistrationForApprovalUnlocked(q, k, position) ==
    /\ RegistrationAt(q, "idle")
    /\ registration[k].status = "PENDING"
    /\ RegistrationProceed(q, RegistrationTask("lockingRace", k,
          [status |-> "APPROVED", startingPosition |-> position]))
    /\ KeepLocks
    /\ RegistrationReadOnly

LockRegistrationForReapproval(q, k, position) ==
    /\ RegistrationAt(q, "idle")
    /\ RegistrationUnlocked(k)
    /\ registration[k].status \in {"PENDING", "CANCELLED"}
    /\ registrationLock' = [registrationLock EXCEPT ![k] = q]
    /\ RegistrationProceed(q, RegistrationTask("lockingRace", k,
          [status |-> "APPROVED", startingPosition |-> position]))
    /\ UNCHANGED raceLock
    /\ RegistrationReadOnly

(* approve: lock the registration, which must be PENDING. *)
LockRegistrationForApproval(q, k, position) ==
    /\ RegistrationAt(q, "idle")
    /\ RegistrationUnlocked(k)
    /\ registration[k].status = "PENDING"
    /\ registrationLock' = [registrationLock EXCEPT ![k] = q]
    /\ RegistrationProceed(q, RegistrationTask("lockingRace", k,
          [status |-> "APPROVED", startingPosition |-> position]))
    /\ UNCHANGED raceLock
    /\ RegistrationReadOnly

LockRaceForApprovalUnlocked(q) ==
    /\ RegistrationAt(q, "lockingRace")
    /\ IF RegistrationWindowOpen(race[registrationRequest[q].id[1]])
       THEN /\ RegistrationProceed(q, [registrationRequest[q] EXCEPT !.at = "checking"])
            /\ KeepLocks
            /\ RegistrationReadOnly
       ELSE RollbackRegistration(q)

(* Then the race, whose window must be open. *)
LockRaceForApproval(q) ==
    /\ RegistrationAt(q, "lockingRace")
    /\ LET r == registrationRequest[q].id[1]
       IN  /\ RaceUnlocked(r)
           /\ IF RegistrationWindowOpen(race[r])
              THEN /\ raceLock' = [raceLock EXCEPT ![r] = q]
                   /\ RegistrationProceed(q, [registrationRequest[q] EXCEPT
                                                 !.at = "checking"])
                   /\ UNCHANGED registrationLock
                   /\ RegistrationReadOnly
              ELSE RollbackRegistration(q)

HasCapacityInclusive(r) == Cardinality(Approved(r)) <= race[r].maxParticipants

(* The race's capacity, and its starting positions in any status. *)
HasCapacity(r) == Cardinality(Approved(r)) < race[r].maxParticipants

StartingPositionAssigned(r, position) ==
    \E j \in EntriesOf(r) : registration[j].startingPosition = position

CheckApproval(q) ==
    /\ RegistrationAt(q, "checking")
    /\ LET work == registrationRequest[q]
       IN  IF /\ HasCapacity(work.id[1])
              /\ ~StartingPositionAssigned(work.id[1], work.entity.startingPosition)
           THEN /\ RegistrationProceed(q, [work EXCEPT !.at = "approving"])
                /\ KeepLocks
                /\ RegistrationReadOnly
           ELSE RollbackRegistration(q)

CommitApproval(q) ==
    /\ RegistrationAt(q, "approving")
    /\ LET work == registrationRequest[q]
       IN  IF StartingPositionIndex(work.id, work.entity.startingPosition)
           THEN CommitRegistration(q, work.id, work.entity)
           ELSE RollbackRegistration(q)

-----------------------------------------------------------------------------
(* reject and cancel read the registration (cancel its race too). *)
RejectRegistration(q, k) ==
    /\ RegistrationAt(q, "idle")
    /\ registration[k].status = "PENDING"
    /\ RegistrationProceed(q, RegistrationTask("loading", k,
                        [registration[k] EXCEPT !.status = "REJECTED"]))
    /\ KeepLocks
    /\ RegistrationReadOnly

CancelRegistration(q, k) ==
    /\ RegistrationAt(q, "idle")
    /\ registration[k].status \in {"PENDING", "APPROVED"}
    /\ RegistrationWindowOpen(race[k[1]])
    /\ RegistrationProceed(q, RegistrationTask("loading", k,
                        [registration[k] EXCEPT !.status = "CANCELLED"]))
    /\ KeepLocks
    /\ RegistrationReadOnly

(* repository.save: the SELECT that finds the columns to set, ...  *)
DifferingRegistration(row, entity) ==
    {c \in RegistrationColumns :
        \/ c = "status" /\ row.status # entity.status
        \/ c = "startingPosition"
           /\ row.startingPosition # entity.startingPosition}

PatchedRegistration(row, entity, dirty) ==
    [status |-> IF "status" \in dirty THEN entity.status ELSE row.status,
     startingPosition |-> IF "startingPosition" \in dirty
                          THEN entity.startingPosition
                          ELSE row.startingPosition]

LoadRegistration(q) ==
    /\ RegistrationAt(q, "loading")
    /\ LET work == registrationRequest[q]
       IN  RegistrationProceed(q, [work EXCEPT
              !.at = "writing",
              !.dirty = DifferingRegistration(registration[work.id], work.entity)])
    /\ KeepLocks
    /\ RegistrationReadOnly

(* ... and the UPDATE, which waits for the row's lock and which the index of *)
(* starting positions may refuse.                                            *)
WriteRegistration(q) ==
    /\ RegistrationAt(q, "writing")
    /\ LET work == registrationRequest[q]
           row  == PatchedRegistration(registration[work.id], work.entity, work.dirty)
       IN  /\ work.dirty = {} \/ RegistrationUnlocked(work.id)
           /\ IF StartingPositionIndex(work.id, row.startingPosition)
              THEN /\ registration' = [registration EXCEPT ![work.id] = row]
                   /\ RegistrationProceed(q, RegistrationTask("auditing", work.id, work.entity))
              ELSE RegistrationFinish(q) /\ UNCHANGED registration
    /\ UNCHANGED registrationAudit
    /\ KeepLocks
    /\ UnchangedByRegistrations

AuditRegistration(q) ==
    /\ RegistrationAt(q, "auditing")
    /\ registrationAudit' = [registrationAudit EXCEPT ![registrationRequest[q].id] =
                                registrationRequest[q].entity.status]
    /\ RegistrationFinish(q)
    /\ UNCHANGED registration
    /\ KeepLocks
    /\ UnchangedByRegistrations

(* The process or its connection dies: its open transaction rolls back. *)
AbandonRegistrationRequest(q) == ~RegistrationAt(q, "idle") /\ RollbackRegistration(q)

-----------------------------------------------------------------------------
RegistrationStep(q) ==
    \/ ValidateEntry(q) \/ InsertEntry(q)
    \/ LockRaceForApproval(q) \/ CheckApproval(q) \/ CommitApproval(q)
    \/ LoadRegistration(q) \/ WriteRegistration(q) \/ AuditRegistration(q)

RegistrationsNext ==
    \E q \in RegistrationRequests :
        \/ \E k \in Entries :
              \/ LockRaceForEntry(q, k)
              \/ \E position \in Positions : LockRegistrationForApproval(q, k, position)
              \/ RejectRegistration(q, k)
              \/ CancelRegistration(q, k)
        \/ RegistrationStep(q)
        \/ AbandonRegistrationRequest(q)
=============================================================================
