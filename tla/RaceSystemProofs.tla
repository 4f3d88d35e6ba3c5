--------------------------- MODULE RaceSystemProofs --------------------------
(***************************************************************************)
(* What the proofs about RaceSystem rest on.  First, every variable keeps  *)
(* its type: the proof goes service by service; what counts are numbers    *)
(* because a race has finitely many entries, and what a save writes is a   *)
(* row because the row it patches is there.  Then, a request that is past  *)
(* the statement that locks a row holds the lock until its transaction     *)
(* ends, so two requests are never in the checks of one race at once.      *)
(***************************************************************************)
EXTENDS RaceSystem, FiniteSetTheorems, TLAPS

-----------------------------------------------------------------------------
(* Counting: the entries of a race are finite, because participants are.    *)

(* A race has finitely many entries, so what the services count is a number. *)
LEMMA EntriesOfFinite ==
    ASSUME NEW r \in Races
    PROVE  IsFiniteSet(EntriesOf(r))
<1> DEFINE f == [k \in EntriesOf(r) |-> k[2]]
<1>1. f \in Injection(EntriesOf(r), Participants)
  <2>1. f \in [EntriesOf(r) -> Participants]
    BY DEF EntriesOf, Entries
  <2>2. ASSUME NEW j \in EntriesOf(r), NEW k \in EntriesOf(r), f[j] = f[k]
        PROVE  j = k
    BY <2>2 DEF EntriesOf, Entries
  <2> HIDE DEF f
  <2> QED BY <2>1, <2>2 DEF Injection, IsInjective
<1> HIDE DEF f
<1> QED BY <1>1, FS_Injection, StoreAssumption DEF StoreAssumption

(* Any count over the entries of a race is a natural number. *)
LEMMA CountIsNat ==
    ASSUME NEW r \in Races, NEW S \in SUBSET EntriesOf(r)
    PROVE  IsFiniteSet(S) /\ Cardinality(S) \in Nat
BY EntriesOfFinite, FS_Subset, FS_CardinalityType

-----------------------------------------------------------------------------
(* What each service leaves alone. *)

(* RacesService touches no registration, no result and no lock. *)
LEMMA RacesFrame == ASSUME RacesNext PROVE UnchangedByRaces
<1>1. ASSUME NEW q, NEW r, NEW c, NEW s, CreateRace(q, r, c, s) \/ UpdateRace(q, r, c, s)
      PROVE  UnchangedByRaces
  BY <1>1 DEF CreateRace, UpdateRace, RaceReadOnly
<1>2. ASSUME NEW q, NEW r, NEW target, UpdateStatus(q, r, target) \/ RemoveRace(q, r)
      PROVE  UnchangedByRaces
  BY <1>2 DEF UpdateStatus, RemoveRace, RaceReadOnly
<1>3. ASSUME NEW q, CountApproved(q) \/ CountResults(q) \/ CheckRegistrations(q)
      PROVE  UnchangedByRaces
  BY <1>3 DEF CountApproved, CountResults, CheckRegistrations, RaceReadOnly
<1>4. ASSUME NEW q, DeleteRace(q) \/ LoadRace(q) \/ WriteRace(q) \/ InsertRace(q)
      PROVE  UnchangedByRaces
  BY <1>4 DEF DeleteRace, LoadRace, WriteRace, InsertRace, RaceReadOnly
<1>5. ASSUME NEW q, AuditRace(q) \/ AbandonRaceRequest(q)
      PROVE  UnchangedByRaces
  BY <1>5 DEF AuditRace, AbandonRaceRequest, RaceReadOnly
<1> QED BY <1>1, <1>2, <1>3, <1>4, <1>5 DEF RacesNext, RaceStep

(* RegistrationsService touches no race and no result. *)
LEMMA RegistrationsFrame == ASSUME RegistrationsNext PROVE UnchangedByRegistrations
<1>1. ASSUME NEW q, NEW k, LockRaceForEntry(q, k) \/ RejectRegistration(q, k)
                           \/ CancelRegistration(q, k)
      PROVE  UnchangedByRegistrations
  BY <1>1 DEF LockRaceForEntry, RejectRegistration, CancelRegistration,
              RegistrationReadOnly
<1>2. ASSUME NEW q, NEW k, NEW position, LockRegistrationForApproval(q, k, position)
      PROVE  UnchangedByRegistrations
  BY <1>2 DEF LockRegistrationForApproval, RegistrationReadOnly
<1>3. ASSUME NEW q, ValidateEntry(q) \/ LockRaceForApproval(q) \/ CheckApproval(q)
                    \/ LoadRegistration(q)
      PROVE  UnchangedByRegistrations
  BY <1>3 DEF ValidateEntry, LockRaceForApproval, CheckApproval, LoadRegistration,
              RollbackRegistration, RegistrationReadOnly
<1>4. ASSUME NEW q, InsertEntry(q) \/ CommitApproval(q)
      PROVE  UnchangedByRegistrations
  BY <1>4 DEF InsertEntry, CommitApproval, CommitRegistration, RollbackRegistration,
              RegistrationReadOnly
<1>5. ASSUME NEW q, WriteRegistration(q) \/ AuditRegistration(q)
                    \/ AbandonRegistrationRequest(q)
      PROVE  UnchangedByRegistrations
  BY <1>5 DEF WriteRegistration, AuditRegistration, AbandonRegistrationRequest,
              RollbackRegistration, RegistrationReadOnly
<1> QED BY <1>1, <1>2, <1>3, <1>4, <1>5 DEF RegistrationsNext, RegistrationStep

(* ResultsService touches no race and no registration. *)
LEMMA ResultsFrame == ASSUME ResultsNext PROVE UnchangedByResults
<1>1. ASSUME NEW q, NEW k, NEW outcome, LockRaceForResult(q, k, outcome)
                                        \/ ReadResultForCorrection(q, k, outcome)
      PROVE  UnchangedByResults
  BY <1>1 DEF LockRaceForResult, ReadResultForCorrection, ResultReadOnly
<1>2. ASSUME NEW q, LockRaceForCorrection(q) \/ ValidateResult(q)
      PROVE  UnchangedByResults
  BY <1>2 DEF LockRaceForCorrection, ValidateResult, RollbackResult, ResultReadOnly
<1>3. ASSUME NEW q, CommitResult(q) \/ AbandonResultRequest(q)
      PROVE  UnchangedByResults
  BY <1>3 DEF CommitResult, AbandonResultRequest, RollbackResult, ResultReadOnly
<1> QED BY <1>1, <1>2, <1>3 DEF ResultsNext, ResultStep

-----------------------------------------------------------------------------
(* Types of the helpers. *)

(* A request that has begun is described by a record of RaceWork. *)
LEMMA RaceWorkType ==
    ASSUME RacesTypeOK, NEW q \in RaceRequests, ~RaceAt(q, "idle")
    PROVE  raceRequest[q] \in RaceWork
BY DEF RacesTypeOK, RaceAt, RaceIdle

(* Its parts; the entity is a row unless the row was to be deleted. *)
LEMMA RaceWorkParts ==
    ASSUME NEW work \in RaceWork
    PROVE  /\ work.id \in Races
           /\ work.entity \in RaceRow \cup {Deleted}
           /\ work.at \notin {"deleting", "auditing"} => work.entity \in RaceRow
           /\ work.approved \in Nat \cup {Unknown}
           /\ work.recorded \in Nat \cup {Unknown}
           /\ work.dirty \in SUBSET RaceColumns
BY DEF RaceWork, RaceWorkOn

(* A task that starts on a row is well typed. *)
LEMMA RaceTaskType ==
    ASSUME NEW step \in {"counting", "checking", "loading", "writing",
                         "inserting", "auditing"},
           NEW r \in Races, NEW entity \in RaceRow
    PROVE  RaceTask(step, r, entity) \in RaceWork
BY DEF RaceTask, RaceWork, RaceWorkOn, Unknown

(* So is one that deletes it. *)
LEMMA RaceDeletionType ==
    ASSUME NEW step \in {"deleting", "auditing"}, NEW r \in Races
    PROVE  RaceTask(step, r, Deleted) \in RaceWork
BY DEF RaceTask, RaceWork, RaceWorkOn, Unknown

(* save writes a row: each column is the entity's or the row's own. *)
LEMMA PatchedRaceType ==
    ASSUME NEW row \in RaceRow, NEW entity \in RaceRow, NEW dirty
    PROVE  PatchedRace(row, entity, dirty) \in RaceRow
BY DEF PatchedRace, RaceRow

(* A row that exists is a RaceRow. *)
LEMMA ExistingRace ==
    ASSUME StoreTypeOK, NEW r \in Races, RaceExists(r)
    PROVE  race[r] \in RaceRow
BY DEF StoreTypeOK, RaceExists, NeverCreated, Deleted, RaceStatus

(* Moving a request on keeps the request table well typed. *)
LEMMA RaceProceedType ==
    ASSUME RacesTypeOK, NEW q \in RaceRequests,
           NEW work \in RaceWork \cup {RaceIdle}, RaceProceed(q, work)
    PROVE  RacesTypeOK'
BY DEF RacesTypeOK, RaceProceed

(* A statement that only reads leaves the store well typed. *)
LEMMA RaceReadOnlyType ==
    ASSUME StoreTypeOK, RaceReadOnly
    PROVE  StoreTypeOK'
BY DEF StoreTypeOK, RaceReadOnly, UnchangedByRaces

(* A statement that writes a race, or its audit event, keeps the types. *)
LEMMA RaceWriteType ==
    ASSUME StoreTypeOK, UnchangedByRaces, NEW r \in Races,
           NEW row \in RaceRow \cup {Deleted}, race' = [race EXCEPT ![r] = row],
           UNCHANGED raceAudit
    PROVE  StoreTypeOK'
BY DEF StoreTypeOK, UnchangedByRaces

-----------------------------------------------------------------------------
(* Types: RacesService. *)

(* Beginning a race request keeps the types. *)
LEMMA RaceRequestsBeginTyped ==
    ASSUME StoreTypeOK, RacesTypeOK, NEW q \in RaceRequests, NEW r \in Races,
           \/ \E c \in Capacities, s \in Schedules :
                 CreateRace(q, r, c, s) \/ UpdateRace(q, r, c, s)
           \/ \E target \in RaceStatus : UpdateStatus(q, r, target)
           \/ RemoveRace(q, r)
    PROVE  StoreTypeOK' /\ RacesTypeOK'
<1>1. ASSUME NEW status \in RaceStatus, NEW c \in Capacities, NEW s \in Schedules
      PROVE  RaceRowOf(status, c, s) \in RaceRow
  BY StoreAssumption DEF StoreAssumption, RaceRowOf, RaceRow
<1>2. CASE \E c \in Capacities, s \in Schedules : CreateRace(q, r, c, s)
  <2>1. PICK c \in Capacities, s \in Schedules : CreateRace(q, r, c, s)
    BY <1>2
  <2>2. RaceRowOf("DRAFT", c, s) \in RaceRow
    BY <1>1 DEF RaceStatus
  <2>3. RaceTask("auditing", r, RaceRowOf("DRAFT", c, s)) \in RaceWork
    BY <2>2, RaceTaskType
  <2> QED BY <2>1, <2>2, <2>3, RaceWriteType, RaceProceedType DEF CreateRace
<1>3. CASE \E c \in Capacities, s \in Schedules : UpdateRace(q, r, c, s)
  <2>1. PICK c \in Capacities, s \in Schedules : UpdateRace(q, r, c, s)
    BY <1>3
  <2>2. RaceRowOf("DRAFT", c, s) \in RaceRow
    BY <1>1 DEF RaceStatus
  <2>3. RaceTask("loading", r, RaceRowOf("DRAFT", c, s)) \in RaceWork
    BY <2>2, RaceTaskType
  <2> QED BY <2>1, <2>3, RaceReadOnlyType, RaceProceedType DEF UpdateRace
<1>4. CASE \E target \in RaceStatus : UpdateStatus(q, r, target)
  <2>1. PICK target \in RaceStatus : UpdateStatus(q, r, target)
    BY <1>4
  <2>2. race[r] \in RaceRow
    BY <2>1, ExistingRace DEF UpdateStatus
  <2>3. [race[r] EXCEPT !.status = target] \in RaceRow
    BY <2>2 DEF RaceRow
  <2>4. \A step \in {"counting", "loading"} :
            RaceTask(step, r, [race[r] EXCEPT !.status = target]) \in RaceWork
    BY <2>3, RaceTaskType
  <2> QED BY <2>1, <2>4, RaceReadOnlyType, RaceProceedType DEF UpdateStatus
<1>5. CASE RemoveRace(q, r)
  <2>1. RaceTask("checking", r, race[r]) \in RaceWork
    BY <1>5, ExistingRace, RaceTaskType DEF RemoveRace
  <2> QED BY <1>5, <2>1, RaceReadOnlyType, RaceProceedType DEF RemoveRace
<1> QED BY <1>2, <1>3, <1>4, <1>5

(* The counts of updateStatus keep the types: what they store is a number, *)
(* because the entries of a race are finite.                               *)
LEMMA CountedType ==
    ASSUME RacesTypeOK, NEW q \in RaceRequests, NEW work \in RaceWork,
           work.at = "counting", Counted(q, work)
    PROVE  RacesTypeOK'
<1>1. work.id \in Races /\ work.entity \in RaceRow
  BY RaceWorkParts
<1>2. RaceTask("loading", work.id, work.entity) \in RaceWork
  BY <1>1, RaceTaskType
<1> QED BY <1>2, RaceProceedType DEF Counted, RaceFinish

(* Reading a count keeps the types. *)
LEMMA RaceCountsTyped ==
    ASSUME StoreTypeOK, RacesTypeOK, NEW q \in RaceRequests,
           CountApproved(q) \/ CountResults(q)
    PROVE  StoreTypeOK' /\ RacesTypeOK'
<1> DEFINE work == raceRequest[q]
<1>1. work \in RaceWork /\ work.at = "counting"
  BY RaceWorkType DEF CountApproved, CountResults, RaceAt
<1>2. work.id \in Races
  BY <1>1, RaceWorkParts
<1>3. /\ Cardinality(Approved(work.id)) \in Nat
      /\ Cardinality(Recorded(work.id)) \in Nat
  BY <1>2, CountIsNat DEF Approved, Recorded
<1>4. ASSUME NEW n \in Nat
      PROVE  /\ [work EXCEPT !.approved = n] \in RaceWork
             /\ [work EXCEPT !.recorded = n] \in RaceWork
             /\ [work EXCEPT !.approved = n].at = "counting"
             /\ [work EXCEPT !.recorded = n].at = "counting"
  BY <1>1 DEF RaceWork, RaceWorkOn
<1> HIDE DEF work
<1>5. CASE CountApproved(q)
  <2>1. RacesTypeOK'
    BY <1>3, <1>4, <1>5, CountedType DEF CountApproved, work
  <2> QED BY <1>5, <2>1, RaceReadOnlyType DEF CountApproved
<1>6. CASE CountResults(q)
  <2>1. RacesTypeOK'
    BY <1>3, <1>4, <1>6, CountedType DEF CountResults, work
  <2> QED BY <1>6, <2>1, RaceReadOnlyType DEF CountResults
<1> QED BY <1>5, <1>6

(* What remove decides from the race and its registrations. *)
LEMMA CheckRegistrationsTyped ==
    ASSUME StoreTypeOK, RacesTypeOK, NEW q \in RaceRequests, CheckRegistrations(q)
    PROVE  StoreTypeOK' /\ RacesTypeOK'
<1> DEFINE r == raceRequest[q].id
           entity == raceRequest[q].entity
           cancelled == [entity EXCEPT !.status = "CANCELLED"]
<1>1. r \in Races /\ entity \in RaceRow
  BY RaceWorkType, RaceWorkParts DEF CheckRegistrations, RaceAt
<1>2. cancelled \in RaceRow
  BY <1>1 DEF RaceRow, RaceStatus
<1>3. /\ RaceTask("loading", r, cancelled) \in RaceWork
      /\ RaceTask("deleting", r, Deleted) \in RaceWork
  <2> HIDE DEF r, entity, cancelled
  <2> QED BY <1>1, <1>2, RaceTaskType, RaceDeletionType
<1> QED BY <1>3, RaceProceedType, RaceReadOnlyType DEF CheckRegistrations, RaceFinish

(* The statements that write a race row: DELETE, UPDATE and INSERT. *)
LEMMA RaceWritesTyped ==
    ASSUME StoreTypeOK, RacesTypeOK, NEW q \in RaceRequests,
           DeleteRace(q) \/ WriteRace(q) \/ InsertRace(q)
    PROVE  StoreTypeOK' /\ RacesTypeOK'
<1> DEFINE work == raceRequest[q]
           r == work.id
           entity == work.entity
           row == PatchedRace(race[r], entity, work.dirty)
<1>1. work \in RaceWork /\ r \in Races
  BY RaceWorkType, RaceWorkParts DEF DeleteRace, WriteRace, InsertRace, RaceAt
<1>2. RaceTask("auditing", r, Deleted) \in RaceWork
  BY <1>1, RaceDeletionType
<1>3. ASSUME UNCHANGED <<race, raceAudit>>, UnchangedByRaces
      PROVE  StoreTypeOK'
  BY <1>3 DEF StoreTypeOK, UnchangedByRaces
<1>4. CASE DeleteRace(q)
  BY <1>1, <1>2, <1>3, <1>4, RaceProceedType, RaceWriteType DEF DeleteRace, RaceFinish
<1>5. CASE WriteRace(q)
  <2>1. entity \in RaceRow
    BY <1>1, <1>5, RaceWorkParts DEF WriteRace, RaceAt
  <2>2. RaceTask("auditing", r, entity) \in RaceWork
    BY <1>1, <2>1, RaceTaskType
  <2>3. RaceExists(r) => row \in RaceRow
    BY <1>1, <2>1, ExistingRace, PatchedRaceType
  <2>4. RacesTypeOK'
    BY <1>5, <2>2, RaceProceedType DEF WriteRace, RaceFinish
  <2>5. ASSUME UNCHANGED race
        PROVE  StoreTypeOK'
    BY <1>3, <1>5, <2>5 DEF WriteRace
  <2>6. ASSUME RaceExists(r), race' = [race EXCEPT ![r] = row]
        PROVE  StoreTypeOK'
    <3> HIDE DEF row
    <3> QED BY <1>1, <1>5, <2>3, <2>6, RaceWriteType DEF WriteRace
  <2> QED BY <1>5, <2>4, <2>5, <2>6 DEF WriteRace
<1>6. CASE InsertRace(q)
  <2>1. entity \in RaceRow
    BY <1>1, <1>6, RaceWorkParts DEF InsertRace, RaceAt
  <2>2. RaceTask("auditing", r, entity) \in RaceWork
    BY <1>1, <2>1, RaceTaskType
  <2> QED BY <1>1, <1>3, <1>6, <2>1, <2>2, RaceProceedType, RaceWriteType
          DEF InsertRace, RaceFinish
<1> QED BY <1>4, <1>5, <1>6

(* save's SELECT, and the audit event. *)
LEMMA LoadAndAuditRaceTyped ==
    ASSUME StoreTypeOK, RacesTypeOK, NEW q \in RaceRequests,
           LoadRace(q) \/ AuditRace(q)
    PROVE  StoreTypeOK' /\ RacesTypeOK'
<1> DEFINE work == raceRequest[q]
<1>1. work \in RaceWork
  BY RaceWorkType DEF LoadRace, AuditRace, RaceAt
<1>2. CASE LoadRace(q)
  <2>1. work.entity \in RaceRow
    BY <1>1, <1>2, RaceWorkParts DEF LoadRace, RaceAt
  <2>2. ASSUME NEW dirty \in SUBSET RaceColumns
        PROVE  /\ [work EXCEPT !.at = "writing", !.dirty = dirty] \in RaceWork
               /\ [work EXCEPT !.at = "inserting"] \in RaceWork
    BY <1>1, <2>1 DEF RaceWork, RaceWorkOn
  <2>3. DifferingRace(race[work.id], work.entity) \in SUBSET RaceColumns
    BY DEF DifferingRace
  <2> QED BY <1>2, <2>2, <2>3, RaceProceedType, RaceReadOnlyType DEF LoadRace
<1>3. CASE AuditRace(q)
  <2>1. RacesTypeOK'
    BY <1>3, RaceProceedType DEF AuditRace, RaceFinish
  <2>2. work.entity.status \in RaceStatus \cup {"DELETED"}
    BY <1>1, RaceWorkParts DEF RaceRow, Deleted
  <2>3. StoreTypeOK'
    BY <1>3, <2>2 DEF AuditRace, StoreTypeOK, UnchangedByRaces
  <2> QED BY <2>1, <2>3
<1> QED BY <1>2, <1>3

(* Every action of RacesService keeps the types. *)
LEMMA RacesKeepTypes ==
    ASSUME StoreTypeOK, RacesTypeOK, RacesNext
    PROVE  StoreTypeOK' /\ RacesTypeOK'
<1> PICK q \in RaceRequests :
        \/ \E r \in Races, c \in Capacities, s \in Schedules :
              CreateRace(q, r, c, s) \/ UpdateRace(q, r, c, s)
        \/ \E r \in Races, target \in RaceStatus : UpdateStatus(q, r, target)
        \/ \E r \in Races : RemoveRace(q, r)
        \/ RaceStep(q)
        \/ AbandonRaceRequest(q)
  BY DEF RacesNext
<1>1. CASE RaceStep(q)
  BY <1>1, RaceCountsTyped, CheckRegistrationsTyped, RaceWritesTyped,
     LoadAndAuditRaceTyped DEF RaceStep
<1>2. CASE AbandonRaceRequest(q)
  BY <1>2, RaceProceedType, RaceReadOnlyType DEF AbandonRaceRequest, RaceFinish
<1> QED BY <1>1, <1>2, RaceRequestsBeginTyped

-----------------------------------------------------------------------------
(* Types: RegistrationsService. *)

(* Types of the locks alone, which every transaction changes. *)
LocksTyped == /\ raceLock \in [Races -> Requests \cup {Free}]
              /\ registrationLock \in [Entries -> Requests \cup {Free}]

(* Commit and rollback keep the lock tables well typed. *)
LEMMA ReleaseType ==
    ASSUME LocksTyped, NEW q, Release(q)
    PROVE  LocksTyped'
BY DEF LocksTyped, Release, ReleasedRaces, ReleasedRegistrations

(* Taking a lock does too. *)
LEMMA AcquireType ==
    ASSUME LocksTyped, NEW q \in Requests,
           \/ /\ \E r \in Races : raceLock' = [raceLock EXCEPT ![r] = q]
              /\ UNCHANGED registrationLock
           \/ /\ \E k \in Entries :
                    registrationLock' = [registrationLock EXCEPT ![k] = q]
              /\ UNCHANGED raceLock
           \/ UNCHANGED <<raceLock, registrationLock>>
    PROVE  LocksTyped'
BY DEF LocksTyped

(* A registration request that has begun, and its parts. *)
LEMMA RegistrationWorkType ==
    ASSUME RegistrationsTypeOK, NEW q \in RegistrationRequests,
           ~RegistrationAt(q, "idle")
    PROVE  /\ registrationRequest[q] \in RegistrationWork
           /\ registrationRequest[q].id \in Entries
           /\ registrationRequest[q].id[1] \in Races
           /\ registrationRequest[q].entity \in RegistrationRow
<1>1. registrationRequest[q] \in RegistrationWork
  BY DEF RegistrationsTypeOK, RegistrationAt, RegistrationIdle
<1> QED BY <1>1 DEF RegistrationWork, Entries

(* A task that starts is well typed. *)
LEMMA RegistrationTaskType ==
    ASSUME NEW step \in {"validating", "entering", "lockingRace", "checking",
                         "approving", "loading", "writing", "auditing"},
           NEW k \in Entries, NEW entity \in RegistrationRow
    PROVE  RegistrationTask(step, k, entity) \in RegistrationWork
BY DEF RegistrationTask, RegistrationWork

(* Moving a request on keeps the request table well typed. *)
LEMMA RegistrationProceedType ==
    ASSUME RegistrationsTypeOK, NEW q \in RegistrationRequests,
           NEW work \in RegistrationWork \cup {RegistrationIdle},
           RegistrationProceed(q, work)
    PROVE  RegistrationsTypeOK'
BY DEF RegistrationsTypeOK, RegistrationProceed

(* save writes a row. *)
LEMMA PatchedRegistrationType ==
    ASSUME NEW row \in RegistrationRow, NEW entity \in RegistrationRow, NEW dirty
    PROVE  PatchedRegistration(row, entity, dirty) \in RegistrationRow
BY DEF PatchedRegistration, RegistrationRow

(* A statement that writes no registration keeps the store well typed. *)
LEMMA RegistrationReadOnlyType ==
    ASSUME StoreTypeOK, RegistrationReadOnly, LocksTyped'
    PROVE  StoreTypeOK'
BY DEF StoreTypeOK, RegistrationReadOnly, UnchangedByRegistrations, LocksTyped

(* A rollback keeps all types. *)
LEMMA RollbackRegistrationTyped ==
    ASSUME StoreTypeOK, RegistrationsTypeOK, NEW q \in RegistrationRequests,
           RollbackRegistration(q)
    PROVE  StoreTypeOK' /\ RegistrationsTypeOK'
<1>1. LocksTyped'
  BY ReleaseType DEF RollbackRegistration, StoreTypeOK, LocksTyped
<1> QED BY <1>1, RegistrationReadOnlyType, RegistrationProceedType
        DEF RollbackRegistration, RegistrationFinish

(* So does a commit of a row. *)
LEMMA CommitRegistrationTyped ==
    ASSUME StoreTypeOK, RegistrationsTypeOK, NEW q \in RegistrationRequests,
           NEW k \in Entries, NEW row \in RegistrationRow,
           CommitRegistration(q, k, row)
    PROVE  StoreTypeOK' /\ RegistrationsTypeOK'
<1>1. LocksTyped'
  BY ReleaseType DEF CommitRegistration, StoreTypeOK, LocksTyped
<1>2. RegistrationsTypeOK'
  BY RegistrationProceedType DEF CommitRegistration, RegistrationFinish
<1>3. row.status \in RegistrationStatus
  BY DEF RegistrationRow
<1> QED BY <1>1, <1>2, <1>3
        DEF CommitRegistration, StoreTypeOK, LocksTyped, UnchangedByRegistrations

(* Pending is a row, and Requests has the registration slots. *)
LEMMA PendingType == Pending \in RegistrationRow
BY DEF Pending, RegistrationRow, RegistrationStatus

(* A registration that exists is a RegistrationRow. *)
LEMMA ExistingRegistration ==
    ASSUME StoreTypeOK, NEW k \in Entries, registration[k].status # "NONE"
    PROVE  registration[k] \in RegistrationRow
BY DEF StoreTypeOK, NoRegistration

(* Beginning a registration request keeps the types. *)
LEMMA RegistrationRequestsBeginTyped ==
    ASSUME StoreTypeOK, RegistrationsTypeOK, NEW q \in RegistrationRequests,
           NEW k \in Entries,
           \/ LockRaceForEntry(q, k)
           \/ \E position \in Positions : LockRegistrationForApproval(q, k, position)
           \/ RejectRegistration(q, k)
           \/ CancelRegistration(q, k)
    PROVE  StoreTypeOK' /\ RegistrationsTypeOK'
<1>1. LocksTyped /\ q \in Requests /\ k[1] \in Races
  BY DEF StoreTypeOK, LocksTyped, Requests, Entries
<1>2. CASE LockRaceForEntry(q, k)
  <2>1. LocksTyped'
    BY <1>1, <1>2, AcquireType DEF LockRaceForEntry
  <2> QED BY <1>2, <2>1, PendingType, RegistrationTaskType, RegistrationProceedType,
             RegistrationReadOnlyType DEF LockRaceForEntry
<1>3. CASE \E position \in Positions : LockRegistrationForApproval(q, k, position)
  <2>1. PICK position \in Positions : LockRegistrationForApproval(q, k, position)
    BY <1>3
  <2>2. LocksTyped'
    BY <1>1, <2>1, AcquireType DEF LockRegistrationForApproval
  <2>3. [status |-> "APPROVED", startingPosition |-> position] \in RegistrationRow
    BY StoreAssumption DEF StoreAssumption, RegistrationRow, RegistrationStatus
  <2> QED BY <2>1, <2>2, <2>3, RegistrationTaskType, RegistrationProceedType,
             RegistrationReadOnlyType DEF LockRegistrationForApproval
<1>4. CASE RejectRegistration(q, k) \/ CancelRegistration(q, k)
  <2>1. registration[k] \in RegistrationRow
    BY <1>4, ExistingRegistration DEF RejectRegistration, CancelRegistration
  <2>2. \A s \in RegistrationStatus :
            [registration[k] EXCEPT !.status = s] \in RegistrationRow
    BY <2>1 DEF RegistrationRow
  <2>3. \A s \in {"REJECTED", "CANCELLED"} :
            RegistrationTask("loading", k, [registration[k] EXCEPT !.status = s])
              \in RegistrationWork
    BY <2>2, RegistrationTaskType DEF RegistrationStatus
  <2>4. LocksTyped'
    BY <1>1, <1>4, AcquireType DEF RejectRegistration, CancelRegistration, KeepLocks
  <2> QED BY <1>4, <2>3, <2>4, RegistrationProceedType, RegistrationReadOnlyType
          DEF RejectRegistration, CancelRegistration
<1> QED BY <1>2, <1>3, <1>4

(* The transactions of create and approve keep the types. *)
LEMMA RegistrationTransactionsTyped ==
    ASSUME StoreTypeOK, RegistrationsTypeOK, NEW q \in RegistrationRequests,
           \/ ValidateEntry(q) \/ InsertEntry(q)
           \/ LockRaceForApproval(q) \/ CheckApproval(q) \/ CommitApproval(q)
    PROVE  StoreTypeOK' /\ RegistrationsTypeOK'
<1> DEFINE work == registrationRequest[q]
<1>1. LocksTyped /\ q \in Requests
  BY DEF StoreTypeOK, LocksTyped, Requests
<1>2. /\ work \in RegistrationWork /\ work.id \in Entries /\ work.id[1] \in Races
      /\ work.entity \in RegistrationRow
  BY RegistrationWorkType
  DEF ValidateEntry, InsertEntry, LockRaceForApproval, CheckApproval, CommitApproval,
      RegistrationAt
<1>3. \A step \in {"entering", "checking", "approving"} :
          [work EXCEPT !.at = step] \in RegistrationWork
  BY <1>2 DEF RegistrationWork
<1>4. ASSUME NEW step \in {"entering", "checking", "approving"},
             RegistrationProceed(q, [work EXCEPT !.at = step]),
             RegistrationReadOnly, LocksTyped'
      PROVE  StoreTypeOK' /\ RegistrationsTypeOK'
  BY <1>3, <1>4, RegistrationProceedType, RegistrationReadOnlyType
<1>5. ASSUME KeepLocks
      PROVE  LocksTyped'
  BY <1>1, <1>5, AcquireType DEF KeepLocks
<1>6. CASE ValidateEntry(q)
  BY <1>4, <1>5, <1>6, RollbackRegistrationTyped DEF ValidateEntry
<1>7. CASE InsertEntry(q)
  BY <1>2, <1>7, PendingType, CommitRegistrationTyped, RollbackRegistrationTyped
  DEF InsertEntry
<1>8. CASE LockRaceForApproval(q)
  <2>1. ASSUME raceLock' = [raceLock EXCEPT ![work.id[1]] = q],
               UNCHANGED registrationLock
        PROVE  LocksTyped'
    BY <1>1, <1>2, <2>1, AcquireType
  <2> QED BY <1>4, <1>8, <2>1, RollbackRegistrationTyped DEF LockRaceForApproval
<1>9. CASE CheckApproval(q)
  BY <1>4, <1>5, <1>9, RollbackRegistrationTyped DEF CheckApproval
<1>10. CASE CommitApproval(q)
  BY <1>2, <1>10, CommitRegistrationTyped, RollbackRegistrationTyped DEF CommitApproval
<1> QED BY <1>6, <1>7, <1>8, <1>9, <1>10

(* So do the statements of a save by reject or cancel.  The row it writes    *)
(* must exist: a request never reads an entry that has no registration, and  *)
(* a registration is never removed.                                          *)
SavesExist ==
    \A q \in RegistrationRequests :
        \/ RegistrationAt(q, "lockingRace") \/ RegistrationAt(q, "checking")
        \/ RegistrationAt(q, "approving") \/ RegistrationAt(q, "loading")
        \/ RegistrationAt(q, "writing")
        => registration[registrationRequest[q].id].status # "NONE"

(* The saves of reject and cancel keep the types. *)
LEMMA RegistrationSavesTyped ==
    ASSUME StoreTypeOK, RegistrationsTypeOK, SavesExist,
           NEW q \in RegistrationRequests,
           LoadRegistration(q) \/ WriteRegistration(q) \/ AuditRegistration(q)
    PROVE  StoreTypeOK' /\ RegistrationsTypeOK'
<1> DEFINE work == registrationRequest[q]
           k == work.id
           row == PatchedRegistration(registration[k], work.entity, work.dirty)
<1>1. LocksTyped /\ (KeepLocks => LocksTyped')
  BY AcquireType DEF StoreTypeOK, LocksTyped, KeepLocks
<1>2. /\ work \in RegistrationWork /\ work.id \in Entries
      /\ work.entity \in RegistrationRow
  BY RegistrationWorkType
  DEF LoadRegistration, WriteRegistration, AuditRegistration, RegistrationAt
<1>3. CASE LoadRegistration(q)
  <2>1. DifferingRegistration(registration[k], work.entity) \in SUBSET RegistrationColumns
    BY DEF DifferingRegistration
  <2>2. \A dirty \in SUBSET RegistrationColumns :
            [work EXCEPT !.at = "writing", !.dirty = dirty] \in RegistrationWork
    BY <1>2 DEF RegistrationWork
  <2> QED BY <1>1, <1>3, <2>1, <2>2, RegistrationProceedType, RegistrationReadOnlyType
          DEF LoadRegistration
<1>4. CASE WriteRegistration(q)
  <2>1. row \in RegistrationRow
    BY <1>2, <1>4, ExistingRegistration, PatchedRegistrationType
    DEF WriteRegistration, SavesExist
  <2>2. RegistrationTask("auditing", k, work.entity) \in RegistrationWork
    BY <1>2, RegistrationTaskType
  <2>3. RegistrationsTypeOK'
    BY <1>4, <2>2, RegistrationProceedType DEF WriteRegistration, RegistrationFinish
  <2>4. registration' = [registration EXCEPT ![k] = row] \/ UNCHANGED registration
    BY <1>4 DEF WriteRegistration
  <2>5. registration' \in [Entries -> RegistrationRow \cup {NoRegistration}]
    <3> HIDE DEF row
    <3> QED BY <1>2, <2>1, <2>4 DEF StoreTypeOK
  <2> QED BY <1>4, <2>3, <2>5
          DEF WriteRegistration, StoreTypeOK, KeepLocks, UnchangedByRegistrations
<1>5. CASE AuditRegistration(q)
  <2>1. RegistrationsTypeOK'
    BY <1>5, RegistrationProceedType DEF AuditRegistration, RegistrationFinish
  <2>2. work.entity.status \in RegistrationStatus
    BY <1>2 DEF RegistrationRow
  <2> QED BY <1>5, <2>1, <2>2
          DEF AuditRegistration, StoreTypeOK, KeepLocks, UnchangedByRegistrations
<1> QED BY <1>3, <1>4, <1>5

(* Every action of RegistrationsService keeps the types ... *)
LEMMA RegistrationsKeepTypes ==
    ASSUME StoreTypeOK, RegistrationsTypeOK, SavesExist, RegistrationsNext
    PROVE  StoreTypeOK' /\ RegistrationsTypeOK'
<1> PICK q \in RegistrationRequests :
        \/ \E k \in Entries :
              \/ LockRaceForEntry(q, k)
              \/ \E position \in Positions : LockRegistrationForApproval(q, k, position)
              \/ RejectRegistration(q, k)
              \/ CancelRegistration(q, k)
        \/ RegistrationStep(q)
        \/ AbandonRegistrationRequest(q)
  BY DEF RegistrationsNext
<1>1. CASE RegistrationStep(q)
  BY <1>1, RegistrationTransactionsTyped, RegistrationSavesTyped DEF RegistrationStep
<1>2. CASE AbandonRegistrationRequest(q)
  BY <1>2, RollbackRegistrationTyped DEF AbandonRegistrationRequest
<1> QED BY <1>1, <1>2, RegistrationRequestsBeginTyped

(* ... and never lets a save run ahead of its row: registrations only grow.  *)
LEMMA RegistrationsNeverRemoved ==
    ASSUME StoreTypeOK, RegistrationsTypeOK, SavesExist, RegistrationsNext
    PROVE  \A k \in Entries :
               registration[k].status # "NONE" => registration'[k].status # "NONE"
<1> SUFFICES ASSUME NEW k \in Entries, registration[k].status # "NONE"
             PROVE  registration'[k].status # "NONE"
  OBVIOUS
<1>1. CASE UNCHANGED registration
  BY <1>1
<1>2. ASSUME NEW q \in RegistrationRequests, NEW j \in Entries,
             NEW row \in RegistrationRow, registration' = [registration EXCEPT ![j] = row]
      PROVE  registration'[k].status # "NONE"
  BY <1>2 DEF StoreTypeOK, RegistrationRow, RegistrationStatus
<1>3. ASSUME NEW q \in RegistrationRequests,
             InsertEntry(q) \/ CommitApproval(q) \/ WriteRegistration(q)
      PROVE  registration'[k].status # "NONE"
  <2> DEFINE work == registrationRequest[q]
  <2>1. work.id \in Entries /\ work.entity \in RegistrationRow
    BY <1>3, RegistrationWorkType
    DEF InsertEntry, CommitApproval, WriteRegistration, RegistrationAt
  <2>2. ASSUME WriteRegistration(q)
        PROVE  PatchedRegistration(registration[work.id], work.entity, work.dirty)
                 \in RegistrationRow
    BY <2>1, <2>2, ExistingRegistration, PatchedRegistrationType
    DEF WriteRegistration, SavesExist
  <2> QED BY <1>1, <1>2, <1>3, <2>1, <2>2, PendingType
          DEF InsertEntry, CommitApproval, WriteRegistration, CommitRegistration,
              RollbackRegistration, RegistrationReadOnly
<1>4. ASSUME NEW q \in RegistrationRequests, RegistrationStep(q)
      PROVE  registration'[k].status # "NONE"
  BY <1>1, <1>3, <1>4
  DEF RegistrationStep, ValidateEntry, LockRaceForApproval, CheckApproval,
      LoadRegistration, AuditRegistration, RollbackRegistration, RegistrationReadOnly
<1>5. ASSUME NEW q \in RegistrationRequests, NEW j \in Entries,
             \/ LockRaceForEntry(q, j)
             \/ \E position \in Positions : LockRegistrationForApproval(q, j, position)
             \/ RejectRegistration(q, j)
             \/ CancelRegistration(q, j)
      PROVE  UNCHANGED registration
  BY <1>5 DEF LockRaceForEntry, LockRegistrationForApproval, RejectRegistration,
              CancelRegistration, RegistrationReadOnly
<1>6. ASSUME NEW q \in RegistrationRequests, AbandonRegistrationRequest(q)
      PROVE  UNCHANGED registration
  BY <1>6 DEF AbandonRegistrationRequest, RollbackRegistration, RegistrationReadOnly
<1> QED BY <1>1, <1>4, <1>5, <1>6 DEF RegistrationsNext

(* The statements of approve, reject and cancel that SavesExist is about. *)
SavingSteps == {"lockingRace", "checking", "approving", "loading", "writing"}

(* A step of one request keeps SavesExist when the request goes on to another *)
(* kind of statement, or names a registration that exists.                    *)
LEMMA SavesExistStep ==
    ASSUME StoreTypeOK, RegistrationsTypeOK, SavesExist, RegistrationsNext,
           NEW q \in RegistrationRequests, NEW work, RegistrationProceed(q, work),
           work.at \in SavingSteps =>
               work.id \in Entries /\ registration[work.id].status # "NONE"
    PROVE  SavesExist'
<1> SUFFICES ASSUME NEW p \in RegistrationRequests,
                    registrationRequest'[p].at \in SavingSteps
             PROVE  registration'[registrationRequest'[p].id].status # "NONE"
  BY DEF SavesExist, SavingSteps, RegistrationAt
<1>1. CASE p = q
  <2>1. registrationRequest'[p] = work
    BY <1>1 DEF RegistrationProceed, RegistrationsTypeOK
  <2> QED BY <2>1, RegistrationsNeverRemoved
<1>2. CASE p # q
  <2>1. registrationRequest'[p] = registrationRequest[p]
    BY <1>2 DEF RegistrationProceed, RegistrationsTypeOK
  <2>2. registration[registrationRequest[p].id].status # "NONE"
    BY <2>1 DEF SavesExist, SavingSteps, RegistrationAt
  <2>3. registrationRequest[p].id \in Entries
    BY <2>1, RegistrationWorkType DEF RegistrationAt, SavingSteps
  <2> QED BY <2>1, <2>2, <2>3, RegistrationsNeverRemoved
<1> QED BY <1>1, <1>2

(* Every step keeps a registration to save for those who save one. *)
LEMMA SavesExistKept ==
    ASSUME StoreTypeOK, RegistrationsTypeOK, SavesExist, RegistrationsNext
    PROVE  SavesExist'
<1> PICK q \in RegistrationRequests :
        \/ \E k \in Entries :
              \/ LockRaceForEntry(q, k)
              \/ \E position \in Positions : LockRegistrationForApproval(q, k, position)
              \/ RejectRegistration(q, k)
              \/ CancelRegistration(q, k)
        \/ RegistrationStep(q)
        \/ AbandonRegistrationRequest(q)
  BY DEF RegistrationsNext
<1> DEFINE work == registrationRequest[q]
<1>1. ASSUME NEW step, NEW entity, NEW k \in Entries,
             step \in SavingSteps => registration[k].status # "NONE",
             RegistrationProceed(q, RegistrationTask(step, k, entity))
      PROVE  SavesExist'
  BY <1>1, SavesExistStep DEF RegistrationTask
<1>2. ASSUME RegistrationFinish(q)
      PROVE  SavesExist'
  BY <1>2, SavesExistStep DEF RegistrationFinish, RegistrationIdle, SavingSteps
<1>3. ASSUME NEW next, RegistrationProceed(q, next), next.id = work.id,
             work.at \in SavingSteps \/ next.at \notin SavingSteps
      PROVE  SavesExist'
  <2>1. work.at \in SavingSteps => work.id \in Entries /\ registration[work.id].status # "NONE"
    BY RegistrationWorkType DEF SavesExist, SavingSteps, RegistrationAt
  <2> QED BY <1>3, <2>1, SavesExistStep
<1>4. ASSUME NEW k \in Entries,
             \/ LockRaceForEntry(q, k)
             \/ \E position \in Positions : LockRegistrationForApproval(q, k, position)
             \/ RejectRegistration(q, k)
             \/ CancelRegistration(q, k)
      PROVE  SavesExist'
  BY <1>1, <1>4 DEF LockRaceForEntry, LockRegistrationForApproval, RejectRegistration,
                    CancelRegistration, SavingSteps
<1>5. CASE RegistrationStep(q)
  <2>1. CASE ValidateEntry(q)
    <3>1. work \in RegistrationWork
      BY <2>1, RegistrationWorkType DEF ValidateEntry, RegistrationAt
    <3>2. /\ [work EXCEPT !.at = "entering"].id = work.id
          /\ [work EXCEPT !.at = "entering"].at = "entering"
      BY <3>1 DEF RegistrationWork
    <3>3. "entering" \notin SavingSteps
      BY DEF SavingSteps
    <3> HIDE DEF work
    <3>4. ASSUME RegistrationProceed(q, [work EXCEPT !.at = "entering"])
          PROVE  SavesExist'
      BY <1>3, <3>2, <3>3, <3>4
    <3> QED BY <1>2, <2>1, <3>4 DEF ValidateEntry, RollbackRegistration, work
  <2>2. CASE LockRaceForApproval(q) \/ CheckApproval(q) \/ LoadRegistration(q)
    <3>1. work.at \in SavingSteps /\ work \in RegistrationWork
      BY <2>2, RegistrationWorkType
      DEF LockRaceForApproval, CheckApproval, LoadRegistration, RegistrationAt, SavingSteps
    <3>2. /\ \A step : [work EXCEPT !.at = step].id = work.id
          /\ \A dirty : [work EXCEPT !.at = "writing", !.dirty = dirty].id = work.id
      BY <3>1 DEF RegistrationWork
    <3> HIDE DEF work
    <3>3. /\ \A step : RegistrationProceed(q, [work EXCEPT !.at = step]) => SavesExist'
          /\ \A dirty : RegistrationProceed(q, [work EXCEPT !.at = "writing", !.dirty = dirty])
                          => SavesExist'
      BY <1>3, <3>1, <3>2
    <3> QED BY <1>2, <2>2, <3>3
            DEF LockRaceForApproval, CheckApproval, LoadRegistration, RollbackRegistration,
                work
  <2>3. CASE InsertEntry(q) \/ CommitApproval(q) \/ AuditRegistration(q)
    BY <1>2, <2>3 DEF InsertEntry, CommitApproval, AuditRegistration, CommitRegistration,
                      RollbackRegistration
  <2>4. CASE WriteRegistration(q)
    <3>1. work.id \in Entries
      BY <2>4, RegistrationWorkType DEF WriteRegistration, RegistrationAt
    <3> QED BY <1>1, <1>2, <2>4, <3>1 DEF WriteRegistration, SavingSteps
  <2> QED BY <1>5, <2>1, <2>2, <2>3, <2>4 DEF RegistrationStep
<1>6. CASE AbandonRegistrationRequest(q)
  BY <1>2, <1>6 DEF AbandonRegistrationRequest, RollbackRegistration
<1> QED BY <1>4, <1>5, <1>6

-----------------------------------------------------------------------------
(* Types: ResultsService. *)

(* What normalizeResult accepts is a row. *)
LEMMA OutcomesType == Outcomes \subseteq ResultRow
BY StoreAssumption DEF StoreAssumption, Outcomes, ResultRow, ResultStatus

(* A result request that has begun, and its parts. *)
LEMMA ResultWorkType ==
    ASSUME ResultsTypeOK, NEW q \in ResultRequests, ~ResultAt(q, "idle")
    PROVE  /\ resultRequest[q] \in ResultWork
           /\ resultRequest[q].id \in Entries
           /\ resultRequest[q].id[1] \in Races
           /\ resultRequest[q].existing \in ResultRow \cup {NoResult}
           /\ resultRequest[q].outcome \in ResultRow
<1>1. resultRequest[q] \in ResultWork
  BY DEF ResultsTypeOK, ResultAt, ResultIdle
<1> QED BY <1>1 DEF ResultWork, Entries

(* Moving a request on keeps the request table well typed. *)
LEMMA ResultProceedType ==
    ASSUME ResultsTypeOK, NEW q \in ResultRequests,
           NEW work \in ResultWork \cup {ResultIdle}, ResultProceed(q, work)
    PROVE  ResultsTypeOK'
BY DEF ResultsTypeOK, ResultProceed

(* A statement that only reads leaves the store well typed. *)
LEMMA ResultReadOnlyType ==
    ASSUME StoreTypeOK, ResultReadOnly, LocksTyped'
    PROVE  StoreTypeOK'
BY DEF StoreTypeOK, ResultReadOnly, UnchangedByResults, LocksTyped

(* So does a rollback. *)
LEMMA RollbackResultTyped ==
    ASSUME StoreTypeOK, ResultsTypeOK, NEW q \in ResultRequests, RollbackResult(q)
    PROVE  StoreTypeOK' /\ ResultsTypeOK'
<1>1. LocksTyped'
  BY ReleaseType DEF RollbackResult, StoreTypeOK, LocksTyped
<1> QED BY <1>1, ResultReadOnlyType, ResultProceedType DEF RollbackResult

(* Every action of ResultsService keeps the types. *)
LEMMA ResultsKeepTypes ==
    ASSUME StoreTypeOK, ResultsTypeOK, ResultsNext
    PROVE  StoreTypeOK' /\ ResultsTypeOK'
<1> PICK q \in ResultRequests :
        \/ \E k \in Entries, outcome \in Outcomes :
              \/ LockRaceForResult(q, k, outcome)
              \/ ReadResultForCorrection(q, k, outcome)
        \/ ResultStep(q)
        \/ AbandonResultRequest(q)
  BY DEF ResultsNext
<1> DEFINE work == resultRequest[q]
<1>1. LocksTyped /\ q \in Requests
  BY DEF StoreTypeOK, LocksTyped, Requests
<1>2. ASSUME NEW next \in ResultWork, ResultProceed(q, next), ResultReadOnly, LocksTyped'
      PROVE  StoreTypeOK' /\ ResultsTypeOK'
  BY <1>2, ResultProceedType, ResultReadOnlyType
<1>3. UNCHANGED <<raceLock, registrationLock>> => LocksTyped'
  BY <1>1, AcquireType
<1>4. ASSUME ~ResultAt(q, "idle"), NEW step \in {"validating", "saving"}
      PROVE  [work EXCEPT !.at = step] \in ResultWork
  BY <1>4, ResultWorkType DEF ResultWork
<1>5. ASSUME NEW k \in Entries, NEW outcome \in Outcomes, LockRaceForResult(q, k, outcome)
      PROVE  StoreTypeOK' /\ ResultsTypeOK'
  <2>1. [at |-> "validating", id |-> k, existing |-> NoResult, outcome |-> outcome]
          \in ResultWork
    BY OutcomesType DEF ResultWork
  <2>2. LocksTyped'
    <3>1. k[1] \in Races
      BY DEF Entries
    <3> QED BY <1>1, <1>5, <3>1, AcquireType DEF LockRaceForResult
  <2> QED BY <1>2, <1>5, <2>1, <2>2 DEF LockRaceForResult
<1>6. ASSUME NEW k \in Entries, NEW outcome \in Outcomes,
             ReadResultForCorrection(q, k, outcome)
      PROVE  StoreTypeOK' /\ ResultsTypeOK'
  <2>1. [at |-> "lockingRace", id |-> k, existing |-> result[k], outcome |-> outcome]
          \in ResultWork
    BY OutcomesType DEF ResultWork, StoreTypeOK
  <2> QED BY <1>2, <1>3, <1>6, <2>1 DEF ReadResultForCorrection
<1>7. CASE LockRaceForCorrection(q)
  <2>1. ~ResultAt(q, "idle") /\ work.id[1] \in Races
    BY <1>7, ResultWorkType DEF LockRaceForCorrection, ResultAt
  <2>2. /\ raceLock' = [raceLock EXCEPT ![work.id[1]] = q]
        /\ UNCHANGED registrationLock
        => LocksTyped'
    BY <1>1, <2>1, AcquireType
  <2> QED BY <1>2, <1>4, <1>7, <2>1, <2>2, RollbackResultTyped DEF LockRaceForCorrection
<1>8. CASE ValidateResult(q)
  <2>1. ~ResultAt(q, "idle")
    BY <1>8 DEF ValidateResult, ResultAt
  <2> QED BY <1>2, <1>3, <1>4, <1>8, <2>1, RollbackResultTyped DEF ValidateResult
<1>9. CASE CommitResult(q)
  <2>1. /\ work.id \in Entries /\ work.outcome \in ResultRow
        /\ work.existing \in ResultRow \cup {NoResult}
    BY <1>9, ResultWorkType DEF CommitResult, ResultAt
  <2>2. ASSUME result' = [result EXCEPT ![work.id] = work.outcome],
               resultAudit' = [resultAudit EXCEPT ![work.id] = work.existing],
               ResultProceed(q, ResultIdle), Release(q), UnchangedByResults
        PROVE  StoreTypeOK' /\ ResultsTypeOK'
    <3>1. ResultsTypeOK' /\ LocksTyped'
      BY <1>1, <2>2, ResultProceedType, ReleaseType
    <3> HIDE DEF work
    <3> QED BY <2>1, <2>2, <3>1 DEF StoreTypeOK, LocksTyped, UnchangedByResults
  <2> QED BY <1>9, <2>2, RollbackResultTyped DEF CommitResult
<1>10. CASE AbandonResultRequest(q)
  BY <1>10, RollbackResultTyped DEF AbandonResultRequest
<1> QED BY <1>5, <1>6, <1>7, <1>8, <1>9, <1>10 DEF ResultStep

-----------------------------------------------------------------------------
(* Type correctness of the system.  TypeOK alone is not inductive: a save of *)
(* a registration that does not exist would write an ill-typed row.          *)
TypeInv == TypeOK /\ SavesExist

(* The empty tables are well typed. *)
LEMMA TypeInvInit == Init => TypeInv
<1> SUFFICES ASSUME Init
             PROVE  TypeInv
  OBVIOUS
<1>1. StoreTypeOK
  BY StoreAssumption
  DEF Init, StoreInit, StoreTypeOK, StoreAssumption
<1>2. RacesTypeOK /\ RegistrationsTypeOK /\ ResultsTypeOK
  BY DEF Init, RacesInit, RacesTypeOK, RegistrationsInit, RegistrationsTypeOK,
         ResultsInit, ResultsTypeOK
<1>3. SavesExist
  BY DEF Init, RegistrationsInit, RegistrationIdle, SavesExist, RegistrationAt
<1> QED BY <1>1, <1>2, <1>3 DEF TypeInv, TypeOK

(* Every step keeps the types. *)
LEMMA TypeInvStep == TypeInv /\ [Next]_vars => TypeInv'
<1> SUFFICES ASSUME TypeInv, [Next]_vars
             PROVE  TypeInv'
  OBVIOUS
<1> USE DEF TypeInv, TypeOK
<1>1. CASE UNCHANGED <<registration, registrationRequest>> /\ StoreTypeOK'
           /\ RacesTypeOK' /\ ResultsTypeOK'
  BY <1>1 DEF RegistrationsTypeOK, SavesExist, RegistrationAt
<1>2. CASE Tick /\ UNCHANGED <<raceRequest, registrationRequest, resultRequest>>
  <2>1. StoreTypeOK'
    BY <1>2, StoreAssumption DEF Tick, StoreTypeOK, StoreAssumption
  <2> QED BY <1>1, <1>2, <2>1 DEF Tick, RacesTypeOK, ResultsTypeOK
<1>3. CASE RacesNext /\ UNCHANGED <<registrationRequest, resultRequest>>
  <2>1. UNCHANGED registration
    BY <1>3, RacesFrame DEF UnchangedByRaces
  <2> QED BY <1>1, <1>3, <2>1, RacesKeepTypes DEF ResultsTypeOK
<1>4. CASE RegistrationsNext /\ UNCHANGED <<raceRequest, resultRequest>>
  BY <1>4, RegistrationsKeepTypes, SavesExistKept DEF RacesTypeOK, ResultsTypeOK
<1>5. CASE ResultsNext /\ UNCHANGED <<raceRequest, registrationRequest>>
  <2>1. UNCHANGED registration
    BY <1>5, ResultsFrame DEF UnchangedByResults
  <2> QED BY <1>1, <1>5, <2>1, ResultsKeepTypes DEF RacesTypeOK
<1>6. CASE UNCHANGED vars
  BY <1>6 DEF vars, storeVars, StoreTypeOK, RacesTypeOK, RegistrationsTypeOK,
              ResultsTypeOK, SavesExist, RegistrationAt
<1> QED BY <1>2, <1>3, <1>4, <1>5, <1>6 DEF Next

(* Every variable keeps its type: in particular no save of a race that was   *)
(* deleted, or of a registration, ever writes a partial row.                 *)
THEOREM TypeCorrect == Spec => []TypeOK
<1>1. TypeInv => TypeOK
  BY DEF TypeInv
<1> QED BY <1>1, TypeInvInit, TypeInvStep, PTL DEF Spec

-----------------------------------------------------------------------------
(* Request q is in the part of its transaction that race r's lock protects. *)
ClaimsRace(q, r) ==
    \/ /\ q \in RegistrationRequests
       /\ registrationRequest[q].at \in {"validating", "entering", "checking", "approving"}
       /\ registrationRequest[q].id[1] = r
    \/ /\ q \in ResultRequests
       /\ resultRequest[q].at \in {"validating", "saving"}
       /\ resultRequest[q].id[1] = r

(* Request q is in the part that the lock of registration k protects. *)
ClaimsRegistration(q, k) ==
    /\ q \in RegistrationRequests
    /\ registrationRequest[q].at \in {"lockingRace", "checking", "approving"}
    /\ registrationRequest[q].id = k

LocksHeld ==
    \A q \in Requests :
        /\ \A r \in Races : ClaimsRace(q, r) => raceLock[r] = q
        /\ \A k \in Entries : ClaimsRegistration(q, k) => registrationLock[k] = q

-----------------------------------------------------------------------------
(* A step of request p takes no lock from another request. *)
LocksRespected(p) ==
    /\ \A r \in Races : raceLock[r] \notin {Free, p} => raceLock'[r] = raceLock[r]
    /\ \A k \in Entries :
          registrationLock[k] \notin {Free, p} => registrationLock'[k] = registrationLock[k]

(* The state of every other request stays. *)
OthersStay(p) ==
    /\ \A q \in RegistrationRequests \ {p} : registrationRequest'[q] = registrationRequest[q]
    /\ \A q \in ResultRequests \ {p} : resultRequest'[q] = resultRequest[q]

(* Such a step keeps LocksHeld when p itself holds what it now claims. *)
LEMMA LocksHeldStep ==
    ASSUME LocksHeld, NEW p \in Requests, LocksRespected(p), OthersStay(p),
           \A r \in Races : ClaimsRace(p, r)' => raceLock'[r] = p,
           \A k \in Entries : ClaimsRegistration(p, k)' => registrationLock'[k] = p
    PROVE  LocksHeld'
<1> SUFFICES ASSUME NEW q \in Requests, q # p
             PROVE  /\ \A r \in Races : ClaimsRace(q, r)' => raceLock'[r] = q
                    /\ \A k \in Entries :
                          ClaimsRegistration(q, k)' => registrationLock'[k] = q
  BY DEF LocksHeld
<1>1. q # Free
  BY StoreAssumption DEF StoreAssumption
<1>2. ASSUME NEW r \in Races, ClaimsRace(q, r)'
      PROVE  raceLock'[r] = q
  <2>1. ClaimsRace(q, r)
    BY <1>2 DEF ClaimsRace, OthersStay
  <2> QED BY <1>1, <2>1 DEF LocksHeld, LocksRespected
<1>3. ASSUME NEW k \in Entries, ClaimsRegistration(q, k)'
      PROVE  registrationLock'[k] = q
  <2>1. ClaimsRegistration(q, k)
    BY <1>3 DEF ClaimsRegistration, OthersStay
  <2> QED BY <1>1, <2>1 DEF LocksHeld, LocksRespected
<1> QED BY <1>2, <1>3

(* Ending a transaction frees its own locks and no other's. *)
LEMMA ReleaseRespects ==
    ASSUME NEW p, Release(p) PROVE LocksRespected(p)
BY DEF Release, ReleasedRaces, ReleasedRegistrations, LocksRespected

(* Taking a lock that is free takes it from nobody. *)
LEMMA AcquireRespects ==
    ASSUME LocksTyped, NEW p,
           \/ /\ \E r \in Races : RaceUnlocked(r) /\ raceLock' = [raceLock EXCEPT ![r] = p]
              /\ UNCHANGED registrationLock
           \/ /\ \E k \in Entries :
                    /\ RegistrationUnlocked(k)
                    /\ registrationLock' = [registrationLock EXCEPT ![k] = p]
              /\ UNCHANGED raceLock
           \/ UNCHANGED <<raceLock, registrationLock>>
    PROVE  LocksRespected(p)
BY DEF LocksTyped, LocksRespected, RaceUnlocked, RegistrationUnlocked

-----------------------------------------------------------------------------
(* Steps of RegistrationsService. *)

(* One request moves; the others, and the results service, stay. *)
LEMMA RegistrationOthersStay ==
    ASSUME RegistrationsTypeOK, NEW p \in RegistrationRequests, NEW work,
           RegistrationProceed(p, work), UNCHANGED resultRequest
    PROVE  OthersStay(p) /\ registrationRequest'[p] = work
BY DEF RegistrationsTypeOK, RegistrationProceed, OthersStay

(* A request that ends its transaction claims nothing any more. *)
LEMMA RegistrationEnds ==
    ASSUME TypeInv, LocksHeld, NEW p \in RegistrationRequests,
           RegistrationFinish(p), LocksRespected(p), UNCHANGED resultRequest
    PROVE  LocksHeld'
<1>1. OthersStay(p) /\ registrationRequest'[p] = RegistrationIdle
  BY RegistrationOthersStay DEF TypeInv, TypeOK, RegistrationFinish
<1>2. p \in Requests /\ p \notin ResultRequests
  BY StoreAssumption DEF StoreAssumption, Requests
<1>3. /\ \A r \in Races : ~ClaimsRace(p, r)'
      /\ \A k \in Entries : ~ClaimsRegistration(p, k)'
  BY <1>1, <1>2 DEF ClaimsRace, ClaimsRegistration, RegistrationIdle
<1> QED BY <1>1, <1>2, <1>3, LocksHeldStep

(* A request that goes on holds the locks its next statement needs. *)
LEMMA RegistrationGoesOn ==
    ASSUME TypeInv, LocksHeld, NEW p \in RegistrationRequests, NEW work,
           RegistrationProceed(p, work), LocksRespected(p), UNCHANGED resultRequest,
           work.id \in Entries,
           work.at \in {"validating", "entering", "checking", "approving"}
             => raceLock'[work.id[1]] = p,
           work.at \in {"lockingRace", "checking", "approving"}
             => registrationLock'[work.id] = p
    PROVE  LocksHeld'
<1>1. OthersStay(p) /\ registrationRequest'[p] = work
  BY RegistrationOthersStay DEF TypeInv, TypeOK
<1>2. p \in Requests /\ p \notin ResultRequests
  BY StoreAssumption DEF StoreAssumption, Requests
<1>3. /\ \A r \in Races : ClaimsRace(p, r)' => raceLock'[r] = p
      /\ \A k \in Entries : ClaimsRegistration(p, k)' => registrationLock'[k] = p
  BY <1>1, <1>2 DEF ClaimsRace, ClaimsRegistration
<1> QED BY <1>1, <1>2, <1>3, LocksHeldStep

(* Rollback, and commit, end a transaction. *)
LEMMA RegistrationTransactionEnds ==
    ASSUME TypeInv, LocksHeld, NEW p \in RegistrationRequests, UNCHANGED resultRequest,
           RollbackRegistration(p) \/ \E k, row : CommitRegistration(p, k, row)
    PROVE  LocksHeld'
BY RegistrationEnds, ReleaseRespects DEF RollbackRegistration, CommitRegistration

(* The first statement of a request takes the lock it then claims. *)
LEMMA RegistrationBeginKeepsLocks ==
    ASSUME TypeInv, LocksHeld, NEW p \in RegistrationRequests, NEW k \in Entries,
           UNCHANGED resultRequest,
           \/ LockRaceForEntry(p, k)
           \/ \E position \in Positions : LockRegistrationForApproval(p, k, position)
           \/ RejectRegistration(p, k)
           \/ CancelRegistration(p, k)
    PROVE  LocksHeld'
<1>1. LocksTyped /\ k[1] \in Races
  BY DEF TypeInv, TypeOK, StoreTypeOK, LocksTyped, Entries
<1>2. CASE LockRaceForEntry(p, k)
  <2>1. LocksRespected(p) /\ raceLock'[k[1]] = p
    BY <1>1, <1>2, AcquireRespects DEF LockRaceForEntry, LocksTyped
  <2> QED BY <1>2, <2>1, RegistrationGoesOn DEF LockRaceForEntry, RegistrationTask
<1>3. CASE \E position \in Positions : LockRegistrationForApproval(p, k, position)
  <2>1. PICK position \in Positions : LockRegistrationForApproval(p, k, position)
    BY <1>3
  <2>2. LocksRespected(p) /\ registrationLock'[k] = p
    BY <1>1, <2>1, AcquireRespects DEF LockRegistrationForApproval, LocksTyped
  <2> QED BY <2>1, <2>2, RegistrationGoesOn
          DEF LockRegistrationForApproval, RegistrationTask
<1>4. CASE RejectRegistration(p, k) \/ CancelRegistration(p, k)
  <2>1. LocksRespected(p)
    BY <1>1, <1>4, AcquireRespects DEF RejectRegistration, CancelRegistration, KeepLocks
  <2> QED BY <1>4, <2>1, RegistrationGoesOn
          DEF RejectRegistration, CancelRegistration, RegistrationTask
<1> QED BY <1>2, <1>3, <1>4

(* Each further statement keeps or ends the claim. *)
LEMMA RegistrationStepKeepsLocks ==
    ASSUME TypeInv, LocksHeld, NEW p \in RegistrationRequests, UNCHANGED resultRequest,
           RegistrationStep(p)
    PROVE  LocksHeld'
<1> DEFINE work == registrationRequest[p]
<1>1. LocksTyped /\ p \in Requests
  BY DEF TypeInv, TypeOK, StoreTypeOK, LocksTyped, Requests
<1>2. work \in RegistrationWork /\ work.id \in Entries /\ work.id[1] \in Races
  BY RegistrationWorkType
  DEF RegistrationStep, ValidateEntry, InsertEntry, LockRaceForApproval, CheckApproval,
      CommitApproval, LoadRegistration, WriteRegistration, AuditRegistration,
      RegistrationAt, TypeInv, TypeOK
<1>3. \A step : /\ [work EXCEPT !.at = step].id = work.id
                /\ [work EXCEPT !.at = step].at = step
  BY <1>2 DEF RegistrationWork
<1>4. KeepLocks => LocksRespected(p)
  BY <1>1, AcquireRespects DEF KeepLocks
<1>5. /\ work.at \in {"validating", "entering", "checking", "approving"}
           => raceLock[work.id[1]] = p
      /\ work.at \in {"lockingRace", "checking", "approving"}
           => registrationLock[work.id] = p
  BY <1>1, <1>2 DEF LocksHeld, ClaimsRace, ClaimsRegistration
<1>6. ASSUME NEW step, RegistrationProceed(p, [work EXCEPT !.at = step]),
             LocksRespected(p),
             step \in {"validating", "entering", "checking", "approving"}
               => raceLock'[work.id[1]] = p,
             step \in {"lockingRace", "checking", "approving"}
               => registrationLock'[work.id] = p
      PROVE  LocksHeld'
  <2> HIDE DEF work
  <2> QED BY <1>2, <1>3, <1>6, RegistrationGoesOn
<1>7. CASE ValidateEntry(p)
  BY <1>4, <1>5, <1>6, <1>7, RegistrationTransactionEnds
  DEF ValidateEntry, KeepLocks, RegistrationAt
<1>8. CASE InsertEntry(p) \/ CommitApproval(p)
  BY <1>8, RegistrationTransactionEnds DEF InsertEntry, CommitApproval
<1>9. CASE LockRaceForApproval(p)
  <2>1. ASSUME RaceUnlocked(work.id[1]), UNCHANGED registrationLock,
               raceLock' = [raceLock EXCEPT ![work.id[1]] = p]
        PROVE  LocksRespected(p) /\ raceLock'[work.id[1]] = p
    BY <1>1, <1>2, <2>1, AcquireRespects DEF LocksTyped
  <2> QED BY <1>5, <1>6, <1>9, <2>1, RegistrationTransactionEnds
          DEF LockRaceForApproval, RegistrationAt
<1>10. CASE CheckApproval(p)
  BY <1>4, <1>5, <1>6, <1>10, RegistrationTransactionEnds
  DEF CheckApproval, KeepLocks, RegistrationAt
<1>11. CASE LoadRegistration(p)
  <2>1. \A dirty : /\ [work EXCEPT !.at = "writing", !.dirty = dirty].id = work.id
                   /\ [work EXCEPT !.at = "writing", !.dirty = dirty].at = "writing"
    BY <1>2 DEF RegistrationWork
  <2> QED BY <1>2, <1>4, <1>11, <2>1, RegistrationGoesOn DEF LoadRegistration
<1>12. CASE WriteRegistration(p)
  BY <1>2, <1>4, <1>12, RegistrationGoesOn, RegistrationEnds
  DEF WriteRegistration, RegistrationTask
<1>13. CASE AuditRegistration(p)
  BY <1>4, <1>13, RegistrationEnds DEF AuditRegistration
<1> QED BY <1>7, <1>8, <1>9, <1>10, <1>11, <1>12, <1>13 DEF RegistrationStep

(* So every step of RegistrationsService keeps the claims. *)
LEMMA RegistrationsKeepLocks ==
    ASSUME TypeInv, LocksHeld, RegistrationsNext, UNCHANGED resultRequest
    PROVE  LocksHeld'
<1>1. ASSUME NEW p \in RegistrationRequests, AbandonRegistrationRequest(p)
      PROVE  LocksHeld'
  BY <1>1, RegistrationTransactionEnds DEF AbandonRegistrationRequest
<1> QED BY <1>1, RegistrationBeginKeepsLocks, RegistrationStepKeepsLocks
        DEF RegistrationsNext

-----------------------------------------------------------------------------
(* Steps of ResultsService. *)

(* One request moves; the others, and the registrations service, stay. *)
LEMMA ResultOthersStay ==
    ASSUME ResultsTypeOK, NEW p \in ResultRequests, NEW work,
           ResultProceed(p, work), UNCHANGED registrationRequest
    PROVE  OthersStay(p) /\ resultRequest'[p] = work
BY DEF ResultsTypeOK, ResultProceed, OthersStay

(* A request that goes on holds the race lock its next statement needs. *)
LEMMA ResultGoesOn ==
    ASSUME TypeInv, LocksHeld, NEW p \in ResultRequests, NEW work,
           ResultProceed(p, work), LocksRespected(p), UNCHANGED registrationRequest,
           work.at \in {"validating", "saving"} => raceLock'[work.id[1]] = p
    PROVE  LocksHeld'
<1>1. OthersStay(p) /\ resultRequest'[p] = work
  BY ResultOthersStay DEF TypeInv, TypeOK
<1>2. p \in Requests /\ p \notin RegistrationRequests
  BY StoreAssumption DEF StoreAssumption, Requests
<1>3. /\ \A r \in Races : ClaimsRace(p, r)' => raceLock'[r] = p
      /\ \A k \in Entries : ~ClaimsRegistration(p, k)'
  BY <1>1, <1>2 DEF ClaimsRace, ClaimsRegistration
<1> QED BY <1>1, <1>2, <1>3, LocksHeldStep

(* Rollback ends a transaction. *)
LEMMA RollbackResultKeepsLocks ==
    ASSUME TypeInv, LocksHeld, NEW p \in ResultRequests, UNCHANGED registrationRequest,
           ResultProceed(p, ResultIdle), Release(p)
    PROVE  LocksHeld'
BY ReleaseRespects, ResultGoesOn DEF ResultIdle

(* Every step of ResultsService keeps the claims. *)
LEMMA ResultsKeepLocks ==
    ASSUME TypeInv, LocksHeld, ResultsNext, UNCHANGED registrationRequest
    PROVE  LocksHeld'
<1>1. LocksTyped
  BY DEF TypeInv, TypeOK, StoreTypeOK, LocksTyped
<1>2. \A p : UNCHANGED <<raceLock, registrationLock>> => LocksRespected(p)
  BY <1>1, AcquireRespects
<1>3. ASSUME NEW p \in ResultRequests, NEW k \in Entries, NEW outcome \in Outcomes,
             LockRaceForResult(p, k, outcome)
      PROVE  LocksHeld'
  <2>1. k[1] \in Races
    BY DEF Entries
  <2>2. LocksRespected(p) /\ raceLock'[k[1]] = p
    BY <1>1, <1>3, <2>1, AcquireRespects DEF LockRaceForResult, LocksTyped
  <2> QED BY <1>3, <2>2, ResultGoesOn DEF LockRaceForResult
<1>4. ASSUME NEW p \in ResultRequests, NEW k \in Entries, NEW outcome \in Outcomes,
             ReadResultForCorrection(p, k, outcome)
      PROVE  LocksHeld'
  BY <1>2, <1>4, ResultGoesOn DEF ReadResultForCorrection
<1>5. ASSUME NEW p \in ResultRequests, ResultStep(p)
      PROVE  LocksHeld'
  <2> DEFINE work == resultRequest[p]
  <2>1. work \in ResultWork /\ work.id[1] \in Races /\ p \in Requests
    BY <1>5, ResultWorkType
    DEF ResultStep, LockRaceForCorrection, ValidateResult, CommitResult, ResultAt,
        TypeInv, TypeOK, Requests
  <2>2. \A step : /\ [work EXCEPT !.at = step].id = work.id
                  /\ [work EXCEPT !.at = step].at = step
    BY <2>1 DEF ResultWork
  <2>3. CASE LockRaceForCorrection(p)
    <3>1. ASSUME RaceUnlocked(work.id[1]), UNCHANGED registrationLock,
                 raceLock' = [raceLock EXCEPT ![work.id[1]] = p]
          PROVE  LocksRespected(p) /\ raceLock'[work.id[1]] = p
      BY <1>1, <2>1, <3>1, AcquireRespects DEF LocksTyped
    <3> QED BY <2>2, <2>3, <3>1, ResultGoesOn, RollbackResultKeepsLocks
            DEF LockRaceForCorrection, RollbackResult
  <2>4. CASE ValidateResult(p)
    <3>1. raceLock[work.id[1]] = p
      BY <2>1, <2>4 DEF ValidateResult, ResultAt, LocksHeld, ClaimsRace
    <3> QED BY <1>2, <2>2, <2>4, <3>1, ResultGoesOn, RollbackResultKeepsLocks
            DEF ValidateResult, RollbackResult
  <2>5. CASE CommitResult(p)
    BY <2>5, RollbackResultKeepsLocks DEF CommitResult, RollbackResult
  <2> QED BY <1>5, <2>3, <2>4, <2>5 DEF ResultStep
<1>6. ASSUME NEW p \in ResultRequests, AbandonResultRequest(p)
      PROVE  LocksHeld'
  BY <1>6, RollbackResultKeepsLocks DEF AbandonResultRequest, RollbackResult
<1> QED BY <1>3, <1>4, <1>5, <1>6 DEF ResultsNext

-----------------------------------------------------------------------------
(* The system. *)

LockInv == TypeInv /\ LocksHeld

(* Nobody claims a lock yet. *)
LEMMA LockInvInit == Init => LockInv
<1> SUFFICES ASSUME Init PROVE LocksHeld
  BY TypeInvInit DEF LockInv
<1> QED BY DEF Init, RegistrationsInit, RegistrationIdle, ResultsInit, ResultIdle,
               LocksHeld, ClaimsRace, ClaimsRegistration

(* RacesService and the clock take and free no lock. *)
LEMMA LockInvStep == LockInv /\ [Next]_vars => LockInv'
<1> SUFFICES ASSUME LockInv, [Next]_vars PROVE LocksHeld'
  BY TypeInvStep DEF LockInv
<1>1. ASSUME UNCHANGED <<registrationRequest, resultRequest, raceLock, registrationLock>>
      PROVE  LocksHeld'
  BY <1>1 DEF LockInv, LocksHeld, ClaimsRace, ClaimsRegistration
<1>2. CASE Tick /\ UNCHANGED <<raceRequest, registrationRequest, resultRequest>>
  BY <1>1, <1>2 DEF Tick
<1>3. CASE RacesNext /\ UNCHANGED <<registrationRequest, resultRequest>>
  BY <1>1, <1>3, RacesFrame DEF UnchangedByRaces
<1>4. CASE RegistrationsNext /\ UNCHANGED <<raceRequest, resultRequest>>
  BY <1>4, RegistrationsKeepLocks DEF LockInv
<1>5. CASE ResultsNext /\ UNCHANGED <<raceRequest, registrationRequest>>
  BY <1>5, ResultsKeepLocks DEF LockInv
<1>6. CASE UNCHANGED vars
  BY <1>1, <1>6 DEF vars, storeVars
<1> QED BY <1>2, <1>3, <1>4, <1>5, <1>6 DEF Next

(* A request holds the row locks of the part of its transaction it is in,    *)
(* through every failure and interleaving.                                   *)
THEOREM LocksAlwaysHeld == Spec => []LocksHeld
<1>1. LockInv => LocksHeld
  BY DEF LockInv
<1> QED BY <1>1, LockInvInit, LockInvStep, PTL DEF Spec

-----------------------------------------------------------------------------
(* The converse: a lock that is held is in use, by the request that holds it. *)
LocksInUse ==
    \A q \in Requests :
        /\ \A r \in Races : raceLock[r] = q => ClaimsRace(q, r)
        /\ \A k \in Entries : registrationLock[k] = q => ClaimsRegistration(q, k)

(* A step of request p gives a lock to nobody but p. *)
GivesNobodyElse(p) ==
    /\ \A r \in Races : raceLock'[r] \notin {Free, p} => raceLock'[r] = raceLock[r]
    /\ \A k \in Entries :
          registrationLock'[k] \notin {Free, p} => registrationLock'[k] = registrationLock[k]

(* Such a step keeps LocksInUse when p claims what it then holds. *)
LEMMA LocksInUseStep ==
    ASSUME LocksInUse, NEW p, GivesNobodyElse(p), OthersStay(p),
           \A r \in Races : raceLock'[r] = p => ClaimsRace(p, r)',
           \A k \in Entries : registrationLock'[k] = p => ClaimsRegistration(p, k)'
    PROVE  LocksInUse'
<1> SUFFICES ASSUME NEW q \in Requests, q # p
             PROVE  /\ \A r \in Races : raceLock'[r] = q => ClaimsRace(q, r)'
                    /\ \A k \in Entries :
                          registrationLock'[k] = q => ClaimsRegistration(q, k)'
  BY DEF LocksInUse
<1>1. q # Free
  BY StoreAssumption DEF StoreAssumption
<1>2. ASSUME NEW r \in Races, raceLock'[r] = q
      PROVE  ClaimsRace(q, r)'
  <2>1. ClaimsRace(q, r)
    BY <1>1, <1>2 DEF LocksInUse, GivesNobodyElse
  <2> QED BY <2>1 DEF ClaimsRace, OthersStay
<1>3. ASSUME NEW k \in Entries, registrationLock'[k] = q
      PROVE  ClaimsRegistration(q, k)'
  <2>1. ClaimsRegistration(q, k)
    BY <1>1, <1>3 DEF LocksInUse, GivesNobodyElse
  <2> QED BY <2>1 DEF ClaimsRegistration, OthersStay
<1> QED BY <1>2, <1>3

(* Ending a transaction leaves its request no lock. *)
LEMMA ReleaseLeavesNone ==
    ASSUME LocksTyped, NEW p \in Requests, Release(p)
    PROVE  /\ GivesNobodyElse(p)
           /\ \A r \in Races : raceLock'[r] # p
           /\ \A k \in Entries : registrationLock'[k] # p
<1>1. p # Free
  BY StoreAssumption DEF StoreAssumption
<1> QED BY <1>1 DEF Release, ReleasedRaces, ReleasedRegistrations, GivesNobodyElse

(* A step of a registration request keeps LocksInUse when the request claims *)
(* every lock it then holds.                                                 *)
LEMMA RegistrationUsesLocks ==
    ASSUME TypeInv, LocksInUse, NEW p \in RegistrationRequests, NEW work,
           RegistrationProceed(p, work), GivesNobodyElse(p), UNCHANGED resultRequest,
           \A r \in Races : raceLock'[r] = p
             => /\ work.at \in {"validating", "entering", "checking", "approving"}
                /\ work.id[1] = r,
           \A k \in Entries : registrationLock'[k] = p
             => /\ work.at \in {"lockingRace", "checking", "approving"}
                /\ work.id = k
    PROVE  LocksInUse'
<1>1. OthersStay(p) /\ registrationRequest'[p] = work
  BY RegistrationOthersStay DEF TypeInv, TypeOK
<1>2. /\ \A r \in Races : raceLock'[r] = p => ClaimsRace(p, r)'
      /\ \A k \in Entries : registrationLock'[k] = p => ClaimsRegistration(p, k)'
  BY <1>1 DEF ClaimsRace, ClaimsRegistration
<1> QED BY <1>1, <1>2, LocksInUseStep

(* What a registration request holds, it claims. *)
LEMMA RegistrationHolds ==
    ASSUME LocksInUse, NEW p \in RegistrationRequests
    PROVE  /\ \A r \in Races : raceLock[r] = p
                => /\ registrationRequest[p].at
                        \in {"validating", "entering", "checking", "approving"}
                   /\ registrationRequest[p].id[1] = r
           /\ \A k \in Entries : registrationLock[k] = p
                => /\ registrationRequest[p].at \in {"lockingRace", "checking", "approving"}
                   /\ registrationRequest[p].id = k
<1>1. p \in Requests /\ p \notin ResultRequests
  BY StoreAssumption DEF StoreAssumption, Requests
<1> QED BY <1>1 DEF LocksInUse, ClaimsRace, ClaimsRegistration

(* Rollback, and commit, leave nothing in use. *)
LEMMA RegistrationEndsUse ==
    ASSUME TypeInv, LocksInUse, NEW p \in RegistrationRequests, UNCHANGED resultRequest,
           RollbackRegistration(p) \/ \E k, row : CommitRegistration(p, k, row)
    PROVE  LocksInUse'
<1>1. LocksTyped /\ p \in Requests
  BY DEF TypeInv, TypeOK, StoreTypeOK, LocksTyped, Requests
<1>2. Release(p) /\ RegistrationProceed(p, RegistrationIdle)
  BY DEF RollbackRegistration, CommitRegistration, RegistrationFinish
<1> QED BY <1>1, <1>2, ReleaseLeavesNone, RegistrationUsesLocks

(* The first statement of a request uses the lock it takes. *)
LEMMA RegistrationBeginUsesLocks ==
    ASSUME TypeInv, LocksInUse, NEW p \in RegistrationRequests, NEW k \in Entries,
           UNCHANGED resultRequest,
           \/ LockRaceForEntry(p, k)
           \/ \E position \in Positions : LockRegistrationForApproval(p, k, position)
           \/ RejectRegistration(p, k)
           \/ CancelRegistration(p, k)
    PROVE  LocksInUse'
<1>1. LocksTyped /\ k[1] \in Races /\ RegistrationAt(p, "idle")
  BY DEF TypeInv, TypeOK, StoreTypeOK, LocksTyped, Entries, LockRaceForEntry,
         LockRegistrationForApproval, RejectRegistration, CancelRegistration
<1>2. /\ \A r \in Races : raceLock[r] # p
      /\ \A j \in Entries : registrationLock[j] # p
  BY <1>1, RegistrationHolds DEF RegistrationAt
<1>3. CASE LockRaceForEntry(p, k)
  <2>1. /\ GivesNobodyElse(p)
        /\ \A r \in Races : raceLock'[r] = p => r = k[1]
        /\ \A j \in Entries : registrationLock'[j] # p
    BY <1>1, <1>2, <1>3 DEF LockRaceForEntry, LocksTyped, GivesNobodyElse
  <2> QED BY <1>3, <2>1, RegistrationUsesLocks DEF LockRaceForEntry, RegistrationTask
<1>4. CASE \E position \in Positions : LockRegistrationForApproval(p, k, position)
  <2>1. PICK position \in Positions : LockRegistrationForApproval(p, k, position)
    BY <1>4
  <2>2. /\ GivesNobodyElse(p)
        /\ \A r \in Races : raceLock'[r] # p
        /\ \A j \in Entries : registrationLock'[j] = p => j = k
    BY <1>1, <1>2, <2>1 DEF LockRegistrationForApproval, LocksTyped, GivesNobodyElse
  <2> QED BY <2>1, <2>2, RegistrationUsesLocks
          DEF LockRegistrationForApproval, RegistrationTask
<1>5. CASE RejectRegistration(p, k) \/ CancelRegistration(p, k)
  <2>1. /\ GivesNobodyElse(p)
        /\ \A r \in Races : raceLock'[r] # p
        /\ \A j \in Entries : registrationLock'[j] # p
    BY <1>2, <1>5 DEF RejectRegistration, CancelRegistration, KeepLocks, GivesNobodyElse
  <2> QED BY <1>5, <2>1, RegistrationUsesLocks DEF RejectRegistration, CancelRegistration
<1> QED BY <1>3, <1>4, <1>5

(* Each further statement goes on using what is held, or ends it. *)
LEMMA RegistrationStepUsesLocks ==
    ASSUME TypeInv, LocksInUse, NEW p \in RegistrationRequests, UNCHANGED resultRequest,
           RegistrationStep(p)
    PROVE  LocksInUse'
<1> DEFINE work == registrationRequest[p]
<1>1. LocksTyped
  BY DEF TypeInv, TypeOK, StoreTypeOK, LocksTyped
<1>2. work \in RegistrationWork /\ work.id \in Entries /\ work.id[1] \in Races
  BY RegistrationWorkType
  DEF RegistrationStep, ValidateEntry, InsertEntry, LockRaceForApproval, CheckApproval,
      CommitApproval, LoadRegistration, WriteRegistration, AuditRegistration,
      RegistrationAt, TypeInv, TypeOK
<1>3. \A step : /\ [work EXCEPT !.at = step].id = work.id
                /\ [work EXCEPT !.at = step].at = step
  BY <1>2 DEF RegistrationWork
<1>4. /\ \A r \in Races : raceLock[r] = p
           => /\ work.at \in {"validating", "entering", "checking", "approving"}
              /\ work.id[1] = r
      /\ \A k \in Entries : registrationLock[k] = p
           => /\ work.at \in {"lockingRace", "checking", "approving"}
              /\ work.id = k
  BY RegistrationHolds
<1>5. KeepLocks => GivesNobodyElse(p)
  BY DEF KeepLocks, GivesNobodyElse
<1>6. ASSUME NEW step, RegistrationProceed(p, [work EXCEPT !.at = step]),
             step \in {"entering", "checking", "approving"}, GivesNobodyElse(p),
             \A r \in Races : raceLock'[r] = p => r = work.id[1],
             \A k \in Entries :
                registrationLock'[k] = p => step # "entering" /\ k = work.id
      PROVE  LocksInUse'
  <2> DEFINE next == [work EXCEPT !.at = step]
  <2>1. next.id = work.id /\ next.at = step /\ RegistrationProceed(p, next)
    BY <1>3, <1>6
  <2> HIDE DEF next, work
  <2> QED BY <1>6, <2>1, RegistrationUsesLocks
<1>7. CASE ValidateEntry(p)
  <2>1. CASE RollbackRegistration(p)
    BY <2>1, RegistrationEndsUse
  <2>2. CASE RegistrationProceed(p, [work EXCEPT !.at = "entering"]) /\ KeepLocks
    <3>1. /\ \A r \in Races : raceLock'[r] = p => r = work.id[1]
          /\ \A k \in Entries : registrationLock'[k] # p
      BY <1>4, <1>7, <2>2 DEF ValidateEntry, RegistrationAt, KeepLocks
    <3> QED BY <1>5, <1>6, <2>2, <3>1
  <2> QED BY <1>7, <2>1, <2>2 DEF ValidateEntry
<1>8. CASE InsertEntry(p) \/ CommitApproval(p)
  BY <1>8, RegistrationEndsUse DEF InsertEntry, CommitApproval
<1>9. CASE LockRaceForApproval(p)
  <2>1. CASE RollbackRegistration(p)
    BY <2>1, RegistrationEndsUse
  <2>2. CASE /\ raceLock' = [raceLock EXCEPT ![work.id[1]] = p]
             /\ RegistrationProceed(p, [work EXCEPT !.at = "checking"])
             /\ UNCHANGED registrationLock
    <3>1. /\ GivesNobodyElse(p)
          /\ \A r \in Races : raceLock'[r] = p => r = work.id[1]
          /\ \A k \in Entries : registrationLock'[k] = p => k = work.id
      BY <1>1, <1>2, <1>4, <1>9, <2>2
      DEF LockRaceForApproval, LocksTyped, GivesNobodyElse, RegistrationAt
    <3> QED BY <1>6, <2>2, <3>1
  <2> QED BY <1>9, <2>1, <2>2 DEF LockRaceForApproval
<1>10. CASE CheckApproval(p)
  <2>1. CASE RollbackRegistration(p)
    BY <2>1, RegistrationEndsUse
  <2>2. CASE RegistrationProceed(p, [work EXCEPT !.at = "approving"]) /\ KeepLocks
    <3>1. /\ \A r \in Races : raceLock'[r] = p => r = work.id[1]
          /\ \A k \in Entries : registrationLock'[k] = p => k = work.id
      BY <1>4, <2>2 DEF KeepLocks
    <3> QED BY <1>5, <1>6, <2>2, <3>1
  <2> QED BY <1>10, <2>1, <2>2 DEF CheckApproval
<1>11. CASE LoadRegistration(p) \/ WriteRegistration(p) \/ AuditRegistration(p)
  <2>1. /\ \A r \in Races : raceLock'[r] # p
        /\ \A k \in Entries : registrationLock'[k] # p
    BY <1>4, <1>11
    DEF LoadRegistration, WriteRegistration, AuditRegistration, RegistrationAt, KeepLocks
  <2>2. KeepLocks /\ \E next : RegistrationProceed(p, next)
    BY <1>11 DEF LoadRegistration, WriteRegistration, AuditRegistration, RegistrationFinish
  <2> QED BY <1>5, <2>1, <2>2, RegistrationUsesLocks
<1> QED BY <1>7, <1>8, <1>9, <1>10, <1>11 DEF RegistrationStep

(* A step of a result request keeps LocksInUse when the request claims every *)
(* lock it then holds.                                                       *)
LEMMA ResultUsesLocks ==
    ASSUME TypeInv, LocksInUse, NEW p \in ResultRequests, NEW work,
           ResultProceed(p, work), GivesNobodyElse(p), UNCHANGED registrationRequest,
           \A r \in Races : raceLock'[r] = p
             => work.at \in {"validating", "saving"} /\ work.id[1] = r,
           \A k \in Entries : registrationLock'[k] # p
    PROVE  LocksInUse'
<1>1. OthersStay(p) /\ resultRequest'[p] = work
  BY ResultOthersStay DEF TypeInv, TypeOK
<1>2. \A r \in Races : raceLock'[r] = p => ClaimsRace(p, r)'
  BY <1>1 DEF ClaimsRace
<1> QED BY <1>1, <1>2, LocksInUseStep

(* What a result request holds is the race it claims. *)
LEMMA ResultHolds ==
    ASSUME LocksInUse, NEW p \in ResultRequests
    PROVE  /\ \A r \in Races : raceLock[r] = p
                => /\ resultRequest[p].at \in {"validating", "saving"}
                   /\ resultRequest[p].id[1] = r
           /\ \A k \in Entries : registrationLock[k] # p
<1>1. p \in Requests /\ p \notin RegistrationRequests
  BY StoreAssumption DEF StoreAssumption, Requests
<1> QED BY <1>1 DEF LocksInUse, ClaimsRace, ClaimsRegistration

(* Rollback, and commit, leave nothing in use. *)
LEMMA ResultEndsUse ==
    ASSUME TypeInv, LocksInUse, NEW p \in ResultRequests, UNCHANGED registrationRequest,
           ResultProceed(p, ResultIdle), Release(p)
    PROVE  LocksInUse'
<1>1. LocksTyped /\ p \in Requests
  BY DEF TypeInv, TypeOK, StoreTypeOK, LocksTyped, Requests
<1> QED BY <1>1, ReleaseLeavesNone, ResultUsesLocks

(* Every step of ResultsService uses the locks it holds. *)
LEMMA ResultsUseLocks ==
    ASSUME TypeInv, LocksInUse, ResultsNext, UNCHANGED registrationRequest
    PROVE  LocksInUse'
<1>1. LocksTyped
  BY DEF TypeInv, TypeOK, StoreTypeOK, LocksTyped
<1>2. \A p : UNCHANGED <<raceLock, registrationLock>> => GivesNobodyElse(p)
  BY DEF GivesNobodyElse
<1>3. ASSUME NEW p \in ResultRequests, NEW k \in Entries, NEW outcome \in Outcomes,
             LockRaceForResult(p, k, outcome)
      PROVE  LocksInUse'
  <2>1. k[1] \in Races
    BY DEF Entries
  <2>2. /\ GivesNobodyElse(p)
        /\ \A r \in Races : raceLock'[r] = p => r = k[1]
        /\ \A j \in Entries : registrationLock'[j] # p
    BY <1>1, <1>3, <2>1, ResultHolds
    DEF LockRaceForResult, LocksTyped, GivesNobodyElse, ResultAt
  <2> QED BY <1>3, <2>2, ResultUsesLocks DEF LockRaceForResult
<1>4. ASSUME NEW p \in ResultRequests, NEW k \in Entries, NEW outcome \in Outcomes,
             ReadResultForCorrection(p, k, outcome)
      PROVE  LocksInUse'
  BY <1>2, <1>4, ResultHolds, ResultUsesLocks DEF ReadResultForCorrection, ResultAt
<1>5. ASSUME NEW p \in ResultRequests, ResultStep(p)
      PROVE  LocksInUse'
  <2> DEFINE work == resultRequest[p]
  <2>1. work \in ResultWork /\ work.id[1] \in Races
    BY <1>5, ResultWorkType
    DEF ResultStep, LockRaceForCorrection, ValidateResult, CommitResult, ResultAt,
        TypeInv, TypeOK
  <2>2. \A step : /\ [work EXCEPT !.at = step].id = work.id
                  /\ [work EXCEPT !.at = step].at = step
    BY <2>1 DEF ResultWork
  <2>3. /\ \A r \in Races : raceLock[r] = p
             => work.at \in {"validating", "saving"} /\ work.id[1] = r
        /\ \A k \in Entries : registrationLock[k] # p
    BY ResultHolds
  <2>4. ASSUME NEW step, ResultProceed(p, [work EXCEPT !.at = step]),
               step \in {"validating", "saving"}, GivesNobodyElse(p),
               \A r \in Races : raceLock'[r] = p => r = work.id[1],
               \A k \in Entries : registrationLock'[k] # p
        PROVE  LocksInUse'
    <3> DEFINE next == [work EXCEPT !.at = step]
    <3>1. next.id = work.id /\ next.at = step /\ ResultProceed(p, next)
      BY <2>2, <2>4
    <3> HIDE DEF next, work
    <3> QED BY <2>4, <3>1, ResultUsesLocks
  <2>5. CASE LockRaceForCorrection(p)
    <3>1. CASE RollbackResult(p)
      BY <3>1, ResultEndsUse DEF RollbackResult
    <3>2. CASE /\ raceLock' = [raceLock EXCEPT ![work.id[1]] = p]
               /\ ResultProceed(p, [work EXCEPT !.at = "validating"])
               /\ UNCHANGED registrationLock
      <4>1. /\ GivesNobodyElse(p)
            /\ \A r \in Races : raceLock'[r] = p => r = work.id[1]
            /\ \A k \in Entries : registrationLock'[k] # p
        BY <1>1, <2>1, <2>3, <2>5, <3>2
        DEF LockRaceForCorrection, LocksTyped, GivesNobodyElse, ResultAt
      <4> QED BY <2>4, <3>2, <4>1
    <3> QED BY <2>5, <3>1, <3>2 DEF LockRaceForCorrection
  <2>6. CASE ValidateResult(p)
    <3>1. CASE RollbackResult(p)
      BY <3>1, ResultEndsUse DEF RollbackResult
    <3>2. CASE /\ ResultProceed(p, [work EXCEPT !.at = "saving"])
               /\ UNCHANGED <<raceLock, registrationLock>>
      <4>1. /\ GivesNobodyElse(p)
            /\ \A r \in Races : raceLock'[r] = p => r = work.id[1]
            /\ \A k \in Entries : registrationLock'[k] # p
        BY <1>2, <2>3, <3>2
      <4> QED BY <2>4, <3>2, <4>1
    <3> QED BY <2>6, <3>1, <3>2 DEF ValidateResult
  <2>7. CASE CommitResult(p)
    BY <2>7, ResultEndsUse DEF CommitResult, RollbackResult
  <2> QED BY <1>5, <2>5, <2>6, <2>7 DEF ResultStep
<1>6. ASSUME NEW p \in ResultRequests, AbandonResultRequest(p)
      PROVE  LocksInUse'
  BY <1>6, ResultEndsUse DEF AbandonResultRequest, RollbackResult
<1> QED BY <1>3, <1>4, <1>5, <1>6 DEF ResultsNext

(* No lock is held yet. *)
LEMMA LocksInUseInit == Init => LocksInUse
BY StoreAssumption DEF StoreAssumption, Init, StoreInit, LocksInUse

(* Every step of the system uses the locks it holds. *)
LEMMA LocksInUseNext == TypeInv /\ LocksInUse /\ [Next]_vars => LocksInUse'
<1> SUFFICES ASSUME TypeInv, LocksInUse, [Next]_vars PROVE LocksInUse'
  OBVIOUS
<1>1. ASSUME UNCHANGED <<registrationRequest, resultRequest, raceLock, registrationLock>>
      PROVE  LocksInUse'
  BY <1>1 DEF LocksInUse, ClaimsRace, ClaimsRegistration
<1>2. CASE Tick /\ UNCHANGED <<raceRequest, registrationRequest, resultRequest>>
  BY <1>1, <1>2 DEF Tick
<1>3. CASE RacesNext /\ UNCHANGED <<registrationRequest, resultRequest>>
  BY <1>1, <1>3, RacesFrame DEF UnchangedByRaces
<1>4. CASE RegistrationsNext /\ UNCHANGED <<raceRequest, resultRequest>>
  <2>1. ASSUME NEW p \in RegistrationRequests, AbandonRegistrationRequest(p)
        PROVE  LocksInUse'
    BY <1>4, <2>1, RegistrationEndsUse DEF AbandonRegistrationRequest
  <2> QED BY <1>4, <2>1, RegistrationBeginUsesLocks, RegistrationStepUsesLocks
          DEF RegistrationsNext
<1>5. CASE ResultsNext /\ UNCHANGED <<raceRequest, registrationRequest>>
  BY <1>5, ResultsUseLocks
<1>6. CASE UNCHANGED vars
  BY <1>1, <1>6 DEF vars, storeVars
<1> QED BY <1>2, <1>3, <1>4, <1>5, <1>6 DEF Next

(* No lock outlives its transaction: whoever holds one is at a statement of  *)
(* the transaction that took it, so commit, refusal and failure all let go.  *)
THEOREM LocksNeverLeak == Spec => []LocksInUse
BY LocksInUseInit, LocksInUseNext, TypeInvInit, TypeInvStep, PTL DEF Spec

-----------------------------------------------------------------------------
(* What the lock of a race protects. *)

(* save of an entity that differs in no column writes the row it found. *)
LEMMA UnpatchedRace ==
    ASSUME NEW row \in RaceRow, NEW entity
    PROVE  PatchedRace(row, entity, {}) = row
BY DEF PatchedRace, RaceRow

(* A race that exists changes only while no transaction holds its row, and   *)
(* goes away only while it has no registration.                              *)
LEMMA RaceChanges ==
    ASSUME TypeInv, RacesNext, NEW r \in Races, race'[r] # race[r], RaceExists(r)
    PROVE  /\ RaceUnlocked(r)
           /\ RaceExists(r)' \/ Registered(r) = {}
<1> PICK q \in RaceRequests :
        \/ \E s \in Races, c \in Capacities, t \in Schedules :
              CreateRace(q, s, c, t) \/ UpdateRace(q, s, c, t)
        \/ \E s \in Races, target \in RaceStatus : UpdateStatus(q, s, target)
        \/ \E s \in Races : RemoveRace(q, s)
        \/ RaceStep(q)
        \/ AbandonRaceRequest(q)
  BY DEF RacesNext
<1> DEFINE work == raceRequest[q]
<1>1. StoreTypeOK /\ RacesTypeOK /\ ~UNCHANGED race
  BY DEF TypeInv, TypeOK
<1>2. ASSUME NEW s \in Races, NEW c \in Capacities, NEW t \in Schedules
      PROVE  ~CreateRace(q, s, c, t) /\ ~UpdateRace(q, s, c, t)
  <2>1. s # r => ~CreateRace(q, s, c, t)
    BY <1>1 DEF CreateRace, StoreTypeOK
  <2>2. CreateRace(q, s, c, t) => s # r
    BY DEF CreateRace, RaceExists, NeverCreated, RaceStatus
  <2>3. ~UpdateRace(q, s, c, t)
    BY <1>1 DEF UpdateRace, RaceReadOnly
  <2> QED BY <2>1, <2>2, <2>3
<1>3. CASE DeleteRace(q)
  BY <1>1, <1>3 DEF DeleteRace, DeleteRestricted, StoreTypeOK
<1>4. CASE InsertRace(q)
  BY <1>1, <1>4 DEF InsertRace, StoreTypeOK
<1>5. CASE WriteRace(q)
  <2> DEFINE row == PatchedRace(race[r], work.entity, work.dirty)
  <2>1. work.entity \in RaceRow
    BY <1>1, <1>5, RaceWorkType, RaceWorkParts DEF WriteRace, RaceAt
  <2>2. work.id = r
    BY <1>1, <1>5 DEF WriteRace, StoreTypeOK
  <2>3. race[r] \in RaceRow /\ row.status \in RaceStatus
    BY <1>1, <2>1, ExistingRace, PatchedRaceType DEF RaceRow
  <2>4. work.dirty = {} => row = race[r]
    BY <2>3, UnpatchedRace
  <2>5. /\ race' = [race EXCEPT ![r] = row]
        /\ work.dirty = {} \/ RaceUnlocked(r)
    BY <1>1, <1>5, <2>2 DEF WriteRace
  <2> HIDE DEF row, work
  <2> QED BY <1>1, <2>3, <2>4, <2>5 DEF StoreTypeOK, RaceExists
<1>6. CASE \/ \E s \in Races, target \in RaceStatus : UpdateStatus(q, s, target)
           \/ \E s \in Races : RemoveRace(q, s)
           \/ CountApproved(q) \/ CountResults(q) \/ CheckRegistrations(q)
           \/ LoadRace(q) \/ AuditRace(q) \/ AbandonRaceRequest(q)
  BY <1>1, <1>6 DEF UpdateStatus, RemoveRace, CountApproved, CountResults,
                    CheckRegistrations, LoadRace, AuditRace, AbandonRaceRequest,
                    RaceReadOnly
<1> QED BY <1>2, <1>3, <1>4, <1>5, <1>6 DEF RaceStep
=============================================================================
