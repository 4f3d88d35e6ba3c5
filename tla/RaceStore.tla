------------------------------ MODULE RaceStore ------------------------------
(***************************************************************************)
(* The PostgreSQL tables that the race, registration and result services   *)
(* share: the rows with the columns the rules depend on, the row locks of  *)
(* SELECT ... FOR UPDATE, the unique indexes, CHECKs and foreign keys the  *)
(* migrations create, the newest audit event of each row, and the clock    *)
(* the services read.                                                      *)
(*                                                                         *)
(* A registration is keyed by its race and its participant (a competitor   *)
(* or a team), because that pair is uniquely indexed and registrations are *)
(* never deleted; a result is keyed by its registration for the same       *)
(* reason.  Statements run under READ COMMITTED: one that reads sees the   *)
(* last committed row and never waits, one that writes a row waits for the *)
(* transaction that holds the row's lock.                                  *)
(***************************************************************************)
EXTENDS Integers, FiniteSets

CONSTANTS
    Races,                 \* race identifiers
    Participants,          \* competitors and teams that may enter a race
    Positions,             \* starting positions a request may ask for
    Capacities,            \* values of maxParticipants
    Schedules,             \* pairs of a start and a registration deadline
    FinalPositions,        \* final positions a result may claim
    RawTimes, Penalties,   \* times a result may report, in milliseconds
    Unfinished,            \* statuses other than FINISHED it may report
    MaxTime,               \* bound on the clock
    RaceRequests,          \* slots for requests in flight, one set for each
    RegistrationRequests,  \*   service; a slot runs any number of requests,
    ResultRequests,        \*   one after the other
    Free                   \* the owner of a lock that nobody holds

Requests == RaceRequests \cup RegistrationRequests \cup ResultRequests

ASSUME StoreAssumption ==
    /\ IsFiniteSet(Participants)
    /\ Positions \subseteq Nat \ {0}
    /\ Capacities \subseteq Nat \ {0}
    /\ Schedules \subseteq [scheduledAt : Nat, registrationDeadline : Nat]
    /\ FinalPositions \subseteq Nat \ {0}
    /\ RawTimes \subseteq Nat \ {0}
    /\ Penalties \subseteq Nat
    /\ Unfinished \subseteq {"DISQUALIFIED", "DID_NOT_FINISH", "DID_NOT_START"}
    /\ MaxTime \in Nat
    /\ Free \notin Requests
    /\ RaceRequests \cap RegistrationRequests = {}
    /\ RaceRequests \cap ResultRequests = {}
    /\ RegistrationRequests \cap ResultRequests = {}

VARIABLES
    now,                \* ClockService.now()
    race,               \* races
    registration,       \* race_registrations
    result,             \* race_results
    raceLock,           \* the transaction that holds a race row FOR UPDATE
    registrationLock,   \* the transaction that holds a registration row
    raceAudit,          \* status in the newest audit event of a race
    registrationAudit,  \* status in the newest audit event of a registration
    resultAudit         \* previousValues in the newest audit event of a result

storeVars == <<now, race, registration, result, raceLock, registrationLock,
               raceAudit, registrationAudit, resultAudit>>

-----------------------------------------------------------------------------
(* Rows.  0 stands for a null position or time: the DTOs accept none below 1. *)

Entries == Races \X Participants

EntriesOf(r) == {k \in Entries : k[1] = r}

RaceStatus == {"DRAFT", "OPEN_FOR_REGISTRATION", "CLOSED", "IN_PROGRESS",
               "COMPLETED", "CANCELLED"}

RaceRow == [status : RaceStatus, maxParticipants : Nat \ {0},
            scheduledAt : Nat, registrationDeadline : Nat]

NeverCreated == [status |-> "NONE"]      \* no row has had this id yet
Deleted      == [status |-> "DELETED"]   \* the row with this id was removed

RegistrationStatus == {"PENDING", "APPROVED", "REJECTED", "CANCELLED"}

RegistrationRow == [status : RegistrationStatus, startingPosition : Nat]

NoRegistration == [status |-> "NONE", startingPosition |-> 0]

ResultStatus == {"FINISHED", "DISQUALIFIED", "DID_NOT_FINISH", "DID_NOT_START"}

ResultRow == [status : ResultStatus, finalPosition : Nat, finalTimeMs : Nat]

NoResult == [status |-> "NONE", finalPosition |-> 0, finalTimeMs |-> 0]

RaceExists(r) == race[r].status \in RaceStatus

Registered(r) == {k \in EntriesOf(r) : registration[k].status # "NONE"}

Approved(r) == {k \in EntriesOf(r) : registration[k].status = "APPROVED"}

Recorded(r) == {k \in EntriesOf(r) : result[k].status # "NONE"}

Finished(r) == {k \in EntriesOf(r) : result[k].status = "FINISHED"}

-----------------------------------------------------------------------------
(* What the schema refuses.  A definition named No..., Un... or ...Unlocked  *)
(* here and in the services is the code with one safeguard taken out; only   *)
(* the mutation runs of PROJECT.json use it.                                 *)

NoScheduleCheck(row) == TRUE

ScheduleCheck(row) == row.registrationDeadline < row.scheduledAt

NoStartingPositionIndex(k, position) == TRUE

StartingPositionIndex(k, position) ==
    position # 0 => \A j \in EntriesOf(k[1]) \ {k} :
                        registration[j].startingPosition # position

FinalPositionIndex(k, row) ==
    row.status = "FINISHED" =>
        \A j \in Finished(k[1]) \ {k} :
            result[j].finalPosition # row.finalPosition

DeleteUnrestricted(r) == FALSE

DeleteRestricted(r) == Registered(r) # {}

-----------------------------------------------------------------------------
(* Row locks: a transaction takes one when it is free and keeps it until it *)
(* commits or rolls back; an UPDATE of its own waits until it is free.      *)

RaceUnlocked(r) == raceLock[r] = Free

RegistrationUnlocked(k) == registrationLock[k] = Free

ReleasedRaces(q) ==
    [r \in Races |-> IF raceLock[r] = q THEN Free ELSE raceLock[r]]

ReleasedRegistrations(q) ==
    [k \in Entries |-> IF registrationLock[k] = q THEN Free
                                                 ELSE registrationLock[k]]

(* Commit or rollback of the transaction of request q. *)
Release(q) == /\ raceLock' = ReleasedRaces(q)
              /\ registrationLock' = ReleasedRegistrations(q)

-----------------------------------------------------------------------------
StoreTypeOK ==
    /\ now \in 0 .. MaxTime
    /\ race \in [Races -> RaceRow \cup {NeverCreated, Deleted}]
    /\ registration \in [Entries -> RegistrationRow \cup {NoRegistration}]
    /\ result \in [Entries -> ResultRow \cup {NoResult}]
    /\ raceLock \in [Races -> Requests \cup {Free}]
    /\ registrationLock \in [Entries -> Requests \cup {Free}]
    /\ raceAudit \in [Races -> RaceStatus \cup {"NONE", "DELETED"}]
    /\ registrationAudit \in [Entries -> RegistrationStatus \cup {"NONE"}]
    /\ resultAudit \in [Entries -> ResultRow \cup {NoResult}]

StoreInit ==
    /\ now = 0
    /\ race = [r \in Races |-> NeverCreated]
    /\ registration = [k \in Entries |-> NoRegistration]
    /\ result = [k \in Entries |-> NoResult]
    /\ raceLock = [r \in Races |-> Free]
    /\ registrationLock = [k \in Entries |-> Free]
    /\ raceAudit = [r \in Races |-> "NONE"]
    /\ registrationAudit = [k \in Entries |-> "NONE"]
    /\ resultAudit = [k \in Entries |-> NoResult]

(* Time passes, up to the bound. *)
Tick == /\ now < MaxTime
        /\ now' = now + 1
        /\ UNCHANGED <<race, registration, result, raceLock, registrationLock,
                       raceAudit, registrationAudit, resultAudit>>
=============================================================================
