------------------------------ MODULE RaceSystem ------------------------------
(***************************************************************************)
(* The race lifecycle as a whole: RacesService, RegistrationsService and   *)
(* ResultsService running requests at the same time against one store.     *)
(***************************************************************************)
EXTENDS RacesService, RegistrationsService, ResultsService

vars == <<storeVars, raceRequest, registrationRequest, resultRequest>>

TypeOK == /\ StoreTypeOK
          /\ RacesTypeOK
          /\ RegistrationsTypeOK
          /\ ResultsTypeOK

Init == /\ StoreInit
        /\ RacesInit
        /\ RegistrationsInit
        /\ ResultsInit

Next == \/ Tick /\ UNCHANGED <<raceRequest, registrationRequest, resultRequest>>
        \/ RacesNext /\ UNCHANGED <<registrationRequest, resultRequest>>
        \/ RegistrationsNext /\ UNCHANGED <<raceRequest, resultRequest>>
        \/ ResultsNext /\ UNCHANGED <<raceRequest, registrationRequest>>

Spec == Init /\ [][Next]_vars

-----------------------------------------------------------------------------
(* A statement that can run does run, and PostgreSQL serves the waiters of a *)
(* row in turn: a request that waits for a lock gets it if it is freed again *)
(* and again.  Nothing obliges a client to send a request, a request to fail *)
(* or the clock to advance.                                                  *)
Fairness ==
    /\ \A q \in RaceRequests :
          SF_vars(RaceStep(q) /\ UNCHANGED <<registrationRequest, resultRequest>>)
    /\ \A q \in RegistrationRequests :
          SF_vars(RegistrationStep(q) /\ UNCHANGED <<raceRequest, resultRequest>>)
    /\ \A q \in ResultRequests :
          SF_vars(ResultStep(q) /\ UNCHANGED <<raceRequest, registrationRequest>>)

FairSpec == Spec /\ Fairness

-----------------------------------------------------------------------------
(* At most one registration of a race holds a starting position, whatever   *)
(* the order in which approvals and stale saves of reject and cancel land.  *)
StartingPositionsUnique ==
    \A r \in Races : \A j, k \in EntriesOf(r) :
        /\ j # k
        /\ registration[j].startingPosition # 0
        => registration[j].startingPosition # registration[k].startingPosition

(* An approved registration has a starting position, and a pending one has  *)
(* none: a stale save never strips or plants one under either status.       *)
ApprovedHavePosition ==
    \A k \in Entries :
        /\ registration[k].status = "APPROVED" => registration[k].startingPosition # 0
        /\ registration[k].status = "PENDING" => registration[k].startingPosition = 0

(* No registration is left without its race, though remove looks for         *)
(* registrations long before it deletes.                                     *)
NoOrphanRegistration ==
    \A k \in Entries : registration[k].status # "NONE" => RaceExists(k[1])

(* Capacity and positions are checked atomically at approval: a registration *)
(* becomes APPROVED only from PENDING, in an open race, and only if that     *)
(* leaves no more approved registrations than the race admits.               *)
Approves(k) == /\ registration[k].status # "APPROVED"
               /\ registration'[k].status = "APPROVED"

ApprovalWithinCapacity ==
    [][\A k \in Entries : Approves(k) =>
          Cardinality(Approved(k[1]))' <= race[k[1]].maxParticipants]_vars

ApprovalFromPendingWhileOpen ==
    [][\A k \in Entries : Approves(k) =>
          /\ registration[k].status = "PENDING"
          /\ race[k[1]].status = "OPEN_FOR_REGISTRATION"]_vars

(* A race takes entries only while it is open at the moment the row commits. *)
EntryOnlyWhileOpen ==
    [][\A k \in Entries :
          registration[k].status = "NONE" /\ registration'[k].status # "NONE"
          => race[k[1]].status = "OPEN_FOR_REGISTRATION"]_vars

(* While a registration stays approved its starting position is fixed. *)
GridIsStable ==
    [][\A k \in Entries :
          registration[k].status = "APPROVED" /\ registration'[k].status = "APPROVED"
          => registration'[k].startingPosition = registration[k].startingPosition]_vars

(* Whoever holds final position 1 of a race has the lowest final time of its *)
(* finished results, through any sequence of results and corrections.        *)
WinnerIsFastest ==
    \A r \in Races : \A j, k \in Finished(r) :
        result[j].finalPosition = 1 => result[j].finalTimeMs <= result[k].finalTimeMs

(* The result tables behave as one ResultBook that changes in single steps. *)
Book == INSTANCE ResultBook WITH book <- result

ImplementsResultBook == Book!Spec

(* The registrations behave as one StartingGrid, whose races take as many    *)
(* entries as they admit while they are open, and none otherwise: an entry   *)
(* joins an open race, is approved once and within its capacity, and never   *)
(* starts after it has ended, whatever organisers do to the race.            *)
Admitted == [r \in Races |-> IF race[r].status = "OPEN_FOR_REGISTRATION"
                             THEN race[r].maxParticipants
                             ELSE 0]

Grid == INSTANCE StartingGrid WITH grid <- registration, capacity <- Admitted

ImplementsStartingGrid == Grid!Spec

(* What a result request validated still holds when it commits: no other     *)
(* request can record or correct a result of the race in between, so the     *)
(* unique index never refuses what the service accepted.                     *)
ValidatedOutcomeStands ==
    \A q \in ResultRequests :
        ResultAt(q, "saving") =>
            /\ OutcomeValid(resultRequest[q].id, resultRequest[q].outcome)
            /\ FinalPositionIndex(resultRequest[q].id, resultRequest[q].outcome)

(* A first result commits only while its race is in progress, a correction   *)
(* only during or after it.                                                  *)
ResultsOnlyDuringOrAfterRace ==
    [][\A k \in Entries : result'[k] # result[k] =>
          \/ race[k[1]].status = "IN_PROGRESS"
          \/ result[k].status # "NONE" /\ race[k[1]].status = "COMPLETED"]_vars

(* Registration always closes before the start, also when two edits of a     *)
(* draft each write only the column in which they differ from it.            *)
ScheduleConsistent ==
    \A r \in Races : RaceExists(r) =>
        race[r].registrationDeadline < race[r].scheduledAt

(* The next statement of request p waits for a row that request q holds.     *)
Awaits(p, q) ==
    \/ /\ p \in RaceRequests
       /\ \/ RaceAt(p, "deleting")
          \/ RaceAt(p, "writing") /\ raceRequest[p].dirty # {}
       /\ raceLock[raceRequest[p].id] = q
    \/ /\ p \in RegistrationRequests
       /\ \/ /\ RegistrationAt(p, "lockingRace")
             /\ raceLock[registrationRequest[p].id[1]] = q
          \/ /\ RegistrationAt(p, "writing") /\ registrationRequest[p].dirty # {}
             /\ registrationLock[registrationRequest[p].id] = q
    \/ /\ p \in ResultRequests
       /\ \/ /\ ResultAt(p, "lockingRace")
             /\ raceLock[resultRequest[p].id[1]] = q
          \/ /\ ResultAt(p, "saving") /\ resultRequest[p].existing = NoResult
             /\ registrationLock[resultRequest[p].id] = q

(* Requests never wait for one another in a circle: a save may wait for an   *)
(* approval, which waits for the holder of the race, which waits for nobody. *)
(* approve locks a registration and then its race while the INSERT of a      *)
(* result needs a share of its registration under the race's lock, but never *)
(* are both about the same registration.                                     *)
NoCircularWait ==
    \A p, q, s, t \in Requests : ~(Awaits(p, q) /\ Awaits(q, s) /\ Awaits(s, t))

(* Every request that has begun ends: none waits for a lock for ever, though *)
(* approve takes two and the audit of one service needs none.                *)
RequestsFinish ==
    /\ \A q \in RaceRequests : ~RaceAt(q, "idle") ~> RaceAt(q, "idle")
    /\ \A q \in RegistrationRequests :
          ~RegistrationAt(q, "idle") ~> RegistrationAt(q, "idle")
    /\ \A q \in ResultRequests : ~ResultAt(q, "idle") ~> ResultAt(q, "idle")

-----------------------------------------------------------------------------
(* What the documents say of the system and its code does not do. *)

(* Approved participation does not exceed the race capacity                  *)
(* (docs/business-rules.md).                                                 *)
CapacityRespected ==
    \A r \in Races : RaceExists(r) =>
        Cardinality(Approved(r)) <= race[r].maxParticipants

(* A completed race has a result for every approved participant (README.md). *)
CompletedRaceHasAllResults ==
    \A r \in Races : race[r].status = "COMPLETED" => Approved(r) \subseteq Recorded(r)
=============================================================================
