----------------------------- MODULE MCLifecycle -----------------------------
(***************************************************************************)
(* Instances for TLC.  Spec starts from an empty store.  BusySpec starts   *)
(* either from a race whose registration is open, which Spec reaches when  *)
(* an organiser has created and opened it, or from a race in progress with *)
(* every participant approved, each with a starting position of its own.   *)
(* In both nothing is in flight.                                           *)
(***************************************************************************)
EXTENDS RaceSystem, TLC

(* One schedule: the start at 2, registration until 1. *)
OneSchedule == {[scheduledAt |-> 2, registrationDeadline |-> 1]}

(* Three schedules, of which two share their start and two their deadline. *)
ThreeSchedules == {[scheduledAt |-> 2, registrationDeadline |-> 1],
                   [scheduledAt |-> 3, registrationDeadline |-> 1],
                   [scheduledAt |-> 3, registrationDeadline |-> 2]}

ParticipantSymmetry == Permutations(Participants)

(* Every race has this status, nothing is in flight and no result exists. *)
RestingAt(status) ==
    /\ RacesInit /\ RegistrationsInit /\ ResultsInit
    /\ race \in [Races -> {RaceRowOf(status, c, s) : c \in Capacities, s \in Schedules}]
    /\ result = [k \in Entries |-> NoResult]
    /\ raceLock = [r \in Races |-> Free]
    /\ registrationLock = [k \in Entries |-> Free]
    /\ raceAudit = [r \in Races |-> status]
    /\ resultAudit = [k \in Entries |-> NoResult]

OpenInit ==
    /\ RestingAt("OPEN_FOR_REGISTRATION")
    /\ now = 0
    /\ registration = [k \in Entries |-> NoRegistration]
    /\ registrationAudit = [k \in Entries |-> "NONE"]

RaceDayInit ==
    /\ RestingAt("IN_PROGRESS")
    /\ now = MaxTime
    /\ \A r \in Races : race[r].maxParticipants = Cardinality(Participants)
    /\ registration \in [Entries -> {[status |-> "APPROVED", startingPosition |-> p] :
                                        p \in Positions}]
    /\ StartingPositionsUnique
    /\ registrationAudit = [k \in Entries |-> "APPROVED"]

BusySpec == (OpenInit \/ RaceDayInit) /\ [][Next]_vars

LiveSpec == BusySpec /\ Fairness
=============================================================================
