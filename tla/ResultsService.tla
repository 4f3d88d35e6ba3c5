---------------------------- MODULE ResultsService ----------------------------
(***************************************************************************)
(* ResultsService: recording the result of a registration and correcting   *)
(* it.  Both run in a transaction that locks the race row, so the checks   *)
(* on the race's other results stay true until it commits.  A correction   *)
(* reads the result it corrects before the transaction begins.             *)
(***************************************************************************)
EXTENDS RaceStore

VARIABLE resultRequest   \* the request each slot of ResultRequests is running

ResultIdle == [at |-> "idle"]

(* existing: the result a correction read, NoResult when one is recorded;   *)
(* outcome: the normalized result to store.                                 *)
ResultWork == [at : {"lockingRace", "validating", "saving"},
               id : Entries,
               existing : ResultRow \cup {NoResult},
               outcome : ResultRow]

ResultsTypeOK == resultRequest \in [ResultRequests -> ResultWork \cup {ResultIdle}]

ResultsInit == resultRequest = [q \in ResultRequests |-> ResultIdle]

ResultAt(q, step) == resultRequest[q].at = step

ResultProceed(q, work) == resultRequest' = [resultRequest EXCEPT ![q] = work]

UnchangedByResults == UNCHANGED <<now, race, registration, raceAudit,
                                  registrationAudit>>

ResultReadOnly == /\ UnchangedByResults
                  /\ UNCHANGED <<result, resultAudit>>

RollbackResult(q) == /\ ResultProceed(q, ResultIdle)
                     /\ Release(q)
                     /\ ResultReadOnly

-----------------------------------------------------------------------------
OutcomesSubtractingPenalty ==
    {[status |-> "FINISHED", finalPosition |-> position,
      finalTimeMs |-> raw - penalty] :
        position \in FinalPositions, raw \in RawTimes, penalty \in Penalties}
    \cup
    {[status |-> s, finalPosition |-> 0, finalTimeMs |-> 0] :
        s \in Unfinished}

(* normalizeResult: what the service stores of the outcomes it accepts. *)
Outcomes ==
    {[status |-> "FINISHED", finalPosition |-> position,
      finalTimeMs |-> raw + penalty] :
        position \in FinalPositions, raw \in RawTimes, penalty \in Penalties}
    \cup
    {[status |-> s, finalPosition |-> 0, finalTimeMs |-> 0] :
        s \in Unfinished}

SamePosition(k, outcome) ==
    \E j \in Finished(k[1]) \ {k} :
        result[j].finalPosition = outcome.finalPosition

WinnerUnbeatenOnEntry(k, outcome) ==
    outcome.finalPosition = 1 =>
        \A j \in Finished(k[1]) \ {k} : result[j].finalTimeMs >= outcome.finalTimeMs

(* validateWinner, against the other finished results of the race. *)
WinnerValid(k, outcome) ==
    LET others == Finished(k[1]) \ {k}
    IN  /\ outcome.finalPosition = 1 =>
             \A j \in others : result[j].finalTimeMs >= outcome.finalTimeMs
        /\ \A j \in others :
             result[j].finalPosition = 1 =>
                 outcome.finalTimeMs >= result[j].finalTimeMs

OutcomeValid(k, outcome) ==
    outcome.status = "FINISHED" =>
        ~SamePosition(k, outcome) /\ WinnerValid(k, outcome)

-----------------------------------------------------------------------------
LockRaceForResultUnlocked(q, k, outcome) ==
    /\ ResultAt(q, "idle")
    /\ race[k[1]].status = "IN_PROGRESS"
    /\ ResultProceed(q, [at |-> "validating", id |-> k,
                         existing |-> NoResult, outcome |-> outcome])
    /\ UNCHANGED <<raceLock, registrationLock>>
    /\ ResultReadOnly

(* create: lock the race, which must be in progress. *)
LockRaceForResult(q, k, outcome) ==
    /\ ResultAt(q, "idle")
    /\ RaceUnlocked(k[1])
    /\ race[k[1]].status = "IN_PROGRESS"
    /\ raceLock' = [raceLock EXCEPT ![k[1]] = q]
    /\ ResultProceed(q, [at |-> "validating", id |-> k,
                         existing |-> NoResult, outcome |-> outcome])
    /\ UNCHANGED registrationLock
    /\ ResultReadOnly

(* update: read the result, outside the transaction; ...  *)
ReadResultForCorrection(q, k, outcome) ==
    /\ ResultAt(q, "idle")
    /\ result[k].status # "NONE"
    /\ ResultProceed(q, [at |-> "lockingRace", id |-> k,
                         existing |-> result[k], outcome |-> outcome])
    /\ UNCHANGED <<raceLock, registrationLock>>
    /\ ResultReadOnly

LockRaceForCorrectionUnlocked(q) ==
    /\ ResultAt(q, "lockingRace")
    /\ IF race[resultRequest[q].id[1]].status \in {"IN_PROGRESS", "COMPLETED"}
       THEN /\ ResultProceed(q, [resultRequest[q] EXCEPT !.at = "validating"])
            /\ UNCHANGED <<raceLock, registrationLock>>
            /\ ResultReadOnly
       ELSE RollbackResult(q)

(* ... then lock the race, in progress or completed. *)
LockRaceForCorrection(q) ==
    /\ ResultAt(q, "lockingRace")
    /\ LET r == resultRequest[q].id[1]
       IN  /\ RaceUnlocked(r)
           /\ IF race[r].status \in {"IN_PROGRESS", "COMPLETED"}
              THEN /\ raceLock' = [raceLock EXCEPT ![r] = q]
                   /\ ResultProceed(q, [resultRequest[q] EXCEPT !.at = "validating"])
                   /\ UNCHANGED registrationLock
                   /\ ResultReadOnly
              ELSE RollbackResult(q)

ValidateNewResultOnly(q) ==
    /\ ResultAt(q, "validating")
    /\ LET work == resultRequest[q]
           k    == work.id
       IN  IF /\ registration[k].status = "APPROVED"
              /\ registration[k].startingPosition # 0
              /\ work.existing = NoResult =>
                    result[k].status = "NONE" /\ OutcomeValid(k, work.outcome)
           THEN /\ ResultProceed(q, [work EXCEPT !.at = "saving"])
                /\ UNCHANGED <<raceLock, registrationLock>>
                /\ ResultReadOnly
           ELSE RollbackResult(q)

(* The registration, read without a lock, and the race's results. *)
ValidateResult(q) ==
    /\ ResultAt(q, "validating")
    /\ LET work == resultRequest[q]
           k    == work.id
       IN  IF /\ registration[k].status = "APPROVED"
              /\ registration[k].startingPosition # 0
              /\ work.existing = NoResult => result[k].status = "NONE"
              /\ OutcomeValid(k, work.outcome)
           THEN /\ ResultProceed(q, [work EXCEPT !.at = "saving"])
                /\ UNCHANGED <<raceLock, registrationLock>>
                /\ ResultReadOnly
           ELSE RollbackResult(q)

(* The row and its audit event commit together.  An INSERT shares a lock on  *)
(* its registration; a second result of a registration, or a second holder   *)
(* of a final position, is refused by an index.                              *)
CommitResult(q) ==
    /\ ResultAt(q, "saving")
    /\ LET work == resultRequest[q]
           k    == work.id
       IN  /\ work.existing = NoResult => RegistrationUnlocked(k)
           /\ IF /\ work.existing = NoResult => result[k].status = "NONE"
                 /\ FinalPositionIndex(k, work.outcome)
              THEN /\ result' = [result EXCEPT ![k] = work.outcome]
                   /\ resultAudit' = [resultAudit EXCEPT ![k] = work.existing]
                   /\ ResultProceed(q, ResultIdle)
                   /\ Release(q)
                   /\ UnchangedByResults
              ELSE RollbackResult(q)

(* The process or its connection dies: its open transaction rolls back. *)
AbandonResultRequest(q) == ~ResultAt(q, "idle") /\ RollbackResult(q)

-----------------------------------------------------------------------------
ResultStep(q) == LockRaceForCorrection(q) \/ ValidateResult(q) \/ CommitResult(q)

ResultsNext ==
    \E q \in ResultRequests :
        \/ \E k \in Entries, outcome \in Outcomes :
              \/ LockRaceForResult(q, k, outcome)
              \/ ReadResultForCorrection(q, k, outcome)
        \/ ResultStep(q)
        \/ AbandonResultRequest(q)
=============================================================================
