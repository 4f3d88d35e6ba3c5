--------------------------- MODULE RaceRulesProofs ---------------------------
(***************************************************************************)
(* What a request has checked stays true until it commits.  ResultsService *)
(* implements ResultBook: it validates and saves under one lock of its     *)
(* race.  RegistrationsService implements StartingGrid: the race stays     *)
(* open, the registration pending and the last place free, because         *)
(* organisers and stale saves wait for the locks an entry or an approval   *)
(* holds.  And they wait in no circle, because the results that are saved  *)
(* and the registrations that are locked are of different entries.         *)
(***************************************************************************)
EXTENDS RaceSystemProofs

(* What a request that is about to save has validated. *)
SavesStand ==
    \A q \in ResultRequests :
        ResultAt(q, "saving") => OutcomeValid(resultRequest[q].id, resultRequest[q].outcome)

ResultInv == LockInv /\ SavesStand

-----------------------------------------------------------------------------
(* Two result requests that hold a lock work on different races. *)
LEMMA SavesApart ==
    ASSUME LockInv, NEW p \in ResultRequests, NEW q \in ResultRequests, p # q,
           ResultAt(p, "saving"), ResultAt(q, "saving")
    PROVE  resultRequest[p].id[1] # resultRequest[q].id[1]
<1>1. /\ resultRequest[p].id[1] \in Races /\ resultRequest[q].id[1] \in Races
      /\ p \in Requests /\ q \in Requests
  BY ResultWorkType DEF LockInv, TypeInv, TypeOK, ResultAt, Requests
<1>2. /\ raceLock[resultRequest[p].id[1]] = p
      /\ raceLock[resultRequest[q].id[1]] = q
  BY <1>1 DEF LockInv, LocksHeld, ClaimsRace, ResultAt
<1> QED BY <1>2

(* What a request validated, the unique index of final positions accepts.    *)
LEMMA ValidOutcomeIndexed ==
    ASSUME NEW k, NEW outcome, OutcomeValid(k, outcome)
    PROVE  FinalPositionIndex(k, outcome)
BY DEF OutcomeValid, SamePosition, FinalPositionIndex

-----------------------------------------------------------------------------
(* A step of one request keeps SavesStand when it changes no result of a     *)
(* race that another request is saving to, and validates before it saves.    *)
LEMMA SavesStandStep ==
    ASSUME ResultInv, NEW p \in ResultRequests, NEW work, ResultProceed(p, work),
           \A q \in ResultRequests \ {p} : ResultAt(q, "saving") =>
               \A j \in EntriesOf(resultRequest[q].id[1]) : result'[j] = result[j],
           work.at = "saving" => OutcomeValid(work.id, work.outcome)',
           work.at = "saving" => work.id \in Entries
    PROVE  SavesStand'
<1> SUFFICES ASSUME NEW q \in ResultRequests, resultRequest'[q].at = "saving"
             PROVE  OutcomeValid(resultRequest[q].id, resultRequest[q].outcome)'
  BY DEF SavesStand, ResultAt
<1>1. ResultsTypeOK
  BY DEF ResultInv, LockInv, TypeInv, TypeOK
<1>2. CASE q = p
  <2>1. resultRequest'[q] = work
    BY <1>1, <1>2 DEF ResultProceed, ResultsTypeOK
  <2> QED BY <2>1 DEF OutcomeValid, SamePosition, WinnerValid, Finished
<1>3. CASE q # p
  <2>1. resultRequest'[q] = resultRequest[q]
    BY <1>1, <1>3 DEF ResultProceed, ResultsTypeOK
  <2>2. ResultAt(q, "saving") /\ resultRequest[q].id \in Entries
    BY <1>1, <2>1, ResultWorkType DEF ResultAt
  <2>3. OutcomeValid(resultRequest[q].id, resultRequest[q].outcome)
    BY <2>2 DEF ResultInv, SavesStand
  <2>4. \A j \in EntriesOf(resultRequest[q].id[1]) : result'[j] = result[j]
    BY <1>3, <2>2
  <2> DEFINE k == resultRequest[q].id
             outcome == resultRequest[q].outcome
  <2>5. /\ Finished(k[1])' = Finished(k[1])
        /\ \A j \in Finished(k[1]) : result'[j] = result[j]
    BY <2>1, <2>4 DEF Finished, EntriesOf
  <2> QED BY <2>1, <2>3, <2>5 DEF OutcomeValid, SamePosition, WinnerValid
<1> QED BY <1>2, <1>3

(* A request that reads, or ends without writing, keeps it. *)
LEMMA ReadKeepsSaves ==
    ASSUME ResultInv, NEW p \in ResultRequests, NEW work, ResultProceed(p, work),
           UNCHANGED result,
           work.at = "saving" => work.id \in Entries /\ OutcomeValid(work.id, work.outcome)
    PROVE  SavesStand'
<1>1. work.at = "saving" => OutcomeValid(work.id, work.outcome)'
  BY DEF OutcomeValid, SamePosition, WinnerValid, Finished
<1> QED BY <1>1, SavesStandStep

(* Saving to one race leaves what others validated for theirs. *)
LEMMA CommitKeepsSaves ==
    ASSUME ResultInv, NEW p \in ResultRequests, CommitResult(p)
    PROVE  SavesStand'
<1> DEFINE k == resultRequest[p].id
<1>1. ResultsTypeOK /\ LockInv /\ ResultAt(p, "saving") /\ StoreTypeOK
  BY DEF ResultInv, LockInv, TypeInv, TypeOK, CommitResult
<1>2. k \in Entries
  BY <1>1, ResultWorkType DEF ResultAt
<1>3. \A j \in Entries : j # k => result'[j] = result[j]
  BY <1>1, <1>2 DEF CommitResult, RollbackResult, ResultReadOnly, StoreTypeOK
<1>4. ASSUME NEW q \in ResultRequests \ {p}, ResultAt(q, "saving"),
             NEW j \in EntriesOf(resultRequest[q].id[1])
      PROVE  result'[j] = result[j]
  <2>1. j \in Entries /\ j # k
    BY <1>1, <1>4, SavesApart DEF EntriesOf
  <2> QED BY <1>3, <2>1
<1>5. ResultProceed(p, ResultIdle)
  BY DEF CommitResult, RollbackResult
<1> QED BY <1>4, <1>5, SavesStandStep DEF ResultIdle

(* Every step of ResultsService keeps what is about to be saved valid. *)
LEMMA ResultsKeepSaves ==
    ASSUME ResultInv, ResultsNext
    PROVE  SavesStand'
<1>1. ASSUME NEW p \in ResultRequests, NEW k \in Entries, NEW outcome \in Outcomes,
             LockRaceForResult(p, k, outcome) \/ ReadResultForCorrection(p, k, outcome)
      PROVE  SavesStand'
  BY <1>1, ReadKeepsSaves
  DEF LockRaceForResult, ReadResultForCorrection, ResultReadOnly
<1>2. ASSUME NEW p \in ResultRequests, RollbackResult(p)
      PROVE  SavesStand'
  BY <1>2, ReadKeepsSaves DEF RollbackResult, ResultReadOnly, ResultIdle
<1>3. ASSUME NEW p \in ResultRequests, LockRaceForCorrection(p) \/ ValidateResult(p)
      PROVE  SavesStand'
  <2> DEFINE work == resultRequest[p]
  <2>1. work \in ResultWork /\ work.id \in Entries
    BY <1>3, ResultWorkType DEF LockRaceForCorrection, ValidateResult, ResultAt,
                                ResultInv, LockInv, TypeInv, TypeOK
  <2>2. \A step : /\ [work EXCEPT !.at = step].id = work.id
                  /\ [work EXCEPT !.at = step].outcome = work.outcome
                  /\ [work EXCEPT !.at = step].at = step
    BY <2>1 DEF ResultWork
  <2>3. CASE LockRaceForCorrection(p)
    BY <1>2, <2>2, <2>3, ReadKeepsSaves DEF LockRaceForCorrection, ResultReadOnly
  <2>4. CASE ValidateResult(p)
    BY <1>2, <2>1, <2>2, <2>4, ReadKeepsSaves DEF ValidateResult, ResultReadOnly
  <2> QED BY <1>3, <2>3, <2>4
<1> QED BY <1>1, <1>2, <1>3, CommitKeepsSaves
        DEF ResultsNext, ResultStep, AbandonResultRequest

-----------------------------------------------------------------------------
(* Only a commit of ResultsService changes results. *)
LEMMA ResultsChangeOnlyByCommit ==
    ASSUME [Next]_vars, ~UNCHANGED result
    PROVE  /\ \E p \in ResultRequests : CommitResult(p)
           /\ ResultsNext /\ UNCHANGED <<raceRequest, registrationRequest>>
<1>1. ~(Tick \/ RacesNext \/ RegistrationsNext \/ UNCHANGED vars)
  BY RacesFrame, RegistrationsFrame
  DEF Tick, UnchangedByRaces, UnchangedByRegistrations, vars, storeVars
<1>2. ResultsNext /\ UNCHANGED <<raceRequest, registrationRequest>>
  BY <1>1 DEF Next
<1>3. PICK p \in ResultRequests :
        \/ \E k \in Entries, outcome \in Outcomes :
              \/ LockRaceForResult(p, k, outcome)
              \/ ReadResultForCorrection(p, k, outcome)
        \/ ResultStep(p)
        \/ AbandonResultRequest(p)
  BY <1>2 DEF ResultsNext
<1>4. CommitResult(p)
  BY <1>3 DEF LockRaceForResult, ReadResultForCorrection, ResultStep,
              LockRaceForCorrection, ValidateResult, AbandonResultRequest,
              RollbackResult, ResultReadOnly
<1> QED BY <1>2, <1>4

(* Nobody is about to save yet. *)
LEMMA ResultInvInit == Init => ResultInv
<1> SUFFICES ASSUME Init PROVE SavesStand
  BY LockInvInit DEF ResultInv
<1> QED BY DEF Init, ResultsInit, ResultIdle, SavesStand, ResultAt

(* The other services touch no result. *)
LEMMA ResultInvStep == ResultInv /\ [Next]_vars => ResultInv'
<1> SUFFICES ASSUME ResultInv, [Next]_vars PROVE SavesStand'
  BY LockInvStep DEF ResultInv
<1>1. CASE ResultsNext /\ UNCHANGED <<raceRequest, registrationRequest>>
  BY <1>1, ResultsKeepSaves
<1>2. CASE UNCHANGED <<result, resultRequest>>
  BY <1>2 DEF ResultInv, SavesStand, ResultAt, OutcomeValid, SamePosition, WinnerValid,
              Finished
<1>3. CASE ~(ResultsNext /\ UNCHANGED <<raceRequest, registrationRequest>>)
  <2>1. UNCHANGED result
    BY <1>3, ResultsChangeOnlyByCommit
  <2>2. UNCHANGED resultRequest
    BY <1>3 DEF Next, vars
  <2> QED BY <1>2, <2>1, <2>2
<1> QED BY <1>1, <1>3

(* What a request validated still holds when it commits, whatever other      *)
(* requests, failures and corrections come between.                          *)
THEOREM OutcomeStandsWhenSaved == Spec => []ValidatedOutcomeStands
<1>1. ResultInv => ValidatedOutcomeStands
  BY ValidOutcomeIndexed DEF ResultInv, SavesStand, ValidatedOutcomeStands
<1> QED BY <1>1, ResultInvInit, ResultInvStep, PTL DEF Spec

-----------------------------------------------------------------------------
(* The refinement: every step of the system is a Put, or leaves the book.   *)

(* A commit puts the outcome into the book. *)
LEMMA CommitIsPut ==
    ASSUME ResultInv, NEW p \in ResultRequests, CommitResult(p), ~UNCHANGED result
    PROVE  Book!Next
<1> DEFINE k == resultRequest[p].id
           row == resultRequest[p].outcome
<1>1. ResultsTypeOK /\ StoreTypeOK /\ ResultAt(p, "saving")
  BY DEF ResultInv, LockInv, TypeInv, TypeOK, CommitResult
<1>2. k \in Entries /\ row \in ResultRow
  BY <1>1, ResultWorkType DEF ResultAt
<1>3. OutcomeValid(k, row)
  BY <1>1 DEF ResultInv, SavesStand
<1>4. result' = [result EXCEPT ![k] = row]
  BY DEF CommitResult, RollbackResult, ResultReadOnly
<1>5. result'[k] = row
  BY <1>1, <1>2, <1>4 DEF StoreTypeOK
<1>6. ASSUME row.status = "FINISHED", NEW j \in Book!Rivals(k)
      PROVE  Book!RanksWith(row, result[j])
  <2>1. j \in Finished(k[1]) \ {k}
    BY <1>6 DEF Book!Rivals, Book!BookEntries, Finished, EntriesOf, Entries
  <2>2. ~SamePosition(k, row) /\ WinnerValid(k, row)
    BY <1>3, <1>6 DEF OutcomeValid
  <2>3. row.finalPosition # result[j].finalPosition
    BY <2>1, <2>2 DEF SamePosition
  <2>4. /\ row.finalPosition = 1 => result[j].finalTimeMs >= row.finalTimeMs
        /\ result[j].finalPosition = 1 => row.finalTimeMs >= result[j].finalTimeMs
    BY <2>1, <2>2 DEF WinnerValid
  <2>5. row.finalTimeMs \in Nat /\ result[j].finalTimeMs \in Nat
    BY <1>1, <1>2, <2>1 DEF StoreTypeOK, ResultRow, Finished, EntriesOf, NoResult
  <2> QED BY <2>3, <2>4, <2>5 DEF Book!RanksWith
<1>7. row \in Book!BookRow /\ k \in Book!BookEntries
  BY <1>2 DEF Book!BookRow, Book!BookStatus, Book!BookEntries, ResultRow, ResultStatus,
              Entries
<1>8. Book!Put(k)
  <2> HIDE DEF k, row
  <2> QED BY <1>4, <1>5, <1>6, <1>7 DEF Book!Put
<1> QED BY <1>7, <1>8 DEF Book!Next

(* No result yet: the empty book. *)
LEMMA BookInit == Init => Book!Init
BY DEF Init, StoreInit, Book!Init, Book!BookEntries, Book!Blank, Entries, NoResult

(* Every step of the system is a step of the book or leaves it alone. *)
LEMMA BookStep == ResultInv /\ [Next]_vars => [Book!Next]_result
<1> SUFFICES ASSUME ResultInv, [Next]_vars, ~UNCHANGED result PROVE Book!Next
  OBVIOUS
<1> QED BY ResultsChangeOnlyByCommit, CommitIsPut

(* ResultsService implements ResultBook: concurrent transactions, failures   *)
(* and corrections read before their lock act on the results as single steps *)
(* that each leave the ranking consistent.                                   *)
THEOREM ImplementsBook == Spec => ImplementsResultBook
<1> QED BY BookInit, BookStep, ResultInvInit, ResultInvStep, PTL
        DEF Spec, ImplementsResultBook, Book!Spec

-----------------------------------------------------------------------------
(* What the book promises. *)

(* A result ranks with its rivals when it is put, and RanksWith is symmetric, *)
(* so any two finished results of a race rank consistently.                   *)
LEMMA RankingStep ==
    ASSUME Book!BookTypeOK, Book!RankingConsistent, [Book!Next]_result
    PROVE  Book!BookTypeOK' /\ Book!RankingConsistent'
<1>1. CASE UNCHANGED result
  BY <1>1 DEF Book!BookTypeOK, Book!RankingConsistent, Book!Rivals
<1>2. ASSUME NEW e \in Book!BookEntries, Book!Put(e)
      PROVE  Book!BookTypeOK' /\ Book!RankingConsistent'
  <2> DEFINE row == result'[e]
  <2>1. /\ row \in Book!BookRow
        /\ row.status = "FINISHED"
             => \A j \in Book!Rivals(e) : Book!RanksWith(row, result[j])
        /\ result' = [result EXCEPT ![e] = row]
    BY <1>2 DEF Book!Put
  <2>2. \A k \in Book!BookEntries \ {e} : result'[k] = result[k]
    BY <2>1 DEF Book!BookTypeOK
  <2>3. ASSUME NEW j \in Book!BookEntries, NEW k \in Book!BookEntries, j # k,
               j[1] = k[1], result'[j].status = "FINISHED", result'[k].status = "FINISHED"
        PROVE  Book!RanksWith(result'[k], result'[j])
    <3>1. CASE k = e
      <4>1. j \in Book!Rivals(e) /\ result'[j] = result[j]
        BY <2>2, <2>3, <3>1 DEF Book!Rivals
      <4> QED BY <2>1, <2>3, <3>1, <4>1
    <3>2. CASE j = e
      <4>1. k \in Book!Rivals(e) /\ result'[k] = result[k]
        BY <2>2, <2>3, <3>2 DEF Book!Rivals
      <4>2. Book!RanksWith(result'[j], result'[k])
        BY <2>1, <2>3, <3>2, <4>1
      <4> QED BY <4>2 DEF Book!RanksWith
    <3>3. CASE j # e /\ k # e
      <4>1. result'[j] = result[j] /\ result'[k] = result[k]
        BY <2>2, <3>3
      <4> QED BY <2>3, <4>1 DEF Book!RankingConsistent, Book!Rivals
    <3> QED BY <3>1, <3>2, <3>3
  <2>4. Book!BookTypeOK'
    BY <2>1, <2>2 DEF Book!BookTypeOK
  <2> QED BY <2>3, <2>4 DEF Book!RankingConsistent, Book!Rivals
<1> QED BY <1>1, <1>2 DEF Book!Next

(* The book of ResultBook is consistent for ever: entries that each rank with *)
(* those there when they are put rank with each other through every later     *)
(* correction, whoever changes the book as its steps allow.                   *)
THEOREM BookStaysConsistent == Book!Spec => []Book!RankingConsistent
<1>1. Book!Init => Book!BookTypeOK /\ Book!RankingConsistent
  BY DEF Book!Init, Book!BookTypeOK, Book!RankingConsistent, Book!Rivals, Book!Blank
<1>2. Book!BookTypeOK /\ Book!RankingConsistent /\ [Book!Next]_result
        => (Book!BookTypeOK /\ Book!RankingConsistent)'
  BY RankingStep
<1> QED BY <1>1, <1>2, PTL DEF Book!Spec

(* The winner of a race has its lowest final time at all times, because the  *)
(* book stays consistent.                                                    *)
THEOREM WinnerAlwaysFastest == Spec => []WinnerIsFastest
<1>1. TypeOK /\ Book!RankingConsistent => WinnerIsFastest
  <2> SUFFICES ASSUME TypeOK, Book!RankingConsistent, NEW r \in Races,
                      NEW j \in Finished(r), NEW k \in Finished(r),
                      result[j].finalPosition = 1
               PROVE  result[j].finalTimeMs <= result[k].finalTimeMs
    BY DEF WinnerIsFastest
  <2>1. /\ j \in Entries /\ k \in Entries /\ j[1] = k[1]
        /\ result[j].status = "FINISHED" /\ result[k].status = "FINISHED"
    BY DEF Finished, EntriesOf
  <2>2. CASE j = k
    <3>1. result[j].finalTimeMs \in Nat
      BY <2>1 DEF TypeOK, StoreTypeOK, ResultRow, NoResult
    <3> QED BY <2>2, <3>1
  <2>3. CASE j # k
    <3>1. Book!RanksWith(result[j], result[k])
      BY <2>1, <2>3 DEF Book!RankingConsistent, Book!Rivals, Book!BookEntries, Entries
    <3> QED BY <3>1 DEF Book!RanksWith
  <2> QED BY <2>2, <2>3
<1> QED BY <1>1, TypeCorrect, ImplementsBook, BookStaysConsistent, PTL
        DEF ImplementsResultBook

-----------------------------------------------------------------------------
(* The phase of the race.                                                    *)

(* A request past its lock has the race in the phase it asked for, and a     *)
(* correction has a result to correct.                                       *)
Phase(work) ==
    work.at \in {"lockingRace", "validating", "saving"} =>
        /\ work.existing # NoResult => result[work.id].status # "NONE"
        /\ work.at = "lockingRace" => work.existing # NoResult
        /\ work.at # "lockingRace" =>
              race[work.id[1]].status \in {"IN_PROGRESS"} \cup
                  (IF work.existing = NoResult THEN {} ELSE {"COMPLETED"})

PhaseInv == ResultInv /\ \A q \in ResultRequests : Phase(resultRequest[q])

(* A result is replaced, never removed. *)
LEMMA ResultsNeverRemoved ==
    ASSUME ResultInv, [Next]_vars, NEW k \in Entries, result[k].status # "NONE"
    PROVE  result'[k].status # "NONE"
<1>1. CASE UNCHANGED result
  BY <1>1
<1>2. CASE ~UNCHANGED result
  <2>1. PICK p \in ResultRequests : CommitResult(p)
    BY <1>2, ResultsChangeOnlyByCommit
  <2>2. StoreTypeOK /\ ResultsTypeOK
    BY DEF ResultInv, LockInv, TypeInv, TypeOK
  <2>3. resultRequest[p].outcome \in ResultRow
    BY <2>1, <2>2, ResultWorkType DEF CommitResult, ResultAt
  <2>4. result' = [result EXCEPT ![resultRequest[p].id] = resultRequest[p].outcome]
    BY <1>2, <2>1 DEF CommitResult, RollbackResult, ResultReadOnly
  <2> QED BY <2>2, <2>3, <2>4 DEF StoreTypeOK, ResultRow, ResultStatus
<1> QED BY <1>1, <1>2

(* While a request waits, its phase stays: races with a lock do not change.  *)
LEMMA PhaseStays ==
    ASSUME PhaseInv, [Next]_vars, NEW q \in ResultRequests,
           resultRequest'[q] = resultRequest[q]
    PROVE  Phase(resultRequest[q])'
<1> DEFINE work == resultRequest[q]
<1>1. CASE work.at \notin {"lockingRace", "validating", "saving"}
  BY <1>1 DEF Phase
<1>2. CASE work.at \in {"lockingRace", "validating", "saving"}
  <2>1. Phase(work) /\ LockInv /\ TypeInv /\ ResultsTypeOK
    BY DEF PhaseInv, ResultInv, LockInv, TypeInv, TypeOK
  <2>2. work.id \in Entries /\ work.id[1] \in Races
    BY <1>2, <2>1, ResultWorkType DEF ResultAt, Entries
  <2>3. work.existing # NoResult => result'[work.id].status # "NONE"
    BY <1>2, <2>1, <2>2, ResultsNeverRemoved DEF Phase, PhaseInv
  <2>4. CASE work.at # "lockingRace"
    <3> DEFINE r == work.id[1]
    <3>1. raceLock[r] = q /\ q # Free
      BY <1>2, <2>1, <2>2, <2>4, StoreAssumption
      DEF LockInv, LocksHeld, ClaimsRace, Requests, StoreAssumption
    <3>2. RaceExists(r)
      BY <1>2, <2>1, <2>4 DEF Phase, RaceExists, RaceStatus
    <3>3. race'[r] = race[r]
      <4>1. CASE RacesNext
        BY <2>1, <2>2, <3>1, <3>2, <4>1, RaceChanges DEF RaceUnlocked
      <4>2. CASE ~RacesNext
        BY <4>2, RegistrationsFrame, ResultsFrame
        DEF Next, Tick, UnchangedByRegistrations, UnchangedByResults, vars, storeVars
      <4> QED BY <4>1, <4>2
    <3> QED BY <1>2, <2>1, <2>3, <2>4, <3>3 DEF Phase
  <2> QED BY <1>2, <2>1, <2>3, <2>4 DEF Phase
<1> QED BY <1>1, <1>2

(* A request enters its phase when it locks the race, and leaves it when its *)
(* transaction ends.                                                         *)
LEMMA PhaseEntered ==
    ASSUME PhaseInv, ResultsNext, NEW q \in ResultRequests,
           resultRequest'[q] # resultRequest[q]
    PROVE  Phase(resultRequest[q])'
<1>1. ResultsTypeOK /\ UNCHANGED race
  BY ResultsFrame DEF PhaseInv, ResultInv, LockInv, TypeInv, TypeOK, UnchangedByResults
<1>2. ASSUME NEW p \in ResultRequests, NEW work, ResultProceed(p, work)
      PROVE  p = q /\ resultRequest'[q] = work
  BY <1>1, <1>2 DEF ResultProceed, ResultsTypeOK
<1>3. ASSUME NEW p \in ResultRequests, ResultProceed(p, ResultIdle)
      PROVE  Phase(resultRequest[q])'
  BY <1>2, <1>3 DEF Phase, ResultIdle
<1>4. ASSUME NEW p \in ResultRequests, NEW k \in Entries, NEW outcome \in Outcomes,
             LockRaceForResult(p, k, outcome)
      PROVE  Phase(resultRequest[q])'
  <2>1. resultRequest'[q] = [at |-> "validating", id |-> k,
                             existing |-> NoResult, outcome |-> outcome]
    BY <1>2, <1>4 DEF LockRaceForResult
  <2>2. race'[k[1]].status = "IN_PROGRESS"
    BY <1>1, <1>4 DEF LockRaceForResult
  <2> QED BY <2>1, <2>2 DEF Phase
<1>5. ASSUME NEW p \in ResultRequests, NEW k \in Entries, NEW outcome \in Outcomes,
             ReadResultForCorrection(p, k, outcome)
      PROVE  Phase(resultRequest[q])'
  <2>1. resultRequest'[q] = [at |-> "lockingRace", id |-> k,
                             existing |-> result[k], outcome |-> outcome]
    BY <1>2, <1>5 DEF ReadResultForCorrection
  <2>2. result'[k].status # "NONE" /\ result[k] # NoResult
    BY <1>5 DEF ReadResultForCorrection, ResultReadOnly, NoResult
  <2> QED BY <2>1, <2>2 DEF Phase
<1>6. ASSUME NEW p \in ResultRequests, ResultStep(p)
      PROVE  Phase(resultRequest[q])'
  <2> DEFINE work == resultRequest[p]
  <2>1. work \in ResultWork /\ Phase(work)
    BY <1>1, <1>6, ResultWorkType
    DEF PhaseInv, ResultStep, LockRaceForCorrection, ValidateResult, CommitResult, ResultAt
  <2>2. \A step : /\ [work EXCEPT !.at = step].id = work.id
                  /\ [work EXCEPT !.at = step].existing = work.existing
                  /\ [work EXCEPT !.at = step].at = step
    BY <2>1 DEF ResultWork
  <2>3. CASE LockRaceForCorrection(p)
    <3>1. CASE ResultProceed(p, ResultIdle)
      BY <1>3, <3>1
    <3>2. CASE ~ResultProceed(p, ResultIdle)
      <4>1. /\ resultRequest'[q] = [work EXCEPT !.at = "validating"]
            /\ race[work.id[1]].status \in {"IN_PROGRESS", "COMPLETED"}
            /\ UNCHANGED result /\ work.at = "lockingRace"
        BY <1>2, <2>3, <3>2
        DEF LockRaceForCorrection, RollbackResult, ResultReadOnly, ResultAt
      <4> HIDE DEF work
      <4> QED BY <1>1, <2>1, <2>2, <4>1 DEF Phase
    <3> QED BY <3>1, <3>2
  <2>4. CASE ValidateResult(p)
    <3>1. CASE ResultProceed(p, ResultIdle)
      BY <1>3, <3>1
    <3>2. CASE ~ResultProceed(p, ResultIdle)
      <4>1. /\ resultRequest'[q] = [work EXCEPT !.at = "saving"]
            /\ UNCHANGED result /\ work.at = "validating"
        BY <1>2, <2>4, <3>2 DEF ValidateResult, RollbackResult, ResultReadOnly, ResultAt
      <4> HIDE DEF work
      <4> QED BY <1>1, <2>1, <2>2, <4>1 DEF Phase
    <3> QED BY <3>1, <3>2
  <2>5. CASE CommitResult(p)
    BY <1>3, <2>5 DEF CommitResult, RollbackResult
  <2> QED BY <1>6, <2>3, <2>4, <2>5 DEF ResultStep
<1> QED BY <1>3, <1>4, <1>5, <1>6 DEF ResultsNext, AbandonResultRequest, RollbackResult

(* Phases are entered under the lock and stay until the transaction ends. *)
LEMMA PhaseInvStep == PhaseInv /\ [Next]_vars => PhaseInv'
<1> SUFFICES ASSUME PhaseInv, [Next]_vars, NEW q \in ResultRequests
             PROVE  Phase(resultRequest[q])'
  BY ResultInvStep DEF PhaseInv
<1>1. CASE resultRequest'[q] = resultRequest[q]
  BY <1>1, PhaseStays
<1>2. CASE resultRequest'[q] # resultRequest[q]
  BY <1>2, PhaseEntered DEF Next, vars
<1> QED BY <1>1, <1>2

(* A first result commits only while its race is in progress, a correction   *)
(* only during or after it, though corrections read their result before they *)
(* lock and organisers complete and cancel races meanwhile.                  *)
THEOREM ResultsKeepToTheirRace == Spec => ResultsOnlyDuringOrAfterRace
<1> DEFINE Kept == \A k \in Entries : result'[k] # result[k] =>
                       \/ race[k[1]].status = "IN_PROGRESS"
                       \/ result[k].status # "NONE" /\ race[k[1]].status = "COMPLETED"
<1>1. PhaseInv /\ [Next]_vars => [Kept]_vars
  <2> SUFFICES ASSUME PhaseInv, [Next]_vars, NEW k \in Entries, result'[k] # result[k]
               PROVE  \/ race[k[1]].status = "IN_PROGRESS"
                      \/ result[k].status # "NONE" /\ race[k[1]].status = "COMPLETED"
    OBVIOUS
  <2>1. PICK p \in ResultRequests : CommitResult(p)
    BY ResultsChangeOnlyByCommit
  <2>2. resultRequest[p].id = k
    BY <2>1 DEF CommitResult, RollbackResult, ResultReadOnly, PhaseInv, ResultInv, LockInv,
                TypeInv, TypeOK, StoreTypeOK
  <2>3. Phase(resultRequest[p]) /\ resultRequest[p].at = "saving"
    BY <2>1 DEF PhaseInv, CommitResult, ResultAt
  <2> QED BY <2>2, <2>3 DEF Phase
<1>2. Init => PhaseInv
  BY ResultInvInit DEF PhaseInv, Init, ResultsInit, ResultIdle, Phase
<1> QED BY <1>1, <1>2, PhaseInvStep, PTL DEF Spec, ResultsOnlyDuringOrAfterRace

-----------------------------------------------------------------------------
Closed == {"REJECTED", "CANCELLED"}

(* What the request described by work has checked, and still relies on: *)
ChecksHold(work) ==
    \* the race of an entry, or of an approval past its second lock, is open;
    /\ work.at \in {"validating", "entering", "checking", "approving"}
       => race[work.id[1]].status = "OPEN_FOR_REGISTRATION"
    \* what approve saves has a position, and its registration is pending still;
    /\ work.at \in {"lockingRace", "checking", "approving"}
       => /\ registration[work.id].status = "PENDING"
          /\ work.entity.status = "APPROVED"
          /\ work.entity.startingPosition # 0
    \* the race of an approval that is about to commit has room for it;
    /\ work.at = "approving" => HasCapacity(work.id[1])
    \* what reject and cancel save ends a registration, and a save that does
    \* not set the status finds a registration that has ended.
    /\ work.at \in {"loading", "writing"} => work.entity.status \in Closed
    /\ work.at = "writing" => \/ "status" \in work.dirty
                              \/ registration[work.id].status \in Closed

RegistrationInv ==
    LockInv /\ \A q \in RegistrationRequests : ChecksHold(registrationRequest[q])

-----------------------------------------------------------------------------
(* How registrations change. *)

(* The three statements that write a registration. *)
Writes(p) == InsertEntry(p) \/ CommitApproval(p) \/ WriteRegistration(p)

(* Every other statement leaves the registrations alone. *)
LEMMA OnlyWritesWrite ==
    ASSUME RegistrationsNext, ~UNCHANGED registration
    PROVE  \E p \in RegistrationRequests : Writes(p)
<1>1. ASSUME NEW p, NEW k, \/ LockRaceForEntry(p, k) \/ RejectRegistration(p, k)
                           \/ CancelRegistration(p, k)
      PROVE  UNCHANGED registration
  BY <1>1 DEF LockRaceForEntry, RejectRegistration, CancelRegistration,
              RegistrationReadOnly
<1>2. ASSUME NEW p, NEW k, NEW position, LockRegistrationForApproval(p, k, position)
      PROVE  UNCHANGED registration
  BY <1>2 DEF LockRegistrationForApproval, RegistrationReadOnly
<1>3. ASSUME NEW p, \/ ValidateEntry(p) \/ LockRaceForApproval(p) \/ CheckApproval(p)
                    \/ LoadRegistration(p) \/ AuditRegistration(p)
                    \/ AbandonRegistrationRequest(p)
      PROVE  UNCHANGED registration
  BY <1>3 DEF ValidateEntry, LockRaceForApproval, CheckApproval, LoadRegistration,
              AuditRegistration, AbandonRegistrationRequest, RollbackRegistration,
              RegistrationReadOnly
<1> QED BY <1>1, <1>2, <1>3 DEF RegistrationsNext, RegistrationStep, Writes

(* As for races: nothing to set, nothing changed. *)
LEMMA UnpatchedRegistration ==
    ASSUME NEW row \in RegistrationRow, NEW entity
    PROVE  PatchedRegistration(row, entity, {}) = row
BY DEF PatchedRegistration, RegistrationRow

(* What each of them writes, and where. *)
LEMMA WriteShape ==
    ASSUME RegistrationInv, NEW p \in RegistrationRequests, Writes(p)
    PROVE  LET k == registrationRequest[p].id
           IN  /\ k \in Entries
               /\ \A j \in Entries \ {k} : registration'[j] = registration[j]
               /\ registration'[k] # registration[k] =>
                    \/ /\ registrationRequest[p].at = "entering"
                       /\ registration[k].status = "NONE"
                       /\ registration'[k] = Pending
                    \/ /\ registrationRequest[p].at = "approving"
                       /\ registration'[k] = registrationRequest[p].entity
                    \/ /\ registrationRequest[p].at = "writing"
                       /\ RegistrationUnlocked(k)
                       /\ registration[k].status # "NONE"
                       /\ registration'[k].status \in Closed
<1> DEFINE work == registrationRequest[p]
           k == work.id
<1>1. StoreTypeOK /\ RegistrationsTypeOK /\ SavesExist
  BY DEF RegistrationInv, LockInv, TypeInv, TypeOK
<1>2. k \in Entries /\ work.entity \in RegistrationRow
  BY <1>1, RegistrationWorkType
  DEF Writes, InsertEntry, CommitApproval, WriteRegistration, RegistrationAt
<1>3. CASE InsertEntry(p)
  BY <1>1, <1>2, <1>3
  DEF InsertEntry, CommitRegistration, RollbackRegistration, RegistrationReadOnly,
      RegistrationAt, StoreTypeOK
<1>4. CASE CommitApproval(p)
  BY <1>1, <1>2, <1>4
  DEF CommitApproval, CommitRegistration, RollbackRegistration, RegistrationReadOnly,
      RegistrationAt, StoreTypeOK
<1>5. CASE WriteRegistration(p)
  <2> DEFINE row == PatchedRegistration(registration[k], work.entity, work.dirty)
  <2>1. registration[k].status # "NONE" /\ work.at = "writing"
    BY <1>1, <1>5 DEF WriteRegistration, SavesExist, SavingSteps, RegistrationAt
  <2>2. registration[k] \in RegistrationRow
    BY <1>1, <1>2, <2>1, ExistingRegistration
  <2>3. row.status \in Closed
    BY <2>1 DEF PatchedRegistration, RegistrationInv, ChecksHold
  <2>4. work.dirty = {} => row = registration[k]
    BY <2>2, UnpatchedRegistration
  <2>5. UNCHANGED registration \/ registration' = [registration EXCEPT ![k] = row]
    BY <1>5 DEF WriteRegistration
  <2>6. work.dirty = {} \/ RegistrationUnlocked(k)
    BY <1>5 DEF WriteRegistration
  <2> HIDE DEF row
  <2> QED BY <1>1, <1>2, <2>1, <2>3, <2>4, <2>5, <2>6 DEF StoreTypeOK
<1> QED BY <1>2, <1>3, <1>4, <1>5 DEF Writes

(* What the write of p leaves as it was, as another request q sees it. *)
LEMMA WriteSparesOthers ==
    ASSUME RegistrationInv, NEW p \in RegistrationRequests, Writes(p),
           NEW q \in RegistrationRequests, p # q
    PROVE  LET k == registrationRequest[q].id
           IN  /\ registrationRequest[q].at \in {"lockingRace", "checking", "approving"}
                    => registration'[k] = registration[k]
               /\ registrationRequest[q].at = "writing" /\ registration[k].status \in Closed
                    => registration'[k].status \in Closed
               /\ registrationRequest[q].at = "approving"
                    => \A r \in Races : r = k[1] => Approved(r)' \subseteq Approved(r)
<1> DEFINE mine == registrationRequest[p].id
           k == registrationRequest[q].id
<1>1. /\ RegistrationsTypeOK /\ LocksHeld
      /\ ChecksHold(registrationRequest[p]) /\ ChecksHold(registrationRequest[q])
      /\ p \in Requests /\ q \in Requests /\ q # Free
  BY StoreAssumption
  DEF RegistrationInv, LockInv, TypeInv, TypeOK, Requests, StoreAssumption
<1>2. mine \in Entries
  BY WriteShape
<1>3. registrationRequest[q].at \in {"lockingRace", "checking", "approving", "writing"}
        => k \in Entries /\ k[1] \in Races
  BY <1>1, RegistrationWorkType DEF RegistrationAt
<1>4. ASSUME registrationRequest[q].at \in {"lockingRace", "checking", "approving"}
      PROVE  registration'[k] = registration[k]
  <2>1. registrationLock[k] = q /\ registration[k].status = "PENDING"
    BY <1>1, <1>3, <1>4 DEF LocksHeld, ClaimsRegistration, ChecksHold
  <2>2. registrationRequest[p].at = "approving" => registrationLock[mine] = p
    BY <1>1, <1>2 DEF LocksHeld, ClaimsRegistration
  <2> QED BY <1>1, <1>3, <1>4, <2>1, <2>2, WriteShape DEF RegistrationUnlocked
<1>5. ASSUME registrationRequest[q].at = "writing", registration[k].status \in Closed
      PROVE  registration'[k].status \in Closed
  <2>1. registrationRequest[p].at = "approving" => registration[mine].status = "PENDING"
    BY <1>1 DEF ChecksHold
  <2> QED BY <1>3, <1>5, <2>1, WriteShape DEF Closed
<1>6. ASSUME registrationRequest[q].at = "approving", NEW r \in Races, r = k[1]
      PROVE  Approved(r)' \subseteq Approved(r)
  <2>1. raceLock[r] = q
    BY <1>1, <1>3, <1>6 DEF LocksHeld, ClaimsRace
  <2>2. registrationRequest[p].at = "approving" => raceLock[mine[1]] = p
    <3>1. mine[1] \in Races
      BY <1>2 DEF Entries
    <3> QED BY <1>1, <3>1 DEF LocksHeld, ClaimsRace
  <2>3. ASSUME NEW j \in EntriesOf(r), registration'[j] # registration[j]
        PROVE  registration'[j].status # "APPROVED"
    <3>1. j = mine /\ j \in Entries
      BY <2>3, WriteShape DEF EntriesOf
    <3>2. registrationRequest[p].at # "approving"
      BY <1>1, <2>1, <2>2, <2>3, <3>1 DEF EntriesOf
    <3> QED BY <2>3, <3>1, <3>2, WriteShape DEF Pending, Closed
  <2> QED BY <2>3 DEF Approved, EntriesOf
<1> QED BY <1>4, <1>5, <1>6

-----------------------------------------------------------------------------
(* The invariant is kept. *)

(* What other services and the clock do leaves every check standing: they   *)
(* write no registration, and no race whose row is locked.                  *)
LEMMA OutsideKeepsChecks ==
    ASSUME RegistrationInv, UNCHANGED <<registration, registrationRequest>>,
           \A r \in Races : RaceExists(r) /\ ~RaceUnlocked(r) => race'[r] = race[r],
           NEW q \in RegistrationRequests
    PROVE  ChecksHold(registrationRequest[q])'
<1> DEFINE work == registrationRequest[q]
<1>1. ChecksHold(work) /\ LocksHeld /\ RegistrationsTypeOK /\ q \in Requests /\ q # Free
  BY StoreAssumption
  DEF RegistrationInv, LockInv, TypeInv, TypeOK, Requests, StoreAssumption
<1>2. work.at \in {"validating", "entering", "checking", "approving"}
        => work.id[1] \in Races /\ race'[work.id[1]] = race[work.id[1]]
  <2> SUFFICES ASSUME work.at \in {"validating", "entering", "checking", "approving"}
               PROVE  work.id[1] \in Races /\ race'[work.id[1]] = race[work.id[1]]
    OBVIOUS
  <2>1. work.id[1] \in Races
    BY <1>1, RegistrationWorkType DEF RegistrationAt
  <2>2. RaceExists(work.id[1])
    BY <1>1 DEF ChecksHold, RaceExists, RaceStatus
  <2>3. raceLock[work.id[1]] = q
    BY <1>1, <2>1 DEF LocksHeld, ClaimsRace
  <2> QED BY <1>1, <2>1, <2>2, <2>3 DEF RaceUnlocked
<1> QED BY <1>1, <1>2 DEF ChecksHold, HasCapacity, Approved

(* A step of one request leaves the checks of the others standing.          *)
LEMMA OthersKeepChecks ==
    ASSUME RegistrationInv, UNCHANGED race, NEW p \in RegistrationRequests, NEW next,
           RegistrationProceed(p, next), Writes(p) \/ UNCHANGED registration,
           NEW q \in RegistrationRequests, p # q
    PROVE  ChecksHold(registrationRequest[q])'
<1> DEFINE work == registrationRequest[q]
<1>1. ChecksHold(work) /\ StoreTypeOK /\ RegistrationsTypeOK
  BY DEF RegistrationInv, LockInv, TypeInv, TypeOK
<1>2. registrationRequest'[q] = work
  BY <1>1 DEF RegistrationProceed, RegistrationsTypeOK
<1>3. CASE UNCHANGED registration
  BY <1>1, <1>2, <1>3 DEF ChecksHold, HasCapacity, Approved
<1>4. CASE Writes(p)
  <2>1. work.at = "approving" => HasCapacity(work.id[1])'
    <3> SUFFICES ASSUME work.at = "approving" PROVE HasCapacity(work.id[1])'
      OBVIOUS
    <3>1. PICK r \in Races : r = work.id[1]
      BY <1>1, RegistrationWorkType DEF RegistrationAt
    <3>2. Approved(r)' \subseteq Approved(r)
      BY <1>4, <3>1, WriteSparesOthers
    <3>3. /\ Cardinality(Approved(r)') \in Nat /\ Cardinality(Approved(r)) \in Nat
          /\ Cardinality(Approved(r)') <= Cardinality(Approved(r))
      BY <3>2, CountIsNat, FS_Subset DEF Approved
    <3>4. HasCapacity(r) /\ RaceExists(r)
      BY <1>1, <3>1 DEF ChecksHold, RaceExists, RaceStatus
    <3>5. race[r].maxParticipants \in Nat
      BY <1>1, <3>4, ExistingRace DEF RaceRow
    <3> QED BY <1>2, <3>1, <3>3, <3>4, <3>5 DEF HasCapacity
  <2>2. /\ work.at \in {"lockingRace", "checking", "approving"}
             => registration'[work.id] = registration[work.id]
        /\ work.at = "writing" /\ registration[work.id].status \in Closed
             => registration'[work.id].status \in Closed
    BY <1>4, WriteSparesOthers
  <2> QED BY <1>1, <1>2, <2>1, <2>2 DEF ChecksHold
<1> QED BY <1>3, <1>4

(* A request that ends, or goes on to what it has checked, keeps them all.  *)
LEMMA RegistrationGoesOnChecked ==
    ASSUME RegistrationInv, UNCHANGED race, NEW p \in RegistrationRequests, NEW next,
           RegistrationProceed(p, next), Writes(p) \/ UNCHANGED registration,
           \/ next.at \in {"idle", "auditing"}
           \/ UNCHANGED registration /\ ChecksHold(next)
    PROVE  \A q \in RegistrationRequests : ChecksHold(registrationRequest[q])'
<1>1. registrationRequest'[p] = next
  BY DEF RegistrationInv, LockInv, TypeInv, TypeOK, RegistrationProceed,
         RegistrationsTypeOK
<1>2. ChecksHold(registrationRequest[p])'
  BY <1>1 DEF ChecksHold, HasCapacity, Approved
<1> QED BY <1>2, OthersKeepChecks

(* Beginning: reject and cancel are about to end a registration; the other   *)
(* two checked what they rely on in the statement that took the lock.        *)
LEMMA BeginChecked ==
    ASSUME RegistrationInv, UNCHANGED race, NEW p \in RegistrationRequests,
           NEW k \in Entries,
           \/ LockRaceForEntry(p, k)
           \/ \E position \in Positions : LockRegistrationForApproval(p, k, position)
           \/ RejectRegistration(p, k)
           \/ CancelRegistration(p, k)
    PROVE  \A q \in RegistrationRequests : ChecksHold(registrationRequest[q])'
<1>1. CASE LockRaceForEntry(p, k)
  <2>1. ChecksHold(RegistrationTask("validating", k, Pending))
    BY <1>1 DEF LockRaceForEntry, RegistrationWindowOpen, RegistrationTask, ChecksHold
  <2> QED BY <1>1, <2>1, RegistrationGoesOnChecked
          DEF LockRaceForEntry, RegistrationReadOnly
<1>2. CASE \E position \in Positions : LockRegistrationForApproval(p, k, position)
  <2>1. PICK position \in Positions : LockRegistrationForApproval(p, k, position)
    BY <1>2
  <2> DEFINE entity == [status |-> "APPROVED", startingPosition |-> position]
  <2>2. ChecksHold(RegistrationTask("lockingRace", k, entity))
    BY <2>1, StoreAssumption
    DEF LockRegistrationForApproval, RegistrationTask, ChecksHold, StoreAssumption
  <2> QED BY <2>1, <2>2, RegistrationGoesOnChecked
          DEF LockRegistrationForApproval, RegistrationReadOnly
<1>3. CASE RejectRegistration(p, k) \/ CancelRegistration(p, k)
  <2>1. registration[k] \in RegistrationRow
    BY <1>3, ExistingRegistration
    DEF RejectRegistration, CancelRegistration, RegistrationInv, LockInv, TypeInv, TypeOK
  <2>2. \A status \in Closed :
            [registration[k] EXCEPT !.status = status].status = status
    BY <2>1 DEF RegistrationRow
  <2>3. \A status \in Closed :
            ChecksHold(RegistrationTask("loading", k,
                           [registration[k] EXCEPT !.status = status]))
    BY <2>2 DEF RegistrationTask, ChecksHold
  <2>4. "REJECTED" \in Closed /\ "CANCELLED" \in Closed
    BY DEF Closed
  <2> QED BY <1>3, <2>3, <2>4, RegistrationGoesOnChecked
          DEF RejectRegistration, CancelRegistration, RegistrationReadOnly
<1> QED BY <1>1, <1>2, <1>3

(* Ending, by any of the ways there are. *)
LEMMA EndChecked ==
    ASSUME RegistrationInv, UNCHANGED race, NEW p \in RegistrationRequests,
           \/ RollbackRegistration(p) \/ Writes(p) \/ AuditRegistration(p)
    PROVE  \A q \in RegistrationRequests : ChecksHold(registrationRequest[q])'
<1>1. \E next : /\ RegistrationProceed(p, next)
                /\ next.at \in {"idle", "auditing"}
                /\ Writes(p) \/ UNCHANGED registration
  BY DEF RollbackRegistration, RegistrationReadOnly, Writes, InsertEntry, CommitApproval,
         CommitRegistration, WriteRegistration, AuditRegistration, RegistrationFinish,
         RegistrationIdle, RegistrationTask
<1> QED BY <1>1, RegistrationGoesOnChecked

(* Going on inside a transaction, or from the SELECT of a save to its UPDATE. *)
LEMMA StepChecked ==
    ASSUME RegistrationInv, UNCHANGED race, NEW p \in RegistrationRequests,
           RegistrationStep(p)
    PROVE  \A q \in RegistrationRequests : ChecksHold(registrationRequest[q])'
<1> DEFINE work == registrationRequest[p]
<1>1. RegistrationsTypeOK /\ StoreTypeOK /\ ChecksHold(work)
  BY DEF RegistrationInv, LockInv, TypeInv, TypeOK
<1>2. CASE Writes(p) \/ AuditRegistration(p)
  BY <1>2, EndChecked
<1>3. ASSUME ValidateEntry(p) \/ LockRaceForApproval(p) \/ CheckApproval(p)
             \/ LoadRegistration(p)
      PROVE  work \in RegistrationWork
  BY <1>1, <1>3, RegistrationWorkType
  DEF ValidateEntry, LockRaceForApproval, CheckApproval, LoadRegistration, RegistrationAt
<1>4. ASSUME work \in RegistrationWork, NEW step,
             RegistrationProceed(p, [work EXCEPT !.at = step]),
             UNCHANGED registration, ChecksHold([work EXCEPT !.at = step])
      PROVE  \A q \in RegistrationRequests : ChecksHold(registrationRequest[q])'
  BY <1>4, RegistrationGoesOnChecked
<1>5. CASE ValidateEntry(p)
  <2>1. ChecksHold([work EXCEPT !.at = "entering"])
    BY <1>1, <1>3, <1>5 DEF ValidateEntry, RegistrationAt, ChecksHold, RegistrationWork
  <2> QED BY <1>3, <1>4, <1>5, <2>1, EndChecked DEF ValidateEntry, RegistrationReadOnly
<1>6. CASE LockRaceForApproval(p)
  <2>1. RegistrationWindowOpen(race[work.id[1]])
          => ChecksHold([work EXCEPT !.at = "checking"])
    BY <1>1, <1>3, <1>6
    DEF LockRaceForApproval, RegistrationAt, ChecksHold, RegistrationWork,
        RegistrationWindowOpen
  <2> QED BY <1>3, <1>4, <1>6, <2>1, EndChecked
          DEF LockRaceForApproval, RegistrationReadOnly
<1>7. CASE CheckApproval(p)
  <2>1. HasCapacity(work.id[1]) => ChecksHold([work EXCEPT !.at = "approving"])
    BY <1>1, <1>3, <1>7
    DEF CheckApproval, RegistrationAt, ChecksHold, RegistrationWork
  <2> QED BY <1>3, <1>4, <1>7, <2>1, EndChecked DEF CheckApproval, RegistrationReadOnly
<1>8. CASE LoadRegistration(p)
  <2> DEFINE dirty == DifferingRegistration(registration[work.id], work.entity)
             next == [work EXCEPT !.at = "writing", !.dirty = dirty]
  <2>1. work.at = "loading" /\ work \in RegistrationWork
    BY <1>3, <1>8 DEF LoadRegistration, RegistrationAt
  <2>2. work.entity.status \in Closed
    BY <1>1, <2>1 DEF ChecksHold
  <2>3. "status" \in dirty \/ registration[work.id].status \in Closed
    BY <2>2 DEF DifferingRegistration, RegistrationColumns
  <2>4. /\ next.at = "writing" /\ next.dirty = dirty
        /\ next.id = work.id /\ next.entity = work.entity
    BY <2>1 DEF RegistrationWork
  <2>5. RegistrationProceed(p, next) /\ UNCHANGED registration
    BY <1>8 DEF LoadRegistration, RegistrationReadOnly
  <2> HIDE DEF next, dirty
  <2>6. ChecksHold(next)
    BY <2>2, <2>3, <2>4 DEF ChecksHold
  <2> QED BY <2>5, <2>6, RegistrationGoesOnChecked
<1> QED BY <1>2, <1>5, <1>6, <1>7, <1>8 DEF RegistrationStep, Writes

(* No request has checked anything yet. *)
LEMMA RegistrationInvInit == Init => RegistrationInv
<1> SUFFICES ASSUME Init PROVE RegistrationInv
  OBVIOUS
<1>1. LockInv
  BY LockInvInit
<1>2. \A q \in RegistrationRequests : registrationRequest[q].at = "idle"
  BY DEF Init, RegistrationsInit, RegistrationIdle
<1> QED BY <1>1, <1>2 DEF RegistrationInv, ChecksHold

(* What was checked stays so, whoever moves. *)
LEMMA RegistrationInvStep == RegistrationInv /\ [Next]_vars => RegistrationInv'
<1> SUFFICES ASSUME RegistrationInv, [Next]_vars PROVE RegistrationInv'
  OBVIOUS
<1>1. LockInv'
  BY LockInvStep DEF RegistrationInv
<1>2. \A q \in RegistrationRequests : ChecksHold(registrationRequest[q])'
  <2>1. CASE UNCHANGED <<race, registration, registrationRequest>>
    BY <2>1, OutsideKeepsChecks
  <2>2. CASE Tick /\ UNCHANGED <<raceRequest, registrationRequest, resultRequest>>
    BY <2>1, <2>2 DEF Tick
  <2>3. CASE RacesNext /\ UNCHANGED <<registrationRequest, resultRequest>>
    <3>1. TypeInv
      BY DEF RegistrationInv, LockInv
    <3>2. UNCHANGED registration
      BY <2>3, RacesFrame DEF UnchangedByRaces
    <3> QED BY <2>3, <3>1, <3>2, RaceChanges, OutsideKeepsChecks
  <2>4. CASE RegistrationsNext /\ UNCHANGED <<raceRequest, resultRequest>>
    <3>1. UNCHANGED race
      BY <2>4, RegistrationsFrame DEF UnchangedByRegistrations
    <3> QED BY <2>4, <3>1, BeginChecked, StepChecked, EndChecked
            DEF RegistrationsNext, AbandonRegistrationRequest
  <2>5. CASE ResultsNext /\ UNCHANGED <<raceRequest, registrationRequest>>
    BY <2>1, <2>5, ResultsFrame DEF UnchangedByResults
  <2>6. CASE UNCHANGED vars
    BY <2>1, <2>6 DEF vars, storeVars
  <2> QED BY <2>2, <2>3, <2>4, <2>5, <2>6 DEF Next
<1> QED BY <1>1, <1>2 DEF RegistrationInv

-----------------------------------------------------------------------------
(* What can happen to a registration in one step. *)

(* It is entered, approved or ended, and it is the only one that changes. *)
LEMMA RegistrationChanges ==
    ASSUME RegistrationInv, [Next]_vars, NEW k \in Entries,
           registration'[k] # registration[k]
    PROVE  /\ UNCHANGED race
           /\ \A j \in Entries \ {k} : registration'[j] = registration[j]
           /\ \/ /\ registration[k].status = "NONE"
                 /\ registration'[k] = Pending
                 /\ race[k[1]].status = "OPEN_FOR_REGISTRATION"
              \/ /\ registration[k].status = "PENDING"
                 /\ registration'[k].status = "APPROVED"
                 /\ registration'[k].startingPosition # 0
                 /\ race[k[1]].status = "OPEN_FOR_REGISTRATION"
                 /\ HasCapacity(k[1])
              \/ /\ registration[k].status # "NONE"
                 /\ registration'[k].status \in Closed
<1>1. ~UNCHANGED registration
  OBVIOUS
<1>2. RegistrationsNext
  BY <1>1, RacesFrame, ResultsFrame
  DEF Next, Tick, UnchangedByRaces, UnchangedByResults, vars, storeVars
<1>3. UNCHANGED race
  BY <1>2, RegistrationsFrame DEF UnchangedByRegistrations
<1>4. PICK p \in RegistrationRequests : Writes(p)
  BY <1>1, <1>2, OnlyWritesWrite
<1> DEFINE work == registrationRequest[p]
<1>5. work.id = k
  BY <1>4, WriteShape
<1>6. ChecksHold(work)
  BY DEF RegistrationInv
<1>7. CASE work.at = "entering"
  BY <1>3, <1>4, <1>5, <1>6, <1>7, WriteShape DEF ChecksHold
<1>8. CASE work.at = "approving"
  BY <1>3, <1>4, <1>5, <1>6, <1>8, WriteShape DEF ChecksHold
<1>9. CASE work.at = "writing"
  BY <1>3, <1>4, <1>5, <1>9, WriteShape
<1> QED BY <1>4, <1>5, <1>7, <1>8, <1>9, WriteShape

(* A position it is given is one that no other entry of its race has. *)
LEMMA NewPositionIsFree ==
    ASSUME RegistrationInv, [Next]_vars, NEW k \in Entries,
           registration'[k] # registration[k],
           registration'[k].startingPosition # 0,
           NEW j \in EntriesOf(k[1]) \ {k}
    PROVE  registration[j].startingPosition # registration'[k].startingPosition
<1>1. ~UNCHANGED registration /\ StoreTypeOK
  BY DEF RegistrationInv, LockInv, TypeInv, TypeOK
<1>2. RegistrationsNext
  BY <1>1, RacesFrame, ResultsFrame
  DEF Next, Tick, UnchangedByRaces, UnchangedByResults, vars, storeVars
<1>3. PICK p \in RegistrationRequests : Writes(p)
  BY <1>1, <1>2, OnlyWritesWrite
<1> DEFINE work == registrationRequest[p]
<1>4. work.id = k
  BY <1>3, WriteShape
<1>5. CASE InsertEntry(p)
  BY <1>1, <1>4, <1>5
  DEF InsertEntry, CommitRegistration, RollbackRegistration, RegistrationReadOnly,
      Pending, StoreTypeOK
<1>6. CASE CommitApproval(p)
  BY <1>1, <1>4, <1>6
  DEF CommitApproval, CommitRegistration, RollbackRegistration, RegistrationReadOnly,
      StartingPositionIndex, StoreTypeOK
<1>7. CASE WriteRegistration(p)
  <2> DEFINE row == PatchedRegistration(registration[k], work.entity, work.dirty)
  <2>1. /\ StartingPositionIndex(k, row.startingPosition)
        /\ registration' = [registration EXCEPT ![k] = row]
    BY <1>1, <1>4, <1>7 DEF WriteRegistration
  <2> HIDE DEF row
  <2> QED BY <1>1, <2>1 DEF StartingPositionIndex, StoreTypeOK
<1> QED BY <1>3, <1>5, <1>6, <1>7 DEF Writes

-----------------------------------------------------------------------------
(* What follows from it: the action properties. *)

(* Whatever other requests do in between, a race takes an entry only while   *)
(* it is open at the moment the row commits.                                 *)
THEOREM EntriesOnlyInOpenRaces == Spec => EntryOnlyWhileOpen
<1>1. RegistrationInv /\ [Next]_vars =>
        [\A k \in Entries :
           registration[k].status = "NONE" /\ registration'[k].status # "NONE"
           => race[k[1]].status = "OPEN_FOR_REGISTRATION"]_vars
  BY RegistrationChanges DEF Closed
<1> QED BY <1>1, RegistrationInvInit, RegistrationInvStep, PTL
        DEF Spec, EntryOnlyWhileOpen

(* A registration becomes approved only from pending, and in an open race:   *)
(* no stale save of reject or cancel ever approves one.                      *)
THEOREM ApprovalsChecked == Spec => ApprovalFromPendingWhileOpen
<1>1. RegistrationInv /\ [Next]_vars =>
        [\A k \in Entries : Approves(k) =>
           /\ registration[k].status = "PENDING"
           /\ race[k[1]].status = "OPEN_FOR_REGISTRATION"]_vars
  BY RegistrationChanges DEF Approves, Pending, Closed
<1> QED BY <1>1, RegistrationInvInit, RegistrationInvStep, PTL
        DEF Spec, ApprovalFromPendingWhileOpen

(* One approval takes one place, and there was one. *)
LEMMA ApprovalTakesOnePlace ==
    ASSUME RegistrationInv, [Next]_vars, NEW k \in Entries, Approves(k)
    PROVE  Cardinality(Approved(k[1]))' <= race[k[1]].maxParticipants
<1> DEFINE r == k[1]
<1>1. r \in Races
  BY DEF Entries
<1>2. HasCapacity(r) /\ RaceExists(r)
  BY RegistrationChanges
  DEF Approves, Pending, Closed, RaceExists, RaceStatus
<1>3. Approved(r)' \subseteq Approved(r) \cup {k}
  BY RegistrationChanges DEF Approves, Approved, EntriesOf
<1>4. /\ IsFiniteSet(Approved(r) \cup {k})
      /\ Cardinality(Approved(r) \cup {k}) <= Cardinality(Approved(r)) + 1
      /\ Cardinality(Approved(r)) \in Nat
  <2>1. IsFiniteSet(Approved(r)) /\ Cardinality(Approved(r)) \in Nat
    BY <1>1, CountIsNat DEF Approved
  <2>2. k \notin Approved(r)
    BY DEF Approves, Approved
  <2>3. /\ IsFiniteSet(Approved(r) \cup {k})
        /\ Cardinality(Approved(r) \cup {k}) = Cardinality(Approved(r)) + 1
    BY <2>1, <2>2, FS_AddElement, Zenon
  <2> QED BY <2>1, <2>3
<1>5. /\ Cardinality(Approved(r)') <= Cardinality(Approved(r) \cup {k})
      /\ Cardinality(Approved(r)') \in Nat
      /\ Cardinality(Approved(r) \cup {k}) \in Nat
  BY <1>3, <1>4, FS_Subset, FS_CardinalityType
<1>6. race[r].maxParticipants \in Nat
  BY <1>1, <1>2, ExistingRace DEF RegistrationInv, LockInv, TypeInv, TypeOK, RaceRow
<1> QED BY <1>2, <1>4, <1>5, <1>6 DEF HasCapacity

(* Approvals that run at the same time never take a race above its capacity. *)
THEOREM ApprovalsFit == Spec => ApprovalWithinCapacity
<1>1. RegistrationInv /\ [Next]_vars =>
        [\A k \in Entries : Approves(k) =>
           Cardinality(Approved(k[1]))' <= race[k[1]].maxParticipants]_vars
  BY ApprovalTakesOnePlace
<1> QED BY <1>1, RegistrationInvInit, RegistrationInvStep, PTL
        DEF Spec, ApprovalWithinCapacity

(* A registration that stays approved keeps its place on the grid. *)
THEOREM GridStaysStable == Spec => GridIsStable
<1>1. RegistrationInv /\ [Next]_vars =>
        [\A k \in Entries :
           registration[k].status = "APPROVED" /\ registration'[k].status = "APPROVED"
           => registration'[k].startingPosition = registration[k].startingPosition]_vars
  BY RegistrationChanges DEF Pending, Closed
<1> QED BY <1>1, RegistrationInvInit, RegistrationInvStep, PTL DEF Spec, GridIsStable

-----------------------------------------------------------------------------
(* The refinement: every step of the system changes one entry of the grid as *)
(* StartingGrid allows, changes what races admit, or leaves both alone.      *)

(* The rows of the store and of the grid are the same. *)
LEMMA GridTypes == StoreTypeOK => Grid!GridTypeOK
<1> SUFFICES ASSUME StoreTypeOK PROVE Grid!GridTypeOK
  OBVIOUS
<1>1. registration \in [Grid!GridEntries -> Grid!GridRow \cup {Grid!Absent}]
  BY DEF StoreTypeOK, Entries, RegistrationRow, RegistrationStatus, NoRegistration,
         Grid!GridEntries, Grid!GridRow, Grid!Absent
<1>2. ASSUME NEW r \in Races PROVE Admitted[r] \in Nat
  BY ExistingRace DEF Admitted, RaceExists, RaceStatus, RaceRow
<1>3. Admitted \in [Races -> Nat]
  BY <1>2 DEF Admitted
<1> QED BY <1>1, <1>3 DEF Grid!GridTypeOK

(* StartingGrid counts as the store does. *)
LEMMA CountOnGrid == \A S : Grid!Cardinality(S) = Cardinality(S)
BY DEF Grid!Cardinality, Cardinality

(* A registration that changes is entered, approved or ended on the grid. *)
LEMMA ChangeIsGridStep ==
    ASSUME RegistrationInv, RegistrationInv', [Next]_vars, NEW k \in Entries,
           registration'[k] # registration[k]
    PROVE  Grid!Next
<1> DEFINE row == registration'[k]
<1>1. StoreTypeOK /\ StoreTypeOK' /\ k \in Grid!GridEntries /\ k[1] \in Races
  BY DEF RegistrationInv, LockInv, TypeInv, TypeOK, Entries, Grid!GridEntries
<1>2. registration' = [registration EXCEPT ![k] = row] /\ UNCHANGED Admitted
  <2>1. \A j \in Entries \ {k} : registration'[j] = registration[j]
    BY RegistrationChanges
  <2>2. UNCHANGED race
    BY RegistrationChanges
  <2> QED BY <1>1, <2>1, <2>2 DEF StoreTypeOK, Admitted
<1>3. Grid!Become(k, row)
  BY <1>2 DEF Grid!Become
<1>4. row.startingPosition # 0 => Grid!IsFree(k, row.startingPosition)
  BY NewPositionIsFree DEF Grid!IsFree, Grid!GridEntries, EntriesOf, Entries
<1>5. row \in Grid!GridRow \cup {Grid!Absent} /\ row # Grid!Absent
  <2>1. row \in Grid!GridRow \cup {Grid!Absent}
    <3>1. Grid!GridTypeOK'
      BY <1>1, GridTypes, PTL
    <3> QED BY <1>1, <3>1 DEF Grid!GridTypeOK
  <2>2. row.status # "NONE"
    BY RegistrationChanges DEF Pending, Closed
  <2> QED BY <2>1, <2>2 DEF Grid!Absent
<1>6. race[k[1]].status = "OPEN_FOR_REGISTRATION"
        => Admitted[k[1]] = race[k[1]].maxParticipants
  BY <1>1 DEF Admitted
<1>7. CASE registration[k].status = "NONE" /\ row = Pending
           /\ race[k[1]].status = "OPEN_FOR_REGISTRATION"
  <2>1. Admitted[k[1]] > 0
    BY <1>1, <1>6, <1>7, ExistingRace DEF RaceExists, RaceStatus, RaceRow
  <2>2. Grid!Enter(k)
    BY <1>3, <1>7, <2>1 DEF Grid!Enter, Grid!Entered, Pending
  <2> QED BY <1>1, <2>2 DEF Grid!Next
<1>8. CASE /\ registration[k].status = "PENDING" /\ row.status = "APPROVED"
           /\ row.startingPosition # 0 /\ HasCapacity(k[1])
           /\ race[k[1]].status = "OPEN_FOR_REGISTRATION"
  <2>1. Approved(k[1]) = Grid!ApprovedOn(k[1])
    BY DEF Approved, EntriesOf, Entries, Grid!ApprovedOn, Grid!GridEntries
  <2>2. Grid!Cardinality(Grid!ApprovedOn(k[1])) < Admitted[k[1]]
    BY <1>6, <1>8, <2>1, CountOnGrid DEF HasCapacity
  <2>3. Grid!Approve(k)
    BY <1>3, <1>4, <1>5, <1>8, <2>2 DEF Grid!Approve
  <2> QED BY <1>1, <2>3 DEF Grid!Next
<1>9. CASE registration[k].status # "NONE" /\ row.status \in Closed
  <2>1. Grid!End(k)
    BY <1>3, <1>4, <1>5, <1>9 DEF Grid!End, Grid!Ended, Closed
  <2> QED BY <1>1, <2>1 DEF Grid!Next
<1> QED BY <1>7, <1>8, <1>9, RegistrationChanges

(* Every step of the system is a step of the grid or leaves it alone. *)
LEMMA GridStep ==
    RegistrationInv /\ RegistrationInv' /\ [Next]_vars
      => [Grid!Next]_<<registration, Admitted>>
<1> SUFFICES ASSUME RegistrationInv, RegistrationInv', [Next]_vars
             PROVE  Grid!Next \/ UNCHANGED <<registration, Admitted>>
  OBVIOUS
<1>1. StoreTypeOK /\ StoreTypeOK'
  BY DEF RegistrationInv, LockInv, TypeInv, TypeOK
<1>2. CASE \E k \in Entries : registration'[k] # registration[k]
  BY <1>2, ChangeIsGridStep
<1>3. CASE \A k \in Entries : registration'[k] = registration[k]
  <2>1. UNCHANGED registration
    BY <1>1, <1>3 DEF StoreTypeOK
  <2>2. Admitted' \in [Races -> Nat]
    <3>1. Grid!GridTypeOK'
      BY <1>1, GridTypes, PTL
    <3> QED BY <3>1 DEF Grid!GridTypeOK
  <2> QED BY <2>1, <2>2 DEF Grid!Next, Grid!Organise
<1> QED BY <1>2, <1>3

(* No registration yet: the empty grid. *)
LEMMA GridInit == Init => Grid!Init
<1> SUFFICES ASSUME Init PROVE Grid!Init
  OBVIOUS
<1>1. registration = [k \in Grid!GridEntries |-> Grid!Absent]
  BY DEF Init, StoreInit, NoRegistration, Entries, Grid!GridEntries, Grid!Absent
<1>2. Admitted \in [Races -> Nat]
  BY RegistrationInvInit, GridTypes
  DEF RegistrationInv, LockInv, TypeInv, TypeOK, Grid!GridTypeOK
<1> QED BY <1>1, <1>2 DEF Grid!Init

(* RegistrationsService implements StartingGrid: entries, approvals under    *)
(* two locks and saves of stale rows act on the registrations as single      *)
(* steps, between which organisers only change what a race admits.           *)
THEOREM ImplementsGrid == Spec => ImplementsStartingGrid
<1> QED BY GridInit, GridStep, RegistrationInvInit, RegistrationInvStep, PTL
        DEF Spec, ImplementsStartingGrid, Grid!Spec

-----------------------------------------------------------------------------
(* What the grid promises. *)

(* A new position is free, so none is shared, and an approval brings one.    *)
LEMMA ConsistentStep ==
    ASSUME Grid!GridTypeOK, Grid!GridConsistent, [Grid!Next]_<<registration, Admitted>>
    PROVE  Grid!GridTypeOK' /\ Grid!GridConsistent'
<1>1. CASE UNCHANGED registration /\ Admitted' \in [Races -> Nat]
  BY <1>1 DEF Grid!GridTypeOK, Grid!GridConsistent, Grid!IsFree
<1>2. ASSUME NEW e \in Grid!GridEntries, Grid!Enter(e) \/ Grid!Approve(e) \/ Grid!End(e)
      PROVE  Grid!GridTypeOK' /\ Grid!GridConsistent'
  <2> DEFINE row == registration'[e]
  <2>1. registration' = [registration EXCEPT ![e] = row] /\ UNCHANGED Admitted
    BY <1>2 DEF Grid!Enter, Grid!Approve, Grid!End, Grid!Become, Grid!GridTypeOK
  <2>2. \A k \in Grid!GridEntries \ {e} : registration'[k] = registration[k]
    BY <2>1 DEF Grid!GridTypeOK
  <2>3. Grid!GridTypeOK'
    BY <1>2, <2>1 DEF Grid!Enter, Grid!Approve, Grid!End, Grid!Become, Grid!GridTypeOK,
                      Grid!Entered, Grid!Ended, Grid!GridRow
  <2>4. /\ row.status = "APPROVED" => row.startingPosition # 0
        /\ row.status \in {"NONE", "PENDING"} => row.startingPosition = 0
        /\ row.startingPosition # 0 => Grid!IsFree(e, row.startingPosition)
    BY <1>2, <2>1 DEF Grid!Enter, Grid!Approve, Grid!End, Grid!Become, Grid!GridTypeOK,
                      Grid!Entered, Grid!Ended
  <2>5. ASSUME NEW k \in Grid!GridEntries, registration'[k].startingPosition # 0,
               NEW j \in Grid!GridEntries \ {k}, j[1] = k[1]
        PROVE  registration'[j].startingPosition # registration'[k].startingPosition
    <3>1. CASE k = e
      BY <2>2, <2>4, <2>5, <3>1 DEF Grid!IsFree
    <3>2. CASE j = e
      BY <2>2, <2>4, <2>5, <3>2 DEF Grid!IsFree
    <3>3. CASE k # e /\ j # e
      BY <2>2, <2>5, <3>3 DEF Grid!GridConsistent, Grid!IsFree
    <3> QED BY <3>1, <3>2, <3>3
  <2>6. Grid!GridConsistent'
    <3>1. ASSUME NEW k \in Grid!GridEntries
          PROVE  /\ registration'[k].status = "APPROVED"
                       => registration'[k].startingPosition # 0
                 /\ registration'[k].status \in {"NONE", "PENDING"}
                       => registration'[k].startingPosition = 0
      BY <2>2, <2>4 DEF Grid!GridConsistent
    <3> QED BY <2>5, <3>1 DEF Grid!GridConsistent, Grid!IsFree
  <2> QED BY <2>3, <2>6
<1> QED BY <1>1, <1>2 DEF Grid!Next, Grid!Organise, Grid!GridTypeOK

(* The grid of StartingGrid is consistent for ever: what is checked of an    *)
(* entry when it is approved or ends holds through everything that comes.    *)
THEOREM GridStaysConsistent == Grid!Spec => []Grid!GridConsistent
<1>1. Grid!Init => Grid!GridTypeOK /\ Grid!GridConsistent
  BY DEF Grid!Init, Grid!GridTypeOK, Grid!GridConsistent, Grid!Absent
<1>2. Grid!GridTypeOK /\ Grid!GridConsistent /\ [Grid!Next]_<<registration, Admitted>>
        => (Grid!GridTypeOK /\ Grid!GridConsistent)'
  BY ConsistentStep
<1> QED BY <1>1, <1>2, PTL DEF Grid!Spec

(* A registration that was rejected or cancelled is never pending or         *)
(* approved again, though saves of stale rows may still rewrite it.          *)
THEOREM EndedNeverStarts == Spec => Grid!EndedForGood
<1>1. [Grid!Next]_<<registration, Admitted>> /\ Grid!GridTypeOK =>
        [\A k \in Grid!GridEntries :
           registration[k].status \in Grid!Ended
           => registration'[k].status \in Grid!Ended]_<<registration, Admitted>>
  <2> SUFFICES ASSUME Grid!Next, Grid!GridTypeOK, NEW k \in Grid!GridEntries,
                      registration[k].status \in Grid!Ended
               PROVE  registration'[k].status \in Grid!Ended
    OBVIOUS
  <2>1. CASE Grid!Organise
    BY <2>1 DEF Grid!Organise
  <2>2. ASSUME NEW e \in Grid!GridEntries, Grid!Enter(e) \/ Grid!Approve(e) \/ Grid!End(e)
        PROVE  registration'[k].status \in Grid!Ended
    BY <2>2 DEF Grid!Enter, Grid!Approve, Grid!End, Grid!Become, Grid!GridTypeOK, Grid!Ended
  <2> QED BY <2>1, <2>2 DEF Grid!Next
<1>2. RegistrationInv => Grid!GridTypeOK
  BY GridTypes DEF RegistrationInv, LockInv, TypeInv, TypeOK
<1> QED BY <1>1, <1>2, RegistrationInvInit, RegistrationInvStep, GridStep, PTL
        DEF Spec, Grid!EndedForGood

(* An approved registration has a starting position and a pending one none. *)
THEOREM PositionsFollowStatus == Spec => []ApprovedHavePosition
<1>1. Grid!GridConsistent => ApprovedHavePosition
  BY DEF Grid!GridConsistent, Grid!GridEntries, ApprovedHavePosition, Entries
<1> QED BY <1>1, ImplementsGrid, GridStaysConsistent, PTL DEF ImplementsStartingGrid

(* No two registrations of a race ever hold one starting position. *)
THEOREM PositionsNeverShared == Spec => []StartingPositionsUnique
<1>1. Grid!GridConsistent => StartingPositionsUnique
  <2> SUFFICES ASSUME Grid!GridConsistent, NEW r \in Races, NEW j \in EntriesOf(r),
                      NEW k \in EntriesOf(r), j # k,
                      registration[j].startingPosition # 0
               PROVE  registration[j].startingPosition # registration[k].startingPosition
    BY DEF StartingPositionsUnique
  <2>1. j \in Grid!GridEntries /\ k \in Grid!GridEntries \ {j} /\ k[1] = j[1]
    BY DEF Grid!GridEntries, EntriesOf, Entries
  <2> QED BY <2>1 DEF Grid!GridConsistent, Grid!IsFree
<1> QED BY <1>1, ImplementsGrid, GridStaysConsistent, PTL DEF ImplementsStartingGrid

-----------------------------------------------------------------------------
(* Nobody waits in a circle.                                                 *)

(* A registration whose result is about to be saved is pending no more.      *)
Decided ==
    \A q \in ResultRequests : ResultAt(q, "saving") =>
        registration[resultRequest[q].id].status \in {"APPROVED"} \cup Closed

WaitInv == RegistrationInv /\ LocksInUse /\ Decided

(* A result request moves on: to saving only for an approved registration.   *)
LEMMA ResultGoesOnDecided ==
    ASSUME ResultsTypeOK, Decided, UNCHANGED registration,
           NEW p \in ResultRequests, NEW work, ResultProceed(p, work),
           work.at = "saving" => registration[work.id].status = "APPROVED"
    PROVE  Decided'
<1> SUFFICES ASSUME NEW q \in ResultRequests, resultRequest'[q].at = "saving"
             PROVE  registration'[resultRequest'[q].id].status \in {"APPROVED"} \cup Closed
  BY DEF Decided, ResultAt
<1>1. CASE q = p
  BY <1>1 DEF ResultProceed, ResultsTypeOK
<1>2. CASE q # p
  BY <1>2 DEF ResultProceed, ResultsTypeOK, Decided, ResultAt
<1> QED BY <1>1, <1>2

(* Only validation leads to a save, and it reads the registration.           *)
LEMMA ResultsKeepDecided ==
    ASSUME ResultsTypeOK, Decided, ResultsNext
    PROVE  Decided'
<1>1. UNCHANGED registration
  BY ResultsFrame DEF UnchangedByResults
<1>2. ASSUME NEW p \in ResultRequests, NEW k \in Entries, NEW outcome \in Outcomes,
             LockRaceForResult(p, k, outcome) \/ ReadResultForCorrection(p, k, outcome)
      PROVE  Decided'
  BY <1>1, <1>2, ResultGoesOnDecided DEF LockRaceForResult, ReadResultForCorrection
<1>3. ASSUME NEW p \in ResultRequests, ResultProceed(p, ResultIdle)
      PROVE  Decided'
  BY <1>1, <1>3, ResultGoesOnDecided DEF ResultIdle
<1>4. ASSUME NEW p \in ResultRequests, LockRaceForCorrection(p) \/ ValidateResult(p)
      PROVE  Decided'
  <2> DEFINE work == resultRequest[p]
  <2>1. work \in ResultWork
    BY <1>4, ResultWorkType DEF LockRaceForCorrection, ValidateResult, ResultAt
  <2>2. \A step : /\ [work EXCEPT !.at = step].id = work.id
                  /\ [work EXCEPT !.at = step].at = step
    BY <2>1 DEF ResultWork
  <2>3. CASE LockRaceForCorrection(p)
    BY <1>1, <1>3, <2>2, <2>3, ResultGoesOnDecided DEF LockRaceForCorrection, RollbackResult
  <2>4. CASE ValidateResult(p)
    BY <1>1, <1>3, <2>2, <2>4, ResultGoesOnDecided DEF ValidateResult, RollbackResult
  <2> QED BY <1>4, <2>3, <2>4
<1>5. ASSUME NEW p \in ResultRequests, CommitResult(p) \/ AbandonResultRequest(p)
      PROVE  Decided'
  BY <1>3, <1>5 DEF CommitResult, AbandonResultRequest, RollbackResult
<1> QED BY <1>2, <1>4, <1>5 DEF ResultsNext, ResultStep

(* What has been decided about an entry may end it and never reopens it.     *)
LEMMA DecidedStep ==
    ASSUME RegistrationInv, Decided, [Next]_vars
    PROVE  Decided'
<1>1. ResultsTypeOK
  BY DEF RegistrationInv, LockInv, TypeInv, TypeOK
<1>2. CASE UNCHANGED resultRequest
  <2> SUFFICES ASSUME NEW q \in ResultRequests, ResultAt(q, "saving")
               PROVE  registration'[resultRequest[q].id].status \in {"APPROVED"} \cup Closed
    BY <1>2 DEF Decided, ResultAt
  <2> DEFINE k == resultRequest[q].id
  <2>1. k \in Entries
    BY <1>1, ResultWorkType DEF ResultAt
  <2>2. registration[k].status \in {"APPROVED"} \cup Closed
    BY DEF Decided
  <2>3. CASE registration'[k] = registration[k]
    BY <2>2, <2>3
  <2>4. CASE registration'[k] # registration[k]
    BY <2>1, <2>2, <2>4, RegistrationChanges DEF Closed
  <2> QED BY <2>3, <2>4
<1>3. CASE ResultsNext
  BY <1>1, <1>3, ResultsKeepDecided
<1>4. ResultsNext \/ UNCHANGED resultRequest
  BY DEF Next, vars
<1> QED BY <1>2, <1>3, <1>4

(* A save never waits for its registration: approve locks pending ones only. *)
LEMMA SavesNeverWait ==
    ASSUME WaitInv, NEW q \in ResultRequests, ResultAt(q, "saving"), NEW s \in Requests
    PROVE  registrationLock[resultRequest[q].id] # s
<1> SUFFICES ASSUME registrationLock[resultRequest[q].id] = s PROVE FALSE
  OBVIOUS
<1> DEFINE k == resultRequest[q].id
<1>1. k \in Entries
  BY ResultWorkType DEF ResultAt, WaitInv, RegistrationInv, LockInv, TypeInv, TypeOK
<1>2. ClaimsRegistration(s, k)
  BY <1>1 DEF WaitInv, LocksInUse
<1>3. registration[k].status = "PENDING"
  BY <1>2 DEF ClaimsRegistration, ChecksHold, WaitInv, RegistrationInv
<1> QED BY <1>3 DEF WaitInv, Decided, Closed

(* Who holds a race waits for nobody. *)
LEMMA RaceHoldersGoOn ==
    ASSUME WaitInv, NEW q \in Requests, NEW r, ClaimsRace(q, r), NEW s \in Requests
    PROVE  ~Awaits(q, s)
BY StoreAssumption, SavesNeverWait DEF ClaimsRace, Awaits, ResultAt, RegistrationAt

(* Who is waited for holds a race or is an approval that holds its entry,    *)
(* and so is not itself a save that waits for an entry.                      *)
LEMMA WaitedForHolds ==
    ASSUME WaitInv, NEW p \in Requests, NEW q \in Requests, Awaits(p, q)
    PROVE  (\E r \in Races : ClaimsRace(q, r)) \/ (\E k \in Entries : ClaimsRegistration(q, k))
<1>1. TypeOK /\ LocksInUse
  BY DEF WaitInv, RegistrationInv, LockInv, TypeInv
<1>2. CASE p \in RaceRequests
  <2>1. raceRequest[p].id \in Races /\ raceLock[raceRequest[p].id] = q
    <3>1. /\ RaceAt(p, "deleting") \/ RaceAt(p, "writing")
          /\ raceLock[raceRequest[p].id] = q
      BY <1>2, StoreAssumption DEF Awaits
    <3>2. raceRequest[p] \in RaceWork
      BY <1>1, <1>2, <3>1, RaceWorkType DEF TypeOK, RaceAt
    <3> QED BY <3>1, <3>2, RaceWorkParts
  <2> QED BY <1>1, <2>1 DEF LocksInUse
<1>3. CASE p \in RegistrationRequests
  <2>1. registrationRequest[p].id \in Entries /\ registrationRequest[p].id[1] \in Races
    BY <1>1, <1>3, RegistrationWorkType, StoreAssumption DEF Awaits, RegistrationAt, TypeOK
  <2> QED BY <1>1, <1>3, <2>1, StoreAssumption DEF LocksInUse, Awaits
<1>4. CASE p \in ResultRequests
  <2>1. resultRequest[p].id \in Entries /\ resultRequest[p].id[1] \in Races
    BY <1>1, <1>4, ResultWorkType, StoreAssumption DEF Awaits, ResultAt, TypeOK
  <2> QED BY <1>1, <1>4, <2>1, StoreAssumption DEF LocksInUse, Awaits
<1> QED BY <1>2, <1>3, <1>4 DEF Requests

(* Who waits while being waited for is an approval that waits for its race.  *)
LEMMA WaitsWhileWaitedFor ==
    ASSUME WaitInv, NEW p \in Requests, NEW q \in Requests, NEW s \in Requests,
           Awaits(p, q), Awaits(q, s)
    PROVE  \E r \in Races : raceLock[r] = s
<1>1. PICK k \in Entries : ClaimsRegistration(q, k)
  BY WaitedForHolds, RaceHoldersGoOn
<1>2. q \in RegistrationRequests /\ RegistrationAt(q, "lockingRace")
  BY <1>1, StoreAssumption DEF ClaimsRegistration, Awaits, RegistrationAt
<1>3. registrationRequest[q].id[1] \in Races
  BY <1>2, RegistrationWorkType
  DEF RegistrationAt, WaitInv, RegistrationInv, LockInv, TypeInv, TypeOK
<1>4. raceLock[registrationRequest[q].id[1]] = s
  BY <1>2, StoreAssumption DEF Awaits, RegistrationAt
<1> QED BY <1>3, <1>4

(* Hence the invariant: whoever is at the end of two waits holds a race. *)
LEMMA WaitsEnd == WaitInv => NoCircularWait
<1> SUFFICES ASSUME WaitInv, NEW p \in Requests, NEW q \in Requests, NEW s \in Requests,
                    NEW t \in Requests, Awaits(p, q), Awaits(q, s), Awaits(s, t)
             PROVE  FALSE
  BY DEF NoCircularWait
<1>1. PICK r \in Races : raceLock[r] = s
  BY WaitsWhileWaitedFor
<1>2. ClaimsRace(s, r)
  BY <1>1 DEF WaitInv, LocksInUse
<1> QED BY <1>2, RaceHoldersGoOn

(* The requests of the three services never deadlock on the rows they lock.  *)
THEOREM WaitsNeverCircular == Spec => []NoCircularWait
<1>1. Init => WaitInv
  BY RegistrationInvInit, LocksInUseInit
  DEF WaitInv, Decided, Init, ResultsInit, ResultIdle, ResultAt
<1>2. RegistrationInv => TypeInv
  BY DEF RegistrationInv, LockInv
<1>3. WaitInv /\ [Next]_vars => WaitInv'
  BY <1>2, RegistrationInvStep, LocksInUseNext, DecidedStep DEF WaitInv
<1> QED BY <1>1, <1>3, WaitsEnd, PTL DEF Spec

-----------------------------------------------------------------------------
(* No registration without its race. *)

(* A race goes only while it has no registration, and entries join races that exist. *)
LEMMA NoOrphanStep ==
    RegistrationInv /\ NoOrphanRegistration /\ [Next]_vars => NoOrphanRegistration'
<1> SUFFICES ASSUME RegistrationInv, NoOrphanRegistration, [Next]_vars,
                    NEW k \in Entries, registration'[k].status # "NONE"
             PROVE  RaceExists(k[1])'
  BY DEF NoOrphanRegistration
<1>1. CASE registration'[k] # registration[k]
  <2>1. UNCHANGED race /\ RaceExists(k[1])
    BY <1>1, RegistrationChanges DEF NoOrphanRegistration, RaceExists, RaceStatus
  <2> QED BY <2>1 DEF RaceExists
<1>2. CASE registration'[k] = registration[k]
  <2>1. RaceExists(k[1]) /\ registration[k].status # "NONE"
    BY <1>2 DEF NoOrphanRegistration
  <2>2. CASE RacesNext
    <3>1. k[1] \in Races /\ k \in Registered(k[1])
      BY <2>1 DEF Entries, EntriesOf, Registered
    <3> QED BY <2>1, <2>2, <3>1, RaceChanges
            DEF RegistrationInv, LockInv, RaceExists
  <2>3. CASE ~RacesNext
    <3>1. UNCHANGED race
      BY <2>3, RegistrationsFrame, ResultsFrame
      DEF Next, Tick, UnchangedByRegistrations, UnchangedByResults, vars, storeVars
    <3> QED BY <2>1, <3>1 DEF RaceExists
  <2> QED BY <2>2, <2>3
<1> QED BY <1>1, <1>2

(* A registration always has its race, though remove looks for registrations *)
(* long before it deletes, and an entry may commit in between.               *)
THEOREM RegistrationsKeepRaces == Spec => []NoOrphanRegistration
<1>1. Init => NoOrphanRegistration
  BY DEF Init, StoreInit, NoRegistration, NoOrphanRegistration
<1>2. RegistrationInv /\ NoOrphanRegistration /\ [Next]_vars => NoOrphanRegistration'
  BY NoOrphanStep
<1> QED BY <1>1, <1>2, RegistrationInvInit, RegistrationInvStep, PTL DEF Spec

-----------------------------------------------------------------------------
(* The schedule of a race. *)

Ordered(row) == row.registrationDeadline < row.scheduledAt

(* The race that a request has in memory is ordered, like those of the table. *)
OrderedWork(work) ==
    work.at \in {"counting", "checking", "loading", "writing", "inserting"} =>
        Ordered(work.entity)

ScheduleInv ==
    /\ TypeInv
    /\ ScheduleConsistent
    /\ \A q \in RaceRequests : OrderedWork(raceRequest[q])

(* A request that goes on with an ordered race, or ends, leaves the others.  *)
LEMMA OrderedWorkStep ==
    ASSUME ScheduleInv, NEW p \in RaceRequests, NEW work, RaceProceed(p, work),
           OrderedWork(work), NEW q \in RaceRequests
    PROVE  OrderedWork(raceRequest'[q])
<1>1. RacesTypeOK
  BY DEF ScheduleInv, TypeInv, TypeOK
<1> QED BY <1>1 DEF ScheduleInv, RaceProceed, RacesTypeOK

(* Races that exist are ordered when only one of them changes, to one that is. *)
LEMMA OrderedWrite ==
    ASSUME ScheduleInv, NEW r \in Races, NEW row, row \in RaceRow => Ordered(row),
           UNCHANGED race \/ (race' = [race EXCEPT ![r] = row]
                              /\ (row.status \in RaceStatus => row \in RaceRow))
    PROVE  ScheduleConsistent'
BY DEF ScheduleInv, ScheduleConsistent, RaceExists, Ordered, TypeInv, TypeOK, StoreTypeOK

(* What the handlers decide on keeps the order of the two dates.             *)
LEMMA RaceBeginsOrdered ==
    ASSUME ScheduleInv, NEW p \in RaceRequests, NEW r \in Races,
           \/ \E c \in Capacities, s \in Schedules :
                 CreateRace(p, r, c, s) \/ UpdateRace(p, r, c, s)
           \/ \E target \in RaceStatus : UpdateStatus(p, r, target)
           \/ RemoveRace(p, r)
    PROVE  ScheduleConsistent' /\ \A q \in RaceRequests : OrderedWork(raceRequest'[q])
<1>1. StoreTypeOK
  BY DEF ScheduleInv, TypeInv, TypeOK
<1>2. CASE \E c \in Capacities, s \in Schedules :
              CreateRace(p, r, c, s) \/ UpdateRace(p, r, c, s)
  <2>1. PICK c \in Capacities, s \in Schedules :
              CreateRace(p, r, c, s) \/ UpdateRace(p, r, c, s)
    BY <1>2
  <2> DEFINE entity == RaceRowOf("DRAFT", c, s)
  <2>2. entity \in RaceRow /\ Ordered(entity)
    BY <2>1, StoreAssumption
    DEF StoreAssumption, RaceRowOf, RaceRow, RaceStatus, Ordered, CreateRace, UpdateRace,
        validateSchedule
  <2>3. OrderedWork(RaceTask("auditing", r, entity)) /\ OrderedWork(RaceTask("loading", r, entity))
    BY <2>2 DEF OrderedWork, RaceTask
  <2>4. UNCHANGED race \/ race' = [race EXCEPT ![r] = entity]
    BY <2>1 DEF CreateRace, UpdateRace, RaceReadOnly
  <2> HIDE DEF entity
  <2>5. ScheduleConsistent'
    BY <2>2, <2>4, OrderedWrite
  <2> QED BY <2>1, <2>3, <2>5, OrderedWorkStep DEF CreateRace, UpdateRace, entity
<1>3. CASE \E target \in RaceStatus : UpdateStatus(p, r, target)
  <2>1. PICK target \in RaceStatus : UpdateStatus(p, r, target)
    BY <1>3
  <2> DEFINE entity == [race[r] EXCEPT !.status = target]
  <2>2. race[r] \in RaceRow /\ Ordered(race[r])
    BY <1>1, <2>1, ExistingRace DEF ScheduleInv, ScheduleConsistent, Ordered, UpdateStatus
  <2>3. Ordered(entity)
    BY <2>2 DEF Ordered, RaceRow
  <2> HIDE DEF entity
  <2>4. \A step : OrderedWork(RaceTask(step, r, entity))
    BY <2>3 DEF OrderedWork, RaceTask
  <2>5. UNCHANGED race
    BY <2>1 DEF UpdateStatus, RaceReadOnly
  <2> QED BY <2>1, <2>4, <2>5, OrderedWorkStep
          DEF UpdateStatus, entity, ScheduleInv, ScheduleConsistent, RaceExists
<1>4. CASE RemoveRace(p, r)
  <2>1. Ordered(race[r])
    BY <1>4 DEF ScheduleInv, ScheduleConsistent, Ordered, RemoveRace
  <2>2. OrderedWork(RaceTask("checking", r, race[r]))
    BY <2>1 DEF OrderedWork, RaceTask
  <2> QED BY <1>4, <2>2, OrderedWorkStep
          DEF RemoveRace, RaceReadOnly, ScheduleInv, ScheduleConsistent, RaceExists
<1> QED BY <1>2, <1>3, <1>4

(* The counts, and the look for registrations, pass the race on.             *)
LEMMA RaceReadsOrdered ==
    ASSUME ScheduleInv, NEW p \in RaceRequests,
           CountApproved(p) \/ CountResults(p) \/ CheckRegistrations(p) \/ LoadRace(p)
    PROVE  ScheduleConsistent' /\ \A q \in RaceRequests : OrderedWork(raceRequest'[q])
<1> DEFINE work == raceRequest[p]
<1>1. /\ work \in RaceWork /\ work.entity \in RaceRow /\ Ordered(work.entity)
  BY RaceWorkType, RaceWorkParts
  DEF ScheduleInv, TypeInv, TypeOK, CountApproved, CountResults, CheckRegistrations,
      LoadRace, RaceAt, OrderedWork
<1>2. ScheduleConsistent'
  BY DEF CountApproved, CountResults, CheckRegistrations, LoadRace, RaceReadOnly,
         ScheduleInv, ScheduleConsistent, RaceExists
<1>3. ASSUME NEW more, more.entity = work.entity, RaceProceed(p, more)
      PROVE  \A q \in RaceRequests : OrderedWork(raceRequest'[q])
  BY <1>1, <1>3, OrderedWorkStep DEF OrderedWork
<1>4. ASSUME RaceFinish(p)
      PROVE  \A q \in RaceRequests : OrderedWork(raceRequest'[q])
  BY <1>4, OrderedWorkStep DEF OrderedWork, RaceFinish, RaceIdle
<1>5. ASSUME NEW more, more.entity = work.entity, Counted(p, more)
      PROVE  \A q \in RaceRequests : OrderedWork(raceRequest'[q])
  <2>1. RaceTask("loading", more.id, more.entity).entity = work.entity
    BY <1>5 DEF RaceTask
  <2> QED BY <1>3, <1>4, <1>5, <2>1 DEF Counted
<1>6. \A n : /\ [work EXCEPT !.approved = n].entity = work.entity
             /\ [work EXCEPT !.recorded = n].entity = work.entity
             /\ [work EXCEPT !.at = n].entity = work.entity
             /\ \A d : [work EXCEPT !.at = n, !.dirty = d].entity = work.entity
  BY <1>1 DEF RaceWork, RaceWorkOn
<1>7. CASE CountApproved(p) \/ CountResults(p)
  BY <1>2, <1>5, <1>6, <1>7 DEF CountApproved, CountResults
<1>8. CASE CheckRegistrations(p)
  <2> DEFINE cancelled == [work.entity EXCEPT !.status = "CANCELLED"]
  <2>1. Ordered(cancelled)
    BY <1>1 DEF Ordered, RaceRow
  <2> HIDE DEF cancelled
  <2>2. /\ OrderedWork(RaceTask("deleting", work.id, Deleted))
        /\ OrderedWork(RaceTask("loading", work.id, cancelled))
    BY <2>1 DEF OrderedWork, RaceTask
  <2> QED BY <1>2, <1>4, <1>8, <2>2, OrderedWorkStep DEF CheckRegistrations, cancelled
<1>9. CASE LoadRace(p)
  BY <1>2, <1>3, <1>6, <1>9 DEF LoadRace
<1> QED BY <1>7, <1>8, <1>9

(* The CHECK refuses an UPDATE of columns that do not go together; an INSERT *)
(* writes a race that the handler has checked.                               *)
LEMMA RaceWritesOrdered ==
    ASSUME ScheduleInv, NEW p \in RaceRequests,
           WriteRace(p) \/ InsertRace(p) \/ DeleteRace(p) \/ AuditRace(p)
           \/ AbandonRaceRequest(p)
    PROVE  ScheduleConsistent' /\ \A q \in RaceRequests : OrderedWork(raceRequest'[q])
<1> DEFINE work == raceRequest[p]
<1>1. work \in RaceWork /\ work.id \in Races
  BY RaceWorkType, RaceWorkParts
  DEF ScheduleInv, TypeInv, TypeOK, WriteRace, InsertRace, DeleteRace, AuditRace,
      AbandonRaceRequest, RaceAt
<1>2. /\ \A r, entity : OrderedWork(RaceTask("auditing", r, entity))
      /\ OrderedWork(RaceIdle)
  BY DEF OrderedWork, RaceTask, RaceIdle
<1>3. \A q \in RaceRequests : OrderedWork(raceRequest'[q])
  BY <1>2, OrderedWorkStep
  DEF WriteRace, InsertRace, DeleteRace, AuditRace, AbandonRaceRequest, RaceFinish
<1>4. CASE WriteRace(p)
  <2> DEFINE row == PatchedRace(race[work.id], work.entity, work.dirty)
  <2>1. \/ UNCHANGED race
        \/ /\ race' = [race EXCEPT ![work.id] = row]
           /\ ScheduleCheck(row) /\ RaceExists(work.id)
    BY <1>4 DEF WriteRace
  <2>2. RaceExists(work.id) => row \in RaceRow
    BY <1>1, <1>4, ExistingRace, PatchedRaceType, RaceWorkParts
    DEF ScheduleInv, TypeInv, TypeOK, WriteRace, RaceAt
  <2> HIDE DEF row
  <2>3. CASE UNCHANGED race
    BY <1>3, <2>3 DEF ScheduleInv, ScheduleConsistent, RaceExists
  <2>4. CASE ScheduleCheck(row) /\ RaceExists(work.id)
             /\ race' = [race EXCEPT ![work.id] = row]
    BY <1>1, <1>3, <2>2, <2>4, OrderedWrite DEF Ordered, ScheduleCheck
  <2> QED BY <2>1, <2>3, <2>4
<1>5. CASE InsertRace(p)
  <2>1. work.entity \in RaceRow /\ Ordered(work.entity)
    BY <1>1, <1>5, RaceWorkParts DEF ScheduleInv, OrderedWork, InsertRace, RaceAt
  <2>2. UNCHANGED race \/ race' = [race EXCEPT ![work.id] = work.entity]
    BY <1>5 DEF InsertRace
  <2> QED BY <1>1, <1>3, <2>1, <2>2, OrderedWrite
<1>6. CASE DeleteRace(p)
  <2>1. Deleted.status \notin RaceStatus /\ Deleted \notin RaceRow
    BY DEF Deleted, RaceStatus, RaceRow
  <2>2. UNCHANGED race \/ race' = [race EXCEPT ![work.id] = Deleted]
    BY <1>6 DEF DeleteRace
  <2> QED BY <1>1, <1>3, <2>1, <2>2, OrderedWrite
<1>7. CASE AuditRace(p) \/ AbandonRaceRequest(p)
  <2>1. UNCHANGED race
    BY <1>7 DEF AuditRace, AbandonRaceRequest, RaceReadOnly
  <2> QED BY <1>3, <2>1 DEF ScheduleInv, ScheduleConsistent, RaceExists
<1> QED BY <1>4, <1>5, <1>6, <1>7

(* Registration closes before the start in every race there is, though saves *)
(* of stale races write only the columns that differ and insert races that   *)
(* were deleted.                                                             *)
THEOREM SchedulesStayConsistent == Spec => []ScheduleConsistent
<1>1. Init => ScheduleInv
  BY TypeInvInit DEF ScheduleInv, Init, StoreInit, RacesInit, RaceIdle, NeverCreated,
                     ScheduleConsistent, RaceExists, RaceStatus, OrderedWork
<1>2. ScheduleInv /\ [Next]_vars => ScheduleInv'
  <2> SUFFICES ASSUME ScheduleInv, [Next]_vars
               PROVE  ScheduleConsistent' /\ \A q \in RaceRequests : OrderedWork(raceRequest'[q])
    BY TypeInvStep DEF ScheduleInv
  <2>1. CASE RacesNext
    BY <2>1, RaceBeginsOrdered, RaceReadsOrdered, RaceWritesOrdered DEF RacesNext, RaceStep
  <2>2. CASE ~RacesNext
    <3>1. UNCHANGED <<race, raceRequest>>
      BY <2>2, RegistrationsFrame, ResultsFrame
      DEF Next, Tick, UnchangedByRegistrations, UnchangedByResults, vars, storeVars
    <3> QED BY <3>1 DEF ScheduleInv, ScheduleConsistent, RaceExists
  <2> QED BY <2>1, <2>2
<1> QED BY <1>1, <1>2, PTL DEF Spec, ScheduleInv
=============================================================================
