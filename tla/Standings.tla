------------------------------- MODULE Standings -------------------------------
(***************************************************************************)
(* StandingsService and standings-scoring: points, aggregation and dense   *)
(* ranks, computed on every request from the results of completed races.   *)
(*                                                                         *)
(* A book is a set of results [race, completed, of, status, position,      *)
(* time], where completed tells whether the race is, and of names the      *)
(* competitor or team of the registration.                                 *)
(***************************************************************************)
EXTENDS Naturals, FiniteSets, FiniteSetsExt

PointsByPosition == <<10, 7, 5, 3, 1>>

PointsForResult(result) ==
    IF result.status = "FINISHED" /\ result.position \in DOMAIN PointsByPosition
    THEN PointsByPosition[result.position]
    ELSE 0

(* WHERE race.status = 'COMPLETED' *)
AnyResults(book) == book

CompletedResults(book) == {result \in book : result.completed}

Participants(book) == {result.of : result \in CompletedResults(book)}

(* GROUP BY participant.  best is the set of the best time, empty for NULL.  *)
Aggregated(book, participant) ==
    LET own == {result \in CompletedResults(book) : result.of = participant}
        finished == {result \in own : result.status = "FINISHED"}
        Placed(position) == Cardinality({result \in finished : result.position = position})
    IN  [points |-> MapThenSumSet(PointsForResult, own),
         wins |-> Placed(1),
         seconds |-> Placed(2),
         completed |-> Cardinality(finished),
         best |-> IF finished = {} THEN {} ELSE {Min({result.time : result \in finished})}]

(* ORDER BY ... ASC NULLS LAST *)
TimeBefore(a, b) ==
    /\ a # {}
    /\ \A s \in a, t \in b : s < t

RankedAbove(a, b) ==
    \/ a.points > b.points
    \/ a.points = b.points /\ a.wins > b.wins
    \/ /\ <<a.points, a.wins>> = <<b.points, b.wins>>
       /\ a.seconds > b.seconds
    \/ /\ <<a.points, a.wins, a.seconds>> = <<b.points, b.wins, b.seconds>>
       /\ a.completed > b.completed
    \/ /\ <<a.points, a.wins, a.seconds, a.completed>>
            = <<b.points, b.wins, b.seconds, b.completed>>
       /\ TimeBefore(a.best, b.best)

(* DENSE_RANK() OVER (ORDER BY ...) among these participants.                *)
DenseRank(book, participants, participant) ==
    LET score == [p \in participants |-> Aggregated(book, p)]
        above == {p \in participants : RankedAbove(score[p], score[participant])}
    IN  Cardinality({score[p] : p \in above}) + 1

(* The ranks are those of all participants: the filters of a request apply   *)
(* to the ranked rows.                                                       *)
RankedAmongListed(book, listed) ==
    [p \in listed |-> DenseRank(book, listed, p)]

Ranked(book, listed) ==
    [p \in listed |-> DenseRank(book, Participants(book), p)]
=============================================================================
