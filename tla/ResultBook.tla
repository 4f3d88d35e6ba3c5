------------------------------ MODULE ResultBook ------------------------------
(***************************************************************************)
(* What ResultsService promises of the results of races, as one variable   *)
(* that changes in single steps: a result is put into the book, or put in  *)
(* the place of an earlier one, only if no other finished result of the    *)
(* race has its final position and the winner stays the fastest.           *)
(***************************************************************************)
EXTENDS Integers

CONSTANTS Races, Participants

VARIABLE book

BookEntries == Races \X Participants

BookStatus == {"FINISHED", "DISQUALIFIED", "DID_NOT_FINISH", "DID_NOT_START"}

BookRow == [status : BookStatus, finalPosition : Nat, finalTimeMs : Nat]

Blank == [status |-> "NONE", finalPosition |-> 0, finalTimeMs |-> 0]

(* The other finished results of the race of k. *)
Rivals(k) == {j \in BookEntries : /\ j # k /\ j[1] = k[1]
                                  /\ book[j].status = "FINISHED"}

(* row ranks consistently with a rival when they do not share a position and *)
(* neither beats a winner on time.                                           *)
RanksWith(row, rival) ==
    /\ row.finalPosition # rival.finalPosition
    /\ row.finalPosition = 1 => row.finalTimeMs <= rival.finalTimeMs
    /\ rival.finalPosition = 1 => rival.finalTimeMs <= row.finalTimeMs

Init == book = [k \in BookEntries |-> Blank]

Put(k) ==
    LET row == book'[k]
    IN  /\ row \in BookRow
        /\ row.status = "FINISHED" => \A j \in Rivals(k) : RanksWith(row, book[j])
        /\ book' = [book EXCEPT ![k] = row]

Next == \E k \in BookEntries : Put(k)

BookTypeOK == book \in [BookEntries -> BookRow \cup {Blank}]

Spec == Init /\ [][Next]_book

(* Any two finished results of a race rank consistently: what the book is for. *)
RankingConsistent ==
    \A k \in BookEntries : book[k].status = "FINISHED" =>
        \A j \in Rivals(k) : RanksWith(book[k], book[j])
=============================================================================
