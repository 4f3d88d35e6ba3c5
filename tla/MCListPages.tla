------------------------------ MODULE MCListPages ------------------------------
(* A list of three rows, pages of one or two rows, and two books of results   *)
(* of two races.                                                              *)
EXTENDS ListPages

(* The third row ties with the first, until one of them changes. *)
MCContents == {<<1, 2, 1>>}

MCSamples ==
    LET Plain(a, b) == <<[status |-> a, found |-> TRUE], [status |-> b, found |-> FALSE]>>
        Typed(a, s, b, t) ==
            <<[status |-> a, type |-> s, found |-> TRUE],
              [status |-> b, type |-> t, found |-> FALSE]>>
    IN  [races |-> Typed("DRAFT", "TEAM", "CANCELLED", "INDIVIDUAL"),
         competitors |-> Typed("ACTIVE", "DWARF", "RETIRED", "CAMEL"),
         teams |-> Plain("ACTIVE", "INACTIVE"),
         users |-> Plain("ACTIVE", "DISABLED"),
         registrations |-> Plain("PENDING", "APPROVED"),
         results |-> Plain("FINISHED", "DISQUALIFIED"),
         audit |-> <<[action |-> "RACE_CREATED", entityType |-> "RACE", at |-> 1],
                     [action |-> "RESULT_CORRECTED", entityType |-> "RACE_RESULT", at |-> 2]>>,
         competitorStandings |-> Typed("ACTIVE", "DWARF", "RETIRED", "CAMEL"),
         teamStandings |-> Plain("ACTIVE", "INACTIVE")]

Finish(race, completed, of, position, time) ==
    [race |-> race, completed |-> completed, of |-> of, status |-> "FINISHED",
     position |-> position, time |-> time]

Retire(race, of) ==
    [race |-> race, completed |-> TRUE, of |-> of, status |-> "DID_NOT_FINISH",
     position |-> 0, time |-> 0]

(* Two winners of one race each, one of whom retires from the other; a race  *)
(* in progress that would turn the order around.                             *)
MCBooks ==
    {{Finish(1, TRUE, 1, 1, 10), Finish(1, TRUE, 3, 2, 30),
      Finish(2, TRUE, 2, 1, 20), Finish(2, TRUE, 3, 2, 40), Retire(2, 1)},
     {Finish(1, TRUE, 3, 1, 10), Finish(1, TRUE, 2, 2, 20),
      Finish(2, FALSE, 2, 1, 10), Finish(2, FALSE, 1, 2, 20)}}

(* A page further than any row, a number that is none, a value of another    *)
(* list, a search that is cut, and a date that only Date parses.             *)
Unreadable == 0

MCAddresses ==
    {"page" :> 2, "page" :> LastPage, "limit" :> Unreadable, "status" :> "PENDING",
     "search" :> 3, "from" :> LooseDate}
=============================================================================
