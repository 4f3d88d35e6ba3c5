----------------------------- MODULE StartingGrid -----------------------------
(***************************************************************************)
(* What RegistrationsService promises of the entries of races: a grid that *)
(* changes one entry at a time.  An entry joins a race that takes entries, *)
(* it is approved once, with a position of its own, while the race has     *)
(* room, and when it has ended it never starts.  How many entries a race   *)
(* takes is up to its organisers, who may change that between two steps.   *)
(***************************************************************************)
EXTENDS Integers, FiniteSets

CONSTANTS Races, Participants

VARIABLES
    grid,      \* the entries
    capacity   \* how many a race may approve now; 0 when it takes no entries

GridEntries == Races \X Participants

GridRow == [status : {"PENDING", "APPROVED", "REJECTED", "CANCELLED"},
            startingPosition : Nat]

Absent == [status |-> "NONE", startingPosition |-> 0]

Entered == [status |-> "PENDING", startingPosition |-> 0]

Ended == {"REJECTED", "CANCELLED"}

GridTypeOK == /\ grid \in [GridEntries -> GridRow \cup {Absent}]
              /\ capacity \in [Races -> Nat]

ApprovedOn(r) == {k \in GridEntries : k[1] = r /\ grid[k].status = "APPROVED"}

(* No other entry of the race of k has this position. *)
IsFree(k, position) ==
    \A j \in GridEntries \ {k} :
        j[1] = k[1] => grid[j].startingPosition # position

Init == /\ grid = [k \in GridEntries |-> Absent]
        /\ capacity \in [Races -> Nat]

Become(k, row) == /\ grid' = [grid EXCEPT ![k] = row]
                  /\ UNCHANGED capacity

Enter(k) == /\ grid[k].status = "NONE"
            /\ capacity[k[1]] > 0
            /\ Become(k, Entered)

Approve(k) ==
    LET row == grid'[k]
    IN  /\ grid[k].status = "PENDING"
        /\ Cardinality(ApprovedOn(k[1])) < capacity[k[1]]
        /\ row \in GridRow
        /\ row.status = "APPROVED"
        /\ row.startingPosition # 0
        /\ IsFree(k, row.startingPosition)
        /\ Become(k, row)

(* An entry ends, or takes another of the statuses in which it has ended.    *)
(* It may keep a position, or get one back, but only one that nobody has.    *)
End(k) ==
    LET row == grid'[k]
    IN  /\ grid[k].status # "NONE"
        /\ row \in GridRow
        /\ row.status \in Ended
        /\ row.startingPosition # 0 => IsFree(k, row.startingPosition)
        /\ Become(k, row)

Organise == /\ capacity' \in [Races -> Nat]
            /\ UNCHANGED grid

Next == \/ \E k \in GridEntries : Enter(k) \/ Approve(k) \/ End(k)
        \/ Organise

Spec == Init /\ [][Next]_<<grid, capacity>>

-----------------------------------------------------------------------------
(* What the grid is for: the approved entries of a race have positions, no   *)
(* two entries of it share one, and a pending entry has none.                *)
GridConsistent ==
    \A k \in GridEntries :
        /\ grid[k].status = "APPROVED" => grid[k].startingPosition # 0
        /\ grid[k].status \in {"NONE", "PENDING"} => grid[k].startingPosition = 0
        /\ grid[k].startingPosition # 0 => IsFree(k, grid[k].startingPosition)

(* An entry that has ended, by rejection or cancellation, never starts. *)
EndedForGood ==
    [][\A k \in GridEntries :
          grid[k].status \in Ended => grid'[k].status \in Ended]_<<grid, capacity>>
=============================================================================
