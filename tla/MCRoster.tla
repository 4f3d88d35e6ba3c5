------------------------------- MODULE MCRoster -------------------------------
(***************************************************************************)
(* An instance of RosterSystem for TLC: one race whose registration is     *)
(* open, and either two competitors and a team or a competitor and two     *)
(* teams, all active but one, which is still to be created.  The fourth    *)
(* row has been deleted.                                                   *)
(***************************************************************************)
EXTENDS RosterSystem, TLC

OneSchedule == {[scheduledAt |-> 2, registrationDeadline |-> 1]}

RosterSymmetry == Permutations(Competitors) \cup Permutations(Teams)
                  \cup Permutations(RosterRequests)
                  \cup Permutations(RegistrationRequests)

(* Spec reaches this by creating three rows and removing one of them. *)
SmallInit ==
    /\ EntryInit
    /\ \E gone, fresh \in Participants :
          /\ gone # fresh
          /\ RosterStarts([p \in Participants |->
                             CASE p = gone  -> "DELETED"
                               [] p = fresh -> "NONE"
                               [] OTHER     -> "ACTIVE"], Nobody)

SmallSpec == SmallInit /\ [][Next]_vars

(* Everybody is active, and one competitor has joined one team. *)
StaffedInit ==
    /\ EntryInit
    /\ \E m \in Stints :
          RosterStarts([p \in Participants |-> "ACTIVE"],
                       [x \in Stints |-> IF x = m THEN [rows |-> 1, active |-> TRUE]
                                                  ELSE NoMembership])

StaffedSpec == StaffedInit /\ [][Next]_vars

(* Two requests overlap; a third waits until one of them has ended. *)
InFlight == {q \in RosterRequests : ~RosterAt(q, "idle")}
            \cup {q \in RegistrationRequests : ~RegistrationAt(q, "idle")}

(* Audit events are written and never read. *)
WithoutAudit == <<registration, registrationRequest, raceLock, status, membership,
                  teamLock, membershipLock, rosterRequest, raceType, validation>>

TwoInFlight == Cardinality(InFlight) <= 2

(* Two requests of the roster overlap in a race without entries, an entry    *)
(* and one of them in a race with one.  The next entry is still checked.     *)
OneEntry ==
    \A r \in Races :
        Cardinality(Registered(r)) <=
            IF \A q \in RosterRequests : ~RosterAt(q, "idle") THEN 0 ELSE 1

(* Of the three rows there are, one at a time is not active. *)
OneAway == Cardinality({p \in Participants : status[p] # "ACTIVE"}) <= 2
=============================================================================
