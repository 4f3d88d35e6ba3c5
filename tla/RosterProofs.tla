----------------------------- MODULE RosterProofs ----------------------------
(***************************************************************************)
(* The roster for every number of competitors, teams, races and requests:  *)
(* what the lock of a team, the index of active memberships and the        *)
(* foreign keys give together; what the lock of a race keeps true of the   *)
(* reads of an entry; that each step of a validated entry is a step of     *)
(* RegistrationsService; and that every variable keeps its type.           *)
(***************************************************************************)
EXTENDS RosterSystem, FiniteSetTheorems, TLAPS

Joining == {"finding", "counting", "joining"}

Saves == [at : {"checking", "deleting", "loading", "writing", "inserting", "auditing"},
          on : Participants,
          entity : RosterStatus,
          rows : [Competitors -> Nat],
          dirty : BOOLEAN,
          orphans : BOOLEAN]

RowsTyped ==
    /\ status \in [Participants -> RosterStatus]
    /\ \A p \in Participants : Exists(p) => status[p] \in StatusesOf(p)

RosterTyped ==
    /\ RowsTyped
    /\ membership \in [Stints -> [rows : Nat, active : BOOLEAN]]
    /\ teamLock \in [Teams -> RosterRequests \cup {Free}]
    /\ rosterRequest \in [RosterRequests -> Saves \cup MembershipWork \cup {RosterIdle}]

(* What request q saves is a row that exists, of its kind. *)
SavesLive(q) ==
    rosterRequest[q].at \in {"checking", "loading", "writing", "inserting"} =>
        rosterRequest[q].entity \in StatusesOf(rosterRequest[q].on)

(* An addition holds its team, which is active. *)
TeamHeld(q) ==
    rosterRequest[q].at \in Joining =>
        /\ teamLock[rosterRequest[q].on[1]] = q
        /\ status[rosterRequest[q].on[1]] = "ACTIVE"

(* What it has counted still leaves a place. *)
HasRoom(q) ==
    rosterRequest[q].at = "joining" =>
        Cardinality(ActiveMembers(rosterRequest[q].on[1])) < MaxMembers

OneTeam ==
    \A c \in Competitors : \A t, u \in Teams :
        membership[<<t, c>>].active /\ membership[<<u, c>>].active => t = u

RosterInv ==
    /\ RosterTyped
    /\ \A q \in RosterRequests : SavesLive(q) /\ TeamHeld(q) /\ HasRoom(q)
    /\ OneTeam
    /\ TeamsWithinMaximum
    /\ HistoryKeepsItsRows

-----------------------------------------------------------------------------
(* A team has finitely many members to count. *)
LEMMA MembersFinite ==
    ASSUME NEW t PROVE IsFiniteSet(ActiveMembers(t))
<1>1. ActiveMembers(t) \subseteq Participants
  BY RosterAssumption DEF RosterAssumption, ActiveMembers
<1> QED BY <1>1, FS_Subset, StoreAssumption DEF StoreAssumption

(* And a competitor finitely many teams. *)
LEMMA TeamsFinite ==
    ASSUME NEW c PROVE IsFiniteSet(ActiveTeams(c))
<1>1. ActiveTeams(c) \subseteq Participants
  BY RosterAssumption DEF RosterAssumption, ActiveTeams
<1> QED BY <1>1, FS_Subset, StoreAssumption DEF StoreAssumption

(* One request moves. *)
OthersWait(q) ==
    \A p \in RosterRequests \ {q} : rosterRequest'[p] = rosterRequest[p]

(* It takes no team from another. *)
TeamsRespected(q) ==
    \A t \in Teams : teamLock[t] \notin {Free, q} => teamLock'[t] = teamLock[t]

(* Rows change while nobody holds them, and are not deleted with a history.  *)
RowsRespected ==
    \A p \in Participants :
        /\ status'[p] # status[p] => ~Exists(p) \/ RowUnlocked(p)
        /\ Exists(p) /\ ~Exists(p)' => ~RestrictedDelete(p)

(* To proceed with one request leaves the others where they are. *)
LEMMA MoveOne ==
    ASSUME RosterTyped, NEW q \in RosterRequests, NEW work, RosterProceed(q, work)
    PROVE  OthersWait(q) /\ rosterRequest'[q] = work
BY DEF RosterTyped, RosterProceed, OthersWait

(* What another request saves, and the team it holds, stay as they are. *)
LEMMA HeldElsewhere ==
    ASSUME RosterInv, NEW q \in RosterRequests, NEW p \in RosterRequests \ {q},
           OthersWait(q), TeamsRespected(q), RowsRespected
    PROVE  SavesLive(p)' /\ TeamHeld(p)'
<1>1. rosterRequest'[p] = rosterRequest[p] /\ SavesLive(p) /\ TeamHeld(p) /\ p # Free
  BY RosterAssumption DEF RosterInv, OthersWait, RosterAssumption
<1>2. SavesLive(p)'
  BY <1>1 DEF SavesLive
<1>3. ASSUME rosterRequest[p].at \in Joining
      PROVE  TeamHeld(p)'
  <2> DEFINE t == rosterRequest[p].on[1]
  <2>1. t \in Teams /\ t \in Participants
    <3>1. rosterRequest[p] \in MembershipWork
      BY <1>3 DEF RosterInv, RosterTyped, RowsTyped, Saves, RosterIdle, Joining
    <3> QED BY <3>1, RosterAssumption DEF MembershipWork, Stints, RosterAssumption
  <2>2. teamLock[t] = p /\ status[t] = "ACTIVE"
    BY <1>1, <1>3 DEF TeamHeld
  <2>3. teamLock'[t] = p
    BY <1>1, <2>1, <2>2 DEF TeamsRespected
  <2>4. status'[t] = status[t]
    BY <1>1, <2>1, <2>2 DEF RowsRespected, Exists, RowUnlocked
  <2> QED BY <1>1, <2>2, <2>3, <2>4 DEF TeamHeld
<1> QED BY <1>1, <1>2, <1>3 DEF TeamHeld

(* A step that changes no membership and no registration.                    *)
LEMMA RowStep ==
    ASSUME RosterInv, RosterTyped', NEW q \in RosterRequests, OthersWait(q),
           TeamsRespected(q), RowsRespected, UNCHANGED <<membership, registration>>,
           SavesLive(q)', TeamHeld(q)', HasRoom(q)'
    PROVE  RosterInv'
<1>1. ASSUME NEW p \in RosterRequests PROVE (SavesLive(p) /\ TeamHeld(p) /\ HasRoom(p))'
  <2>1. CASE p = q BY <2>1
  <2>2. CASE p # q
    <3>1. SavesLive(p)' /\ TeamHeld(p)'
      BY <2>2, HeldElsewhere
    <3>2. HasRoom(p)'
      BY <2>2 DEF OthersWait, RosterInv, HasRoom, ActiveMembers
    <3> QED BY <3>1, <3>2
  <2> QED BY <2>1, <2>2
<1>2. OneTeam' /\ TeamsWithinMaximum'
  BY DEF RosterInv, OneTeam, TeamsWithinMaximum, ActiveMembers
<1>3. HistoryKeepsItsRows'
  BY DEF RosterInv, HistoryKeepsItsRows, MembershipHistory, RegistrationHistory,
         RowsRespected, RestrictedDelete, Exists
<1> QED BY <1>1, <1>2, <1>3 DEF RosterInv

-----------------------------------------------------------------------------
(* The statements that write rows of competitors and teams.                  *)

(* A rollback writes nothing and frees what it held. *)
LEMMA EndsQuietly ==
    ASSUME RosterInv, NEW q \in RosterRequests, RollbackMembership(q),
           UNCHANGED registration
    PROVE  RosterInv'
<1>1. OthersWait(q) /\ rosterRequest'[q] = RosterIdle
  BY MoveOne DEF RosterInv, RollbackMembership, EndMembership, RosterFinish
<1>2. RosterTyped'
  BY RosterAssumption DEF RosterInv, RosterTyped, RowsTyped, Exists, RollbackMembership,
     EndMembership, RosterFinish, RosterProceed, RosterAssumption
<1>3. TeamsRespected(q) /\ RowsRespected /\ UNCHANGED membership
  BY DEF RollbackMembership, EndMembership, TeamsRespected, RowsRespected, Exists
<1>4. (SavesLive(q) /\ TeamHeld(q) /\ HasRoom(q))'
  BY <1>1 DEF SavesLive, TeamHeld, HasRoom, RosterIdle, Joining
<1> QED BY <1>1, <1>2, <1>3, <1>4, RowStep

(* A request goes on with a row, and no membership is concerned.             *)
LEMMA SaveGoesOn ==
    ASSUME RosterInv, NEW q \in RosterRequests,
           NEW work \in Saves \cup {RosterIdle}, RosterProceed(q, work),
           work.at \in {"checking", "loading", "writing", "inserting"} =>
               work.entity \in StatusesOf(work.on),
           KeepMemberships, UNCHANGED registration,
           RowsTyped', RowsRespected
    PROVE  RosterInv'
<1>1. OthersWait(q) /\ rosterRequest'[q] = work
  BY MoveOne DEF RosterInv
<1>2. RosterTyped'
  BY DEF RosterInv, RosterTyped, RowsTyped, RosterProceed, KeepMemberships
<1>3. TeamsRespected(q) /\ UNCHANGED membership
  BY DEF TeamsRespected, KeepMemberships
<1>4. work.at \notin Joining
  BY DEF Saves, RosterIdle, Joining
<1>5. (SavesLive(q) /\ TeamHeld(q) /\ HasRoom(q))'
  BY <1>1, <1>4 DEF SavesLive, TeamHeld, HasRoom, Joining
<1> QED BY <1>1, <1>2, <1>3, <1>5, RowStep

(* A new row has no history yet, and was held by nobody. *)
LEMMA CreateKeeps ==
    ASSUME RosterInv, NEW q \in RosterRequests, NEW p \in Participants,
           NEW s \in StatusesOf(p), Create(q, p, s),
           UNCHANGED registration
    PROVE  RosterInv'
<1>1. RosterTask("auditing", p, s, NoRows) \in Saves
  BY DEF RosterTask, Saves, NoRows, RosterStatus, StatusesOf
<1>2. RowsTyped' /\ RowsRespected
  BY DEF RosterInv, RosterTyped, RowsTyped, Create, RosterStatus, RowsRespected, Exists,
         StatusesOf
<1> QED BY <1>1, <1>2, SaveGoesOn DEF Create, RosterTask

(* A handler loads a row that exists. *)
LEMMA BeginKeeps ==
    ASSUME RosterInv, NEW q \in RosterRequests, NEW p \in Participants,
           NEW step \in {"checking", "loading"},
           NEW entity \in StatusesOf(p),
           Begin(q, p, step, entity), UNCHANGED registration
    PROVE  RosterInv'
<1>1. LoadedRows(p) \in [Competitors -> Nat]
  BY DEF LoadedRows, RowsOf, NoRows, RosterInv, RosterTyped, Stints
<1>2. RosterTask(step, p, entity, LoadedRows(p)) \in Saves
  BY <1>1 DEF RosterTask, Saves, RosterStatus, StatusesOf
<1>3. RowsTyped' /\ RowsRespected
  BY DEF RosterInv, RosterTyped, RowsTyped, Begin, RosterReadOnly, RowsRespected, Exists
<1> QED BY <1>2, <1>3, SaveGoesOn
        DEF Begin, RosterReadOnly, RosterTask

(* The request is in the middle of a save, a removal or their audit event.   *)
LEMMA AtSave ==
    ASSUME RosterInv, NEW q \in RosterRequests,
           rosterRequest[q].at \in {"checking", "deleting", "loading", "writing",
                                    "inserting", "auditing"}
    PROVE  rosterRequest[q] \in Saves /\ rosterRequest[q].on \in Participants
BY DEF RosterInv, RosterTyped, RowsTyped, Saves, MembershipWork, RosterIdle

(* remove decides between the delete and the retirement. *)
LEMMA CheckHistoryKeeps ==
    ASSUME RosterInv, NEW q \in RosterRequests, CheckHistory(q), UNCHANGED registration
    PROVE  RosterInv'
<1> DEFINE work == rosterRequest[q]
           kept == Retirement(work.on)
           next == IF ~HasHistory(work.on) THEN "deleting"
                   ELSE IF work.entity = kept THEN "auditing" ELSE "loading"
           more == [work EXCEPT !.at = next,
                                !.entity = IF next = "loading" THEN kept ELSE @]
<1>1. work \in Saves
  BY AtSave DEF CheckHistory, RosterAt
<1>2. kept \in {"INACTIVE", "RETIRED"} /\ kept \in StatusesOf(work.on)
  BY DEF Retirement, StatusesOf, CompetitorStatus, TeamStatus
<1>3. more \in Saves /\ more.on = work.on /\ more.at = next
      /\ (next = "loading" => more.entity = kept)
  BY <1>1, <1>2 DEF Saves, RosterStatus, CompetitorStatus, TeamStatus
<1>4. RowsTyped' /\ RowsRespected
  BY DEF RosterInv, RosterTyped, RowsTyped, CheckHistory, RosterReadOnly, RowsRespected, Exists
<1>5. RosterProceed(q, more) /\ KeepMemberships
  BY DEF CheckHistory, RosterReadOnly
<1>6. more.at \in {"checking", "loading", "writing", "inserting"} =>
          more.entity \in StatusesOf(more.on)
  BY <1>2, <1>3
<1> HIDE DEF more
<1> QED BY <1>3, <1>4, <1>5, <1>6, SaveGoesOn

(* The foreign keys refuse to delete a row that has a history. *)
LEMMA DeleteKeeps ==
    ASSUME RosterInv, NEW q \in RosterRequests, DeleteParticipant(q),
           UNCHANGED registration
    PROVE  RosterInv'
<1> DEFINE p == rosterRequest[q].on
<1>1. p \in Participants
  BY AtSave DEF DeleteParticipant, RosterAt
<1>2. RowsTyped' /\ RowsRespected
  BY <1>1 DEF RosterInv, RosterTyped, RowsTyped, DeleteParticipant, RosterStatus, RowsRespected,
              Exists
<1>3. RosterTask("auditing", p, "DELETED", NoRows) \in Saves
  BY <1>1 DEF RosterTask, Saves, NoRows, RosterStatus
<1>4. CASE RosterFinish(q)
  BY <1>2, <1>4, SaveGoesOn DEF DeleteParticipant, RosterFinish, RosterIdle
<1>5. CASE RosterProceed(q, RosterTask("auditing", p, "DELETED", NoRows))
  BY <1>2, <1>3, <1>5, SaveGoesOn DEF DeleteParticipant, RosterTask
<1> QED BY <1>4, <1>5 DEF DeleteParticipant

(* save compares its entity with the row, if it is still there. *)
LEMMA LoadKeeps ==
    ASSUME RosterInv, NEW q \in RosterRequests, LoadParticipant(q), UNCHANGED registration
    PROVE  RosterInv'
<1> DEFINE work == rosterRequest[q]
           found == [work EXCEPT !.at = "writing",
                                 !.dirty = status[work.on] # work.entity,
                                 !.orphans = work.rows # LoadedRows(work.on)]
           lost == [work EXCEPT !.at = "inserting"]
<1>1. work \in Saves /\ work.entity \in StatusesOf(work.on)
  BY AtSave DEF LoadParticipant, RosterAt, RosterInv, SavesLive
<1>2. found \in Saves /\ found.entity = work.entity /\ found.on = work.on
  BY <1>1 DEF Saves
<1>3. lost \in Saves /\ lost.entity = work.entity /\ lost.on = work.on
  BY <1>1 DEF Saves
<1>4. RowsTyped' /\ RowsRespected
  BY DEF RosterInv, RosterTyped, RowsTyped, LoadParticipant, RosterReadOnly, RowsRespected, Exists
<1>5. KeepMemberships /\ (RosterProceed(q, found) \/ RosterProceed(q, lost))
  BY DEF LoadParticipant, RosterReadOnly
<1> HIDE DEF found, lost
<1> QED BY <1>1, <1>2, <1>3, <1>4, <1>5, SaveGoesOn

(* The UPDATE waits for the lock of a team, and keeps the row. *)
LEMMA WriteKeeps ==
    ASSUME RosterInv, NEW q \in RosterRequests, WriteParticipant(q), UNCHANGED registration
    PROVE  RosterInv'
<1> DEFINE work == rosterRequest[q]
           done == [work EXCEPT !.at = "auditing"]
<1>1. work \in Saves /\ work.entity \in StatusesOf(work.on)
  BY AtSave DEF WriteParticipant, RosterAt, RosterInv, SavesLive
<1>2. done \in Saves /\ done.at = "auditing"
  BY <1>1 DEF Saves
<1>3. work.on \in Participants /\ work.entity \in RosterStatus
  BY <1>1 DEF Saves
<1>4. RowsTyped'
  <2>1. CASE UNCHANGED status
    BY <2>1 DEF RosterInv, RosterTyped, RowsTyped, Exists
  <2>2. CASE status' = [status EXCEPT ![work.on] = work.entity]
    BY <1>1, <1>3, <2>2 DEF RosterInv, RosterTyped, RowsTyped, Exists
  <2> QED BY <2>1, <2>2, <1>3 DEF WriteParticipant, RosterInv, RosterTyped, RowsTyped
<1>5. RowsRespected
  <2>1. work.entity \notin {"NONE", "DELETED"}
    BY <1>1 DEF StatusesOf, CompetitorStatus, TeamStatus
  <2>2. \A p \in Participants : status'[p] = status[p] \/ (p = work.on /\ work.dirty
                                      /\ Exists(p) /\ status'[p] = work.entity)
    BY <1>3 DEF RosterInv, RosterTyped, RowsTyped, WriteParticipant
  <2>3. work.dirty => RowUnlocked(work.on)
    BY DEF WriteParticipant
  <2> HIDE DEF work
  <2> QED BY <2>1, <2>2, <2>3 DEF RowsRespected, Exists
<1>6. KeepMemberships /\ (RosterProceed(q, done) \/ RosterProceed(q, RosterIdle))
  BY DEF WriteParticipant, RosterFinish
<1> HIDE DEF done
<1> QED BY <1>2, <1>4, <1>5, <1>6, SaveGoesOn DEF RosterIdle

(* The INSERT of a lost row brings it back. *)
LEMMA InsertKeeps ==
    ASSUME RosterInv, NEW q \in RosterRequests, InsertParticipant(q), UNCHANGED registration
    PROVE  RosterInv'
<1> DEFINE work == rosterRequest[q]
           done == [work EXCEPT !.at = "auditing"]
<1>1. work \in Saves /\ work.entity \in StatusesOf(work.on)
  BY AtSave DEF InsertParticipant, RosterAt, RosterInv, SavesLive
<1>2. done \in Saves /\ done.at = "auditing"
  BY <1>1 DEF Saves
<1>3. work.on \in Participants /\ work.entity \in RosterStatus
  BY <1>1 DEF Saves
<1>4. RowsTyped'
  <2>1. CASE UNCHANGED status
    BY <2>1 DEF RosterInv, RosterTyped, RowsTyped, Exists
  <2>2. CASE status' = [status EXCEPT ![work.on] = work.entity]
    BY <1>1, <1>3, <2>2 DEF RosterInv, RosterTyped, RowsTyped, Exists
  <2> QED BY <2>1, <2>2 DEF InsertParticipant
<1>5. RowsRespected
  BY <1>3 DEF RosterInv, RosterTyped, RowsTyped, InsertParticipant, RowsRespected, Exists
<1>6. KeepMemberships /\ (RosterProceed(q, done) \/ RosterProceed(q, RosterIdle))
  BY DEF InsertParticipant, RosterFinish
<1> HIDE DEF done
<1> QED BY <1>2, <1>4, <1>5, <1>6, SaveGoesOn DEF RosterIdle

(* The audit event changes no row. *)
LEMMA AuditKeeps ==
    ASSUME RosterInv, NEW q \in RosterRequests, AuditParticipant(q), UNCHANGED registration
    PROVE  RosterInv'
<1>1. RowsTyped' /\ RowsRespected
  BY DEF RosterInv, RosterTyped, RowsTyped, AuditParticipant, RowsRespected, Exists
<1> QED BY <1>1, SaveGoesOn DEF AuditParticipant, RosterFinish, RosterIdle

-----------------------------------------------------------------------------
(* The transactions of addMember and removeMember.                           *)

(* The request is in a transaction of addMember or removeMember. *)
LEMMA AtMembership ==
    ASSUME RosterInv, NEW q \in RosterRequests,
           rosterRequest[q].at \in Joining \cup {"leaving"}
    PROVE  /\ rosterRequest[q] \in MembershipWork
           /\ rosterRequest[q].on \in Stints
           /\ rosterRequest[q].on[1] \in Teams
           /\ rosterRequest[q].on[2] \in Competitors
           /\ rosterRequest[q].on = <<rosterRequest[q].on[1], rosterRequest[q].on[2]>>
<1>1. rosterRequest[q] \in MembershipWork
  BY DEF RosterInv, RosterTyped, RowsTyped, Saves, MembershipWork, RosterIdle, Joining
<1> QED BY <1>1 DEF MembershipWork, Stints

(* A row that no transaction holds is locked, and the request goes on.       *)
LEMMA AddMemberKeeps ==
    ASSUME RosterInv, NEW q \in RosterRequests, NEW t \in Teams, NEW c \in Competitors,
           AddMember(q, t, c), UNCHANGED registration
    PROVE  RosterInv'
<1> DEFINE work == [at |-> "finding", on |-> <<t, c>>]
<1>1. OthersWait(q) /\ rosterRequest'[q] = work
  BY MoveOne DEF RosterInv, AddMember
<1>2. work \in MembershipWork
  BY DEF MembershipWork, Stints
<1>3. RosterTyped'
  BY <1>2 DEF RosterInv, RosterTyped, RowsTyped, Exists, AddMember, RosterProceed
<1>4. TeamsRespected(q) /\ RowsRespected /\ UNCHANGED membership
  BY DEF AddMember, TeamsRespected, RowsRespected, Exists, RosterInv, RosterTyped
<1>5. teamLock'[t] = q /\ status'[t] = "ACTIVE"
  BY DEF AddMember, RosterInv, RosterTyped
<1>6. (SavesLive(q) /\ TeamHeld(q) /\ HasRoom(q))'
  BY <1>1, <1>5 DEF SavesLive, TeamHeld, HasRoom
<1> QED BY <1>1, <1>3, <1>4, <1>6, RowStep

(* removeMember locks a membership and changes nothing yet. *)
LEMMA RemoveMemberKeeps ==
    ASSUME RosterInv, NEW q \in RosterRequests, NEW t \in Teams, NEW c \in Competitors,
           RemoveMember(q, t, c), UNCHANGED registration
    PROVE  RosterInv'
<1> DEFINE work == [at |-> "leaving", on |-> <<t, c>>]
<1>1. OthersWait(q) /\ rosterRequest'[q] = work
  BY MoveOne DEF RosterInv, RemoveMember
<1>2. work \in MembershipWork
  BY DEF MembershipWork, Stints
<1>3. RosterTyped'
  BY <1>2 DEF RosterInv, RosterTyped, RowsTyped, Exists, RemoveMember, RosterProceed
<1>4. TeamsRespected(q) /\ RowsRespected /\ UNCHANGED membership
  BY DEF RemoveMember, TeamsRespected, RowsRespected, Exists
<1>5. (SavesLive(q) /\ TeamHeld(q) /\ HasRoom(q))'
  BY <1>1 DEF SavesLive, TeamHeld, HasRoom, Joining
<1> QED BY <1>1, <1>3, <1>4, <1>5, RowStep

(* An addition makes its next read, and keeps its team.                      *)
LEMMA AdditionGoesOn ==
    ASSUME RosterInv, NEW q \in RosterRequests, rosterRequest[q].at \in Joining,
           NEW step \in Joining,
           RosterProceed(q, [rosterRequest[q] EXCEPT !.at = step]),
           step = "joining" =>
               Cardinality(ActiveMembers(rosterRequest[q].on[1])) < MaxMembers,
           RosterReadOnly, UNCHANGED registration
    PROVE  RosterInv'
<1> DEFINE old == rosterRequest[q]
           work == [old EXCEPT !.at = step]
<1>1. OthersWait(q) /\ rosterRequest'[q] = work
  BY MoveOne DEF RosterInv
<1>2. work \in MembershipWork /\ work.at = step /\ work.on = old.on
  BY AtMembership DEF MembershipWork, Joining
<1>3. RosterTyped'
  BY <1>2 DEF RosterInv, RosterTyped, RowsTyped, Exists, RosterReadOnly,
     KeepMemberships, RosterProceed
<1>4. TeamsRespected(q) /\ RowsRespected /\ UNCHANGED <<membership, teamLock, status>>
  BY DEF RosterReadOnly, KeepMemberships, TeamsRespected, RowsRespected, Exists
<1>5. teamLock[old.on[1]] = q /\ status[old.on[1]] = "ACTIVE"
  BY DEF RosterInv, TeamHeld
<1> HIDE DEF work, old
<1>6. SavesLive(q)' /\ TeamHeld(q)'
  BY <1>1, <1>2, <1>4, <1>5 DEF SavesLive, TeamHeld, Joining
<1>7. HasRoom(q)'
  BY <1>1, <1>2, <1>4 DEF HasRoom, ActiveMembers, old
<1> QED BY <1>1, <1>3, <1>4, <1>6, <1>7, RowStep

(* The competitor is found, or the addition rolls back. *)
LEMMA FindKeeps ==
    ASSUME RosterInv, NEW q \in RosterRequests, FindCompetitor(q), UNCHANGED registration
    PROVE  RosterInv'
<1>1. CASE RollbackMembership(q)
  BY <1>1, EndsQuietly
<1>2. CASE ~RollbackMembership(q)
  <2>1. /\ RosterProceed(q, [rosterRequest[q] EXCEPT !.at = "counting"])
        /\ RosterReadOnly
        /\ rosterRequest[q].at \in Joining
    BY <1>2 DEF FindCompetitor, RosterAt, Joining
  <2> QED BY <2>1, AdditionGoesOn DEF Joining
<1> QED BY <1>1, <1>2

(* A place is left, or the addition rolls back. *)
LEMMA CountKeeps ==
    ASSUME RosterInv, NEW q \in RosterRequests, CountMembers(q), UNCHANGED registration
    PROVE  RosterInv'
<1>1. CASE RollbackMembership(q)
  BY <1>1, EndsQuietly
<1>2. CASE ~RollbackMembership(q)
  <2>1. /\ RosterProceed(q, [rosterRequest[q] EXCEPT !.at = "joining"])
        /\ RosterReadOnly
        /\ rosterRequest[q].at \in Joining
        /\ Cardinality(ActiveMembers(rosterRequest[q].on[1])) < MaxMembers
    BY <1>2 DEF CountMembers, RosterAt, Joining
  <2> QED BY <2>1, AdditionGoesOn DEF Joining
<1> QED BY <1>1, <1>2

(* The end of a transaction that wrote a membership.                         *)
LEMMA CommitStep ==
    ASSUME RosterInv, NEW q \in RosterRequests, NEW m \in Stints,
           NEW row \in [rows : Nat, active : BOOLEAN], NEW event,
           CommitMembership(q, m, row, event)
    PROVE  /\ OthersWait(q) /\ rosterRequest'[q] = RosterIdle
           /\ RosterTyped' /\ TeamsRespected(q) /\ RowsRespected
           /\ membership' = [membership EXCEPT ![m] = row]
           /\ status' = status
           /\ (SavesLive(q) /\ TeamHeld(q) /\ HasRoom(q))'
<1>1. OthersWait(q) /\ rosterRequest'[q] = RosterIdle
  BY MoveOne DEF RosterInv, CommitMembership, EndMembership, RosterFinish
<1>2. RosterTyped'
  BY RosterAssumption DEF RosterInv, RosterTyped, RowsTyped, Exists, CommitMembership,
     EndMembership, RosterFinish, RosterProceed, RosterAssumption
<1>3. TeamsRespected(q) /\ RowsRespected
  BY DEF CommitMembership, EndMembership, TeamsRespected, RowsRespected, Exists
<1>4. (SavesLive(q) /\ TeamHeld(q) /\ HasRoom(q))'
  BY <1>1 DEF SavesLive, TeamHeld, HasRoom, RosterIdle, Joining
<1> QED BY <1>1, <1>2, <1>3, <1>4 DEF CommitMembership

(* The lock of the team lets nobody else take the place that was counted,    *)
(* and the index refuses a second active membership.                         *)
LEMMA JoinKeeps ==
    ASSUME RosterInv, NEW q \in RosterRequests, JoinTeam(q), UNCHANGED registration
    PROVE  RosterInv'
<1>1. CASE RollbackMembership(q)
  BY <1>1, EndsQuietly
<1>2. CASE ~RollbackMembership(q)
  <2>0. PICK t \in Teams, c \in Competitors : rosterRequest[q].on = <<t, c>>
    BY <1>2, AtMembership DEF JoinTeam, RosterAt, Joining
  <2> DEFINE m == <<t, c>>
             row == [rows |-> membership[m].rows + 1, active |-> TRUE]
  <2>1. /\ ActiveMembershipIndex(c) /\ Exists(t) /\ Exists(c)
        /\ CommitMembership(q, m, row, "JOINED")
        /\ rosterRequest[q].at = "joining"
    BY <1>2, <2>0 DEF JoinTeam, RosterAt
  <2>2. m \in Stints /\ m = <<t, c>>
    BY DEF Stints
  <2>3. row \in [rows : Nat, active : BOOLEAN]
    BY <2>2 DEF RosterInv, RosterTyped
  <2>4. /\ OthersWait(q) /\ RosterTyped' /\ TeamsRespected(q) /\ RowsRespected
        /\ membership' = [membership EXCEPT ![m] = row]
        /\ status' = status
        /\ (SavesLive(q) /\ TeamHeld(q) /\ HasRoom(q))'
    <3> HIDE DEF m, row
    <3> QED BY <2>1, <2>2, <2>3, CommitStep
  <2>5. \A u \in Teams : ~membership[<<u, c>>].active
    BY <2>1 DEF ActiveMembershipIndex, ActiveTeams
  <2>6. teamLock[t] = q /\ Cardinality(ActiveMembers(t)) < MaxMembers
    BY <2>0, <2>1 DEF RosterInv, TeamHeld, HasRoom, Joining
  <2> HIDE DEF m, row
  <2>7. \A u \in Teams, d \in Competitors :
           membership'[<<u, d>>].active <=> membership[<<u, d>>].active \/ (u = t /\ d = c)
    BY <2>2, <2>4 DEF RosterInv, RosterTyped, RowsTyped, Stints, row
  <2>8. \A k \in Stints : membership'[k].rows = membership[k].rows \/ k = m
    BY <2>2, <2>4 DEF RosterInv, RosterTyped
  <2>9. \A u \in Teams \ {t} : ActiveMembers(u)' = ActiveMembers(u)
    BY <2>7 DEF ActiveMembers
  <2>10. ActiveMembers(t)' = ActiveMembers(t) \cup {c}
    BY <2>7 DEF ActiveMembers
  <2>11. OneTeam'
    BY <2>2, <2>5, <2>7 DEF RosterInv, OneTeam
  <2>12. TeamsWithinMaximum'
    <3>1. c \notin ActiveMembers(t)
      BY <2>2, <2>5 DEF ActiveMembers
    <3>2. Cardinality(ActiveMembers(t)') = Cardinality(ActiveMembers(t)) + 1
      BY <2>10, <3>1, MembersFinite, FS_AddElement
    <3>3. Cardinality(ActiveMembers(t)) \in Nat
      BY MembersFinite, FS_CardinalityType
    <3>4. Cardinality(ActiveMembers(t)') <= MaxMembers
      BY <2>6, <3>2, <3>3, RosterAssumption DEF RosterAssumption
    <3> QED BY <2>9, <3>4 DEF RosterInv, TeamsWithinMaximum
  <2>13. HistoryKeepsItsRows'
    BY <2>1, <2>2, <2>4, <2>8
       DEF RosterInv, HistoryKeepsItsRows, MembershipHistory, RegistrationHistory, Exists
  <2>14. ASSUME NEW p \in RosterRequests PROVE (SavesLive(p) /\ TeamHeld(p) /\ HasRoom(p))'
    <3>1. CASE p = q BY <2>4, <3>1
    <3>2. CASE p # q
      <4>1. SavesLive(p)' /\ TeamHeld(p)'
        BY <2>4, <3>2, HeldElsewhere
      <4>2. ASSUME rosterRequest[p].at = "joining" PROVE HasRoom(p)'
        <5>1. rosterRequest[p].on[1] \in Teams
          BY <4>2, AtMembership DEF Joining
        <5>2. teamLock[rosterRequest[p].on[1]] = p
          BY <4>2 DEF RosterInv, TeamHeld, Joining
        <5>3. rosterRequest[p].on[1] # t
          BY <2>6, <3>2, <5>2
        <5>4. rosterRequest'[p] = rosterRequest[p]
          BY <2>4, <3>2 DEF OthersWait
        <5> QED BY <2>9, <4>2, <5>1, <5>3, <5>4 DEF RosterInv, HasRoom
      <4> QED BY <2>4, <3>2, <4>1, <4>2 DEF OthersWait, HasRoom
    <3> QED BY <3>1, <3>2
  <2> QED BY <2>4, <2>11, <2>12, <2>13, <2>14 DEF RosterInv
<1> QED BY <1>1, <1>2

(* A member less leaves every count no higher, and its row stays. *)
LEMMA LeaveKeeps ==
    ASSUME RosterInv, NEW q \in RosterRequests, LeaveTeam(q), UNCHANGED registration
    PROVE  RosterInv'
<1> DEFINE m == rosterRequest[q].on
           row == [membership[m] EXCEPT !.active = FALSE]
<1>1. m \in Stints /\ CommitMembership(q, m, row, "LEFT")
  BY AtMembership DEF LeaveTeam, RosterAt
<1>2. /\ row \in [rows : Nat, active : BOOLEAN]
      /\ row.rows = membership[m].rows /\ row.active = FALSE
  BY <1>1 DEF RosterInv, RosterTyped
<1>3. /\ OthersWait(q) /\ RosterTyped' /\ TeamsRespected(q) /\ RowsRespected
      /\ membership' = [membership EXCEPT ![m] = row]
      /\ status' = status
      /\ (SavesLive(q) /\ TeamHeld(q) /\ HasRoom(q))'
  BY <1>1, <1>2, CommitStep
<1> HIDE DEF m, row
<1>4. \A k \in Stints : /\ membership'[k].rows = membership[k].rows
                        /\ membership'[k].active => membership[k].active
  BY <1>1, <1>2, <1>3 DEF RosterInv, RosterTyped
<1>5. ASSUME NEW u \in Teams
      PROVE  /\ Cardinality(ActiveMembers(u)') <= Cardinality(ActiveMembers(u))
             /\ Cardinality(ActiveMembers(u)') \in Nat
             /\ Cardinality(ActiveMembers(u)) \in Nat
  <2>1. ActiveMembers(u)' \subseteq ActiveMembers(u)
    BY <1>4 DEF ActiveMembers, Stints
  <2>2. IsFiniteSet(ActiveMembers(u)) /\ IsFiniteSet(ActiveMembers(u)')
    BY <2>1, MembersFinite, FS_Subset
  <2> QED BY <2>1, <2>2, FS_Subset, FS_CardinalityType
<1>6. OneTeam'
  BY <1>4 DEF RosterInv, OneTeam, Stints
<1>7. TeamsWithinMaximum'
  BY <1>5, RosterAssumption DEF RosterInv, TeamsWithinMaximum, RosterAssumption
<1>8. HistoryKeepsItsRows'
  BY <1>3, <1>4
     DEF RosterInv, HistoryKeepsItsRows, MembershipHistory, RegistrationHistory, Exists
<1>9. ASSUME NEW p \in RosterRequests PROVE (SavesLive(p) /\ TeamHeld(p) /\ HasRoom(p))'
  <2>1. CASE p = q BY <1>3, <2>1
  <2>2. CASE p # q
    <3>1. SavesLive(p)' /\ TeamHeld(p)'
      BY <1>3, <2>2, HeldElsewhere
    <3>2. rosterRequest'[p] = rosterRequest[p]
      BY <1>3, <2>2 DEF OthersWait
    <3>3. ASSUME rosterRequest[p].at = "joining" PROVE HasRoom(p)'
      <4>1. rosterRequest[p].on[1] \in Teams
        BY <3>3, AtMembership DEF Joining
      <4> QED BY <1>5, <3>2, <3>3, <4>1, RosterAssumption
              DEF RosterInv, HasRoom, RosterAssumption
    <3> QED BY <3>1, <3>2, <3>3 DEF HasRoom
  <2> QED BY <2>1, <2>2
<1> QED BY <1>3, <1>6, <1>7, <1>8, <1>9 DEF RosterInv

-----------------------------------------------------------------------------
(* Every step of a roster request keeps the invariant.                       *)
LEMMA RosterNextKeeps ==
    ASSUME RosterInv, RosterNext, UNCHANGED registration
    PROVE  RosterInv'
<1> USE RosterAssumption DEF RosterAssumption
<1>1. ASSUME NEW p \in Participants, Exists(p)
      PROVE  status[p] \in StatusesOf(p)
  BY <1>1 DEF RosterInv, RosterTyped, RowsTyped
<1>2. ASSUME NEW q \in RosterRequests, NEW c \in Competitors,
             CreateCompetitor(q, c) \/ UpdateCompetitor(q, c)
             \/ UpdateCompetitorStatus(q, c) \/ RemoveCompetitor(q, c)
      PROVE  RosterInv'
  <2>0. StatusesOf(c) = CompetitorStatus
    BY DEF StatusesOf
  <2>1. CASE CreateCompetitor(q, c)
    BY <2>0, <2>1, CreateKeeps DEF CreateCompetitor
  <2>2. CASE UpdateCompetitor(q, c)
    BY <1>1, <2>2, BeginKeeps DEF UpdateCompetitor, Begin
  <2>3. CASE UpdateCompetitorStatus(q, c)
    <3>1. PICK target \in allowedStatusTransitions[status[c]] :
                   Begin(q, c, "loading", target)
      BY <2>3 DEF UpdateCompetitorStatus
    <3>2. status[c] \in CompetitorStatus
      BY <1>1, <2>0, <2>3 DEF UpdateCompetitorStatus
    <3>3. target \in StatusesOf(c)
      BY <2>0, <3>1, <3>2 DEF allowedStatusTransitions, CompetitorStatus
    <3> QED BY <3>1, <3>3, BeginKeeps
  <2>4. CASE RemoveCompetitor(q, c)
    BY <1>1, <2>4, BeginKeeps DEF RemoveCompetitor, Begin
  <2> QED BY <1>2, <2>1, <2>2, <2>3, <2>4
<1>3. ASSUME NEW q \in RosterRequests, NEW t \in Teams,
             CreateTeam(q, t) \/ UpdateTeam(q, t)
             \/ UpdateTeamStatus(q, t) \/ RemoveTeam(q, t)
      PROVE  RosterInv'
  <2>0. StatusesOf(t) = TeamStatus
    BY DEF StatusesOf
  <2>1. CASE CreateTeam(q, t)
    BY <2>0, <2>1, CreateKeeps DEF CreateTeam
  <2>2. CASE UpdateTeam(q, t)
    BY <1>1, <2>2, BeginKeeps DEF UpdateTeam, Begin
  <2>3. CASE UpdateTeamStatus(q, t)
    BY <2>0, <2>3, BeginKeeps DEF UpdateTeamStatus
  <2>4. CASE RemoveTeam(q, t)
    BY <1>1, <2>4, BeginKeeps DEF RemoveTeam, Begin
  <2> QED BY <1>3, <2>1, <2>2, <2>3, <2>4
<1>4. ASSUME NEW q \in RosterRequests, RosterStep(q) PROVE RosterInv'
  <2>1. CASE CheckHistory(q) \/ DeleteParticipant(q)
    BY <2>1, CheckHistoryKeeps, DeleteKeeps
  <2>2. CASE LoadParticipant(q) \/ WriteParticipant(q)
    BY <2>2, LoadKeeps, WriteKeeps
  <2>3. CASE InsertParticipant(q) \/ AuditParticipant(q)
    BY <2>3, InsertKeeps, AuditKeeps
  <2>4. CASE FindCompetitor(q) \/ CountMembers(q)
    BY <2>4, FindKeeps, CountKeeps
  <2>5. CASE JoinTeam(q) \/ LeaveTeam(q)
    BY <2>5, JoinKeeps, LeaveKeeps
  <2> QED BY <1>4, <2>1, <2>2, <2>3, <2>4, <2>5 DEF RosterStep
<1>5. ASSUME NEW q \in RosterRequests, AbandonRosterRequest(q) PROVE RosterInv'
  BY <1>5, EndsQuietly DEF AbandonRosterRequest
<1> QED BY <1>2, <1>3, <1>4, <1>5, AddMemberKeeps, RemoveMemberKeeps DEF RosterNext

(* Every entry is a row of race_registrations. *)
EntriesKnown == DOMAIN registration = Entries

(* The roster does not change, and the one row an entry inserts is of a      *)
(* participant that exists.                                                  *)
LEMMA EntryKeepsRoster ==
    ASSUME RosterInv, EntriesKnown, EntryNext, UNCHANGED rosterVars
    PROVE  RosterInv' /\ EntriesKnown'
<1>1. \/ UNCHANGED registration
      \/ \E q \in RegistrationRequests :
            /\ Exists(Participant(q))
            /\ registration' = [registration EXCEPT ![registrationRequest[q].id] = Pending]
  <2>1. ASSUME NEW q \in RegistrationRequests, NEW k \in Entries, BeginEntry(q, k)
        PROVE  UNCHANGED registration
    BY <2>1 DEF BeginEntry, LockRaceForEntry, RegistrationReadOnly
  <2>2. ASSUME NEW q \in RegistrationRequests, AbandonEntry(q)
        PROVE  UNCHANGED registration
    BY <2>2 DEF AbandonEntry, AbandonRegistrationRequest, RollbackRegistration,
                RegistrationReadOnly
  <2>3. ASSUME NEW q \in RegistrationRequests,
               ReadParticipant(q) \/ CheckDuplicate(q) \/ ReadMemberships(q)
               \/ CheckOverlap(q)
        PROVE  UNCHANGED registration
    BY <2>3 DEF ReadParticipant, CheckDuplicate, ReadMemberships, CheckOverlap, Reads,
                Refuse, Accept, RollbackRegistration, RegistrationReadOnly, storeVars
  <2>4. ASSUME NEW q \in RegistrationRequests, InsertValidatedEntry(q)
        PROVE  \/ UNCHANGED registration
               \/ /\ Exists(Participant(q))
                  /\ registration' = [registration EXCEPT
                                        ![registrationRequest[q].id] = Pending]
    BY <2>4 DEF InsertValidatedEntry, InsertEntry, CommitRegistration,
                RollbackRegistration, RegistrationReadOnly
  <2> QED BY <2>1, <2>2, <2>3, <2>4 DEF EntryNext, EntryStep
<1>2. EntriesKnown'
  BY <1>1 DEF EntriesKnown
<1>3. ASSUME NEW p \in Participants, RegistrationHistory(p)'
      PROVE  RegistrationHistory(p) \/ Exists(p)
  BY <1>1, <1>3 DEF RegistrationHistory, EntriesKnown, Participant
<1>4. HistoryKeepsItsRows'
  BY <1>3 DEF RosterInv, HistoryKeepsItsRows, MembershipHistory, Exists, rosterVars
<1>5. ASSUME NEW q \in RosterRequests PROVE (SavesLive(q) /\ TeamHeld(q) /\ HasRoom(q))'
  BY DEF RosterInv, SavesLive, TeamHeld, HasRoom, ActiveMembers, rosterVars
<1>6. RosterTyped' /\ OneTeam' /\ TeamsWithinMaximum'
  BY DEF RosterInv, RosterTyped, RowsTyped, Exists, OneTeam, TeamsWithinMaximum,
         ActiveMembers, rosterVars
<1> QED BY <1>2, <1>4, <1>5, <1>6 DEF RosterInv

(* Before the first row there is nothing to keep.                            *)
LEMMA RosterStartsWell == Init => RosterInv /\ EntriesKnown
<1> SUFFICES ASSUME Init PROVE RosterInv /\ EntriesKnown
  OBVIOUS
<1> USE DEF Init, RosterInit, RosterStarts
<1>1. RosterTyped
  BY DEF RosterTyped, RowsTyped, Exists, RosterStatus, Nobody, NoMembership
<1>2. ASSUME NEW q \in RosterRequests PROVE SavesLive(q) /\ TeamHeld(q) /\ HasRoom(q)
  BY DEF SavesLive, TeamHeld, HasRoom, RosterIdle, Joining
<1>3. \A m \in Stints : membership[m].active = FALSE /\ membership[m].rows = 0
  BY DEF Nobody, NoMembership
<1>4. OneTeam
  BY <1>3 DEF OneTeam, Stints
<1>5. TeamsWithinMaximum
  <2>1. ASSUME NEW t \in Teams PROVE Cardinality(ActiveMembers(t)) = 0
    <3>1. ActiveMembers(t) = {}
      BY <1>3 DEF ActiveMembers, Stints
    <3> QED BY <3>1, FS_EmptySet
  <2> QED BY <2>1, RosterAssumption DEF TeamsWithinMaximum, RosterAssumption
<1>6. EntriesKnown /\ \A k \in Entries : registration[k].status = "NONE"
  BY DEF EntryInit, EntriesKnown, NoRegistration
<1>7. HistoryKeepsItsRows
  BY <1>3, <1>6 DEF HistoryKeepsItsRows, MembershipHistory, RegistrationHistory
<1> QED BY <1>1, <1>2, <1>4, <1>5, <1>6, <1>7 DEF RosterInv

(* The inductive invariant of the roster.                                    *)
LEMMA RosterInvariant == Spec => [](RosterInv /\ EntriesKnown)
<1>1. RosterInv /\ EntriesKnown /\ [Next]_vars => (RosterInv /\ EntriesKnown)'
  <2> SUFFICES ASSUME RosterInv, EntriesKnown, [Next]_vars
               PROVE  (RosterInv /\ EntriesKnown)'
    OBVIOUS
  <2>1. CASE EntryNext /\ UNCHANGED <<rosterVars, raceType>>
    BY <2>1, EntryKeepsRoster
  <2>2. CASE RosterNext /\ UNCHANGED <<storeVars, registrationRequest, raceType, validation>>
    BY <2>2, RosterNextKeeps DEF storeVars, EntriesKnown
  <2>3. CASE UNCHANGED vars
    <3>1. UNCHANGED <<rosterVars, registration>>
      BY <2>3 DEF vars, storeVars
    <3>2. ASSUME NEW q \in RosterRequests
          PROVE  (SavesLive(q) /\ TeamHeld(q) /\ HasRoom(q))'
      BY <3>1 DEF RosterInv, SavesLive, TeamHeld, HasRoom, ActiveMembers, rosterVars
    <3>3. RosterTyped' /\ OneTeam' /\ TeamsWithinMaximum'
      BY <3>1 DEF RosterInv, RosterTyped, RowsTyped, Exists, OneTeam,
                  TeamsWithinMaximum, ActiveMembers, rosterVars
    <3>4. HistoryKeepsItsRows' /\ EntriesKnown'
      BY <3>1 DEF RosterInv, HistoryKeepsItsRows, MembershipHistory,
                  RegistrationHistory, Exists, EntriesKnown, rosterVars
    <3> QED BY <3>2, <3>3, <3>4 DEF RosterInv
  <2> QED BY <2>1, <2>2, <2>3 DEF Next
<1> QED BY RosterStartsWell, <1>1, PTL DEF Spec

-----------------------------------------------------------------------------
(* However many additions overlap, and though those to different teams hold  *)
(* different locks, a competitor is an active member of one team at most.    *)
THEOREM CompetitorsHaveOneTeam == Spec => []OneActiveTeam
<1>1. OneTeam => OneActiveTeam
  <2> SUFFICES ASSUME OneTeam, NEW c \in Competitors
               PROVE  Cardinality(ActiveTeams(c)) <= 1
    BY DEF OneActiveTeam
  <2>1. CASE ActiveTeams(c) = {}
    BY <2>1, FS_EmptySet
  <2>2. CASE \E t : ActiveTeams(c) = {t}
    BY <2>2, FS_Singleton
  <2> QED BY <2>1, <2>2 DEF OneTeam, ActiveTeams
<1> QED BY <1>1, RosterInvariant, PTL DEF RosterInv

(* addMember counts a team's members and inserts in two statements; the lock *)
(* of the team lets nobody join between them, so no team outgrows its        *)
(* maximum.                                                                  *)
THEOREM TeamsNeverOutgrowMaximum == Spec => []TeamsWithinMaximum
BY RosterInvariant, PTL DEF RosterInv

(* Whoever has a membership or a registration keeps its row, though removals *)
(* look for history before they delete and saves insert what was deleted.    *)
THEOREM HistoryIsNeverOrphaned == Spec => []HistoryKeepsItsRows
BY RosterInvariant, PTL DEF RosterInv

(* A competitor joins a team only while that team is active: a deactivation  *)
(* waits for the addition that holds the team.                               *)
THEOREM OnlyActiveTeamsAreJoined == Spec => JoinsActiveTeam
<1> DEFINE Joined == \A m \in Stints : ~membership[m].active /\ membership'[m].active
                                        => status[m[1]] = "ACTIVE"
<1>1. RosterInv /\ [Next]_vars => [Joined]_vars
  <2> SUFFICES ASSUME RosterInv, [Next]_vars, NEW m \in Stints,
                      ~membership[m].active, membership'[m].active
               PROVE  status[m[1]] = "ACTIVE"
    OBVIOUS
  <2>1. membership' # membership
    OBVIOUS
  <2>2. RosterNext
    BY <2>1 DEF Next, vars, rosterVars
  <2>3. PICK q \in RosterRequests : JoinTeam(q) \/ LeaveTeam(q)
    BY <2>1, <2>2
       DEF RosterNext, RosterStep, CreateCompetitor, UpdateCompetitor,
           UpdateCompetitorStatus, RemoveCompetitor, CreateTeam, UpdateTeam,
           UpdateTeamStatus, RemoveTeam, Create, Begin, AddMember, RemoveMember,
           CheckHistory, DeleteParticipant, LoadParticipant, WriteParticipant,
           InsertParticipant, AuditParticipant, FindCompetitor, CountMembers,
           AbandonRosterRequest, RollbackMembership, KeepMemberships, RosterReadOnly
  <2>4. rosterRequest[q].on \in Stints
    BY <2>3, AtMembership DEF JoinTeam, LeaveTeam, RosterAt, Joining
  <2>5. CASE JoinTeam(q)
    <3>1. rosterRequest[q].on = m
      BY <2>1, <2>4, <2>5 DEF JoinTeam, CommitMembership, RollbackMembership, RosterInv,
                              RosterTyped
    <3> QED BY <2>5, <3>1 DEF RosterInv, TeamHeld, JoinTeam, RosterAt, Joining
  <2>6. CASE LeaveTeam(q)
    BY <2>4, <2>6 DEF LeaveTeam, CommitMembership, RosterInv, RosterTyped
  <2> QED BY <2>3, <2>5, <2>6
<1> QED BY <1>1, RosterInvariant, PTL DEF Spec, JoinsActiveTeam

-----------------------------------------------------------------------------
ReadTypes == [step : {"none", "participant", "duplicate", "memberships", "overlap",
                      "done"},
              members : SUBSET Competitors,
              teams : SUBSET Teams]

EntryTyped ==
    /\ registration \in [Entries -> RegistrationRow \cup {NoRegistration}]
    /\ raceLock \in [Races -> Requests \cup {Free}]
    /\ RegistrationsTypeOK
    /\ validation \in [RegistrationRequests -> ReadTypes]

(* Where an entry is says which reads its validation has made. *)
InStep(q) ==
    \/ registrationRequest[q] = RegistrationIdle /\ validation[q].step = "none"
    \/ RegistrationAt(q, "validating")
       /\ validation[q].step \in {"participant", "duplicate", "memberships", "overlap"}
    \/ RegistrationAt(q, "entering") /\ validation[q].step = "done"

HoldsRace(q) == validation[q].step # "none" => raceLock[RaceOf(q)] = q

(* What it has read of the race still holds; of an individual it has read no *)
(* members.                                                                  *)
StillFresh(q) ==
    /\ validation[q].step \in {"memberships", "overlap", "done"} =>
           registration[registrationRequest[q].id].status = "NONE"
    /\ validation[q].step = "duplicate" =>
           /\ validation[q].teams = {}
           /\ Participant(q) \notin Teams => validation[q].members = {}
    /\ validation[q].step = "memberships" => validation[q].members = {}
    /\ validation[q].step = "done" => Overlap(q) = {}

EntryInv ==
    /\ EntryTyped
    /\ \A q \in RegistrationRequests : InStep(q) /\ HoldsRace(q) /\ StillFresh(q)

(* One request moves; the others keep their reads and their races. *)
OthersKeep(q) ==
    \A p \in RegistrationRequests \ {q} :
        /\ registrationRequest'[p] = registrationRequest[p]
        /\ validation'[p] = validation[p]
        /\ \A r \in Races : raceLock[r] = p => raceLock'[r] = p

(* It writes to no race but one it holds. *)
WritesOwnRace(q) ==
    \A k \in Entries : registration'[k] # registration[k] => raceLock[k[1]] = q

-----------------------------------------------------------------------------
(* Requests of this kind are not the mark of a free row.                     *)
LEMMA RequestsAreNotFree == \A q \in RegistrationRequests : q \in Requests /\ q # Free
BY StoreAssumption DEF StoreAssumption, Requests

(* A request that is not idle has an entry. *)
LEMMA AtEntry ==
    ASSUME EntryInv, NEW q \in RegistrationRequests, validation[q].step # "none"
    PROVE  /\ registrationRequest[q] \in RegistrationWork
           /\ registrationRequest[q].id \in Entries
           /\ RaceOf(q) \in Races
           /\ Participant(q) \in Participants
           /\ registrationRequest[q].id = <<RaceOf(q), Participant(q)>>
<1>1. registrationRequest[q] \in RegistrationWork
  BY DEF EntryInv, EntryTyped, RegistrationsTypeOK, InStep, RegistrationAt, RegistrationIdle
<1> QED BY <1>1 DEF RegistrationWork, Entries, RaceOf, Participant

(* The race of a request that holds it does not change under it.             *)
LEMMA OthersStayFresh ==
    ASSUME EntryInv, NEW q \in RegistrationRequests, NEW p \in RegistrationRequests \ {q},
           OthersKeep(q), WritesOwnRace(q)
    PROVE  InStep(p)' /\ HoldsRace(p)' /\ StillFresh(p)'
<1>1. /\ registrationRequest'[p] = registrationRequest[p]
      /\ validation'[p] = validation[p]
      /\ \A r \in Races : raceLock[r] = p => raceLock'[r] = p
      /\ InStep(p) /\ HoldsRace(p) /\ StillFresh(p)
  BY DEF OthersKeep, EntryInv
<1>2. InStep(p)'
  BY <1>1 DEF InStep, RegistrationAt
<1>3. CASE validation[p].step = "none"
  BY <1>1, <1>2, <1>3 DEF HoldsRace, StillFresh
<1>4. CASE validation[p].step # "none"
  <2> DEFINE r == RaceOf(p)
  <2>1. r \in Races /\ registrationRequest[p].id = <<r, Participant(p)>>
        /\ registrationRequest[p].id \in Entries
    BY <1>4, AtEntry
  <2>2. RaceOf(p)' = RaceOf(p) /\ Participant(p)' = Participant(p)
    BY <1>1 DEF RaceOf, Participant
  <2>3. raceLock[r] = p
    BY <1>1, <1>4 DEF HoldsRace
  <2>4. HoldsRace(p)'
    BY <1>1, <2>1, <2>2, <2>3 DEF HoldsRace
  <2>5. \A x \in Participants : registration'[<<r, x>>] = registration[<<r, x>>]
    BY <2>1, <2>3 DEF WritesOwnRace, Entries
  <2>6. registration'[registrationRequest[p].id] = registration[registrationRequest[p].id]
    BY <1>4, <2>1, <2>5, AtEntry
  <2>7. validation[p].members \subseteq Participants /\ validation[p].teams \subseteq Participants
    BY RosterAssumption DEF EntryInv, EntryTyped, ReadTypes, RosterAssumption
  <2>8. Overlap(p)' = Overlap(p)
    BY <1>1, <2>2, <2>5, <2>7 DEF Overlap, EnteredIn
  <2> QED BY <1>1, <1>2, <2>2, <2>4, <2>6, <2>8 DEF StillFresh
<1> QED BY <1>3, <1>4

(* A step of one request, of which what it leaves true of itself is known.   *)
LEMMA EntryStepKeeps ==
    ASSUME EntryInv, EntryTyped', NEW q \in RegistrationRequests,
           OthersKeep(q), WritesOwnRace(q), (InStep(q) /\ HoldsRace(q) /\ StillFresh(q))'
    PROVE  EntryInv'
<1>1. ASSUME NEW p \in RegistrationRequests PROVE (InStep(p) /\ HoldsRace(p) /\ StillFresh(p))'
  <2>1. CASE p = q BY <2>1
  <2>2. CASE p # q BY <2>2, OthersStayFresh
  <2> QED BY <2>1, <2>2
<1> QED BY <1>1 DEF EntryInv

-----------------------------------------------------------------------------
(* The ends of a request: its locks are free, its reads forgotten.           *)
LEMMA EndKeeps ==
    ASSUME EntryInv, NEW q \in RegistrationRequests, RegistrationFinish(q), Release(q),
           Read(q, NotValidating), WritesOwnRace(q),
           registration' \in [Entries -> RegistrationRow \cup {NoRegistration}]
    PROVE  EntryInv'
<1>1. EntryTyped'
  BY DEF EntryInv, EntryTyped, RegistrationFinish, RegistrationProceed, Release,
         ReleasedRaces, Read, NotValidating, ReadTypes, RegistrationsTypeOK
<1>2. OthersKeep(q)
  BY DEF EntryInv, EntryTyped, OthersKeep, RegistrationFinish, RegistrationProceed,
         Release, ReleasedRaces, Read, RegistrationsTypeOK
<1>3. registrationRequest'[q] = RegistrationIdle /\ validation'[q] = NotValidating
  BY DEF EntryInv, EntryTyped, RegistrationFinish, RegistrationProceed, Read,
         RegistrationsTypeOK
<1>4. (InStep(q) /\ HoldsRace(q) /\ StillFresh(q))'
  BY <1>3 DEF InStep, HoldsRace, StillFresh, NotValidating
<1> QED BY <1>1, <1>2, <1>4, EntryStepKeeps

(* A validation that fails rolls its transaction back. *)
LEMMA RefuseKeeps ==
    ASSUME EntryInv, NEW q \in RegistrationRequests, RollbackRegistration(q),
           Read(q, NotValidating)
    PROVE  EntryInv'
BY EndKeeps DEF RollbackRegistration, RegistrationReadOnly, WritesOwnRace, EntryInv, EntryTyped

(* The race is locked for the entry. *)
LEMMA BeginEntryKeeps ==
    ASSUME EntryInv, NEW q \in RegistrationRequests, NEW k \in Entries, BeginEntry(q, k)
    PROVE  EntryInv'
<1> DEFINE work == RegistrationTask("validating", k, Pending)
           read == [NotValidating EXCEPT !.step = "participant"]
<1>1. work \in RegistrationWork /\ work.at = "validating" /\ work.id = k
  BY DEF RegistrationTask, RegistrationWork, Pending, RegistrationRow, RegistrationStatus
<1>2. read.step = "participant" /\ read \in ReadTypes
  BY DEF NotValidating, ReadTypes
<1>3. /\ raceLock[k[1]] = Free /\ raceLock' = [raceLock EXCEPT ![k[1]] = q]
      /\ registrationRequest' = [registrationRequest EXCEPT ![q] = work]
      /\ validation' = [validation EXCEPT ![q] = read]
      /\ registration' = registration
  BY DEF BeginEntry, LockRaceForEntry, RaceUnlocked, RegistrationProceed, Read,
         RegistrationReadOnly
<1>4. k[1] \in Races
  BY DEF Entries
<1> HIDE DEF work, read
<1>5. EntryTyped'
  BY <1>1, <1>2, <1>3, RequestsAreNotFree DEF EntryInv, EntryTyped, RegistrationsTypeOK
<1>6. OthersKeep(q) /\ WritesOwnRace(q)
  BY <1>3, <1>4, RequestsAreNotFree
     DEF OthersKeep, WritesOwnRace, EntryInv, EntryTyped, RegistrationsTypeOK
<1>7. registrationRequest'[q] = work /\ validation'[q] = read /\ raceLock'[k[1]] = q
  BY <1>3, <1>4 DEF EntryInv, EntryTyped, RegistrationsTypeOK
<1>8. (InStep(q) /\ HoldsRace(q) /\ StillFresh(q))'
  BY <1>1, <1>2, <1>7 DEF InStep, RegistrationAt, HoldsRace, RaceOf, StillFresh
<1> QED BY <1>5, <1>6, <1>8, EntryStepKeeps

-----------------------------------------------------------------------------
(* A read: the request still validates, and knows what it has read.          *)
LEMMA ReadKeeps ==
    ASSUME EntryInv, NEW q \in RegistrationRequests, RegistrationAt(q, "validating"),
           NEW read \in ReadTypes, read.step \in {"duplicate", "memberships", "overlap"},
           Reads(q, read),
           read.step # "duplicate" => registration[registrationRequest[q].id].status = "NONE",
           read.step = "duplicate" =>
               read.teams = {} /\ (Participant(q) \notin Teams => read.members = {}),
           read.step = "memberships" => read.members = {}
    PROVE  EntryInv'
<1>1. /\ UNCHANGED <<registration, raceLock, registrationRequest>>
      /\ validation' = [validation EXCEPT ![q] = read]
      /\ validation'[q] = read
  BY DEF Reads, Read, storeVars, EntryInv, EntryTyped
<1>2. EntryTyped'
  BY <1>1 DEF EntryInv, EntryTyped, RegistrationsTypeOK
<1>3. OthersKeep(q) /\ WritesOwnRace(q)
  BY <1>1 DEF OthersKeep, WritesOwnRace, EntryInv, EntryTyped
<1>4. InStep(q)'
  BY <1>1 DEF InStep, RegistrationAt
<1>5. HoldsRace(q)'
  BY <1>1 DEF HoldsRace, RaceOf, EntryInv, InStep, RegistrationAt, RegistrationIdle
<1>6. StillFresh(q)'
  BY <1>1 DEF StillFresh, Participant
<1> QED BY <1>2, <1>3, <1>4, <1>5, <1>6, EntryStepKeeps

(* The last read: nothing that was read is in the race.                      *)
LEMMA AcceptKeeps ==
    ASSUME EntryInv, NEW q \in RegistrationRequests, RegistrationAt(q, "validating"),
           NEW read \in ReadTypes, Accept(q, read),
           registration[registrationRequest[q].id].status = "NONE",
           \A p \in read.members \cup read.teams : ~EnteredIn(RaceOf(q), p)
    PROVE  EntryInv'
<1> DEFINE work == [registrationRequest[q] EXCEPT !.at = "entering"]
           done == [read EXCEPT !.step = "done"]
<1>1. registrationRequest[q] \in RegistrationWork
  BY AtEntry DEF EntryInv, InStep, RegistrationAt, RegistrationIdle
<1>2. work \in RegistrationWork /\ work.at = "entering" /\ work.id = registrationRequest[q].id
  BY <1>1 DEF RegistrationWork
<1>3. /\ done \in ReadTypes /\ done.step = "done"
      /\ done.members = read.members /\ done.teams = read.teams
  BY DEF ReadTypes
<1>4. /\ registrationRequest' = [registrationRequest EXCEPT ![q] = work]
      /\ validation' = [validation EXCEPT ![q] = done]
      /\ UNCHANGED <<registration, raceLock>>
  BY DEF Accept, Read, RegistrationProceed, KeepLocks, RegistrationReadOnly
<1> HIDE DEF work, done
<1>5. registrationRequest'[q] = work /\ validation'[q] = done
  BY <1>4 DEF EntryInv, EntryTyped, RegistrationsTypeOK
<1>6. EntryTyped'
  BY <1>2, <1>3, <1>4 DEF EntryInv, EntryTyped, RegistrationsTypeOK
<1>7. OthersKeep(q) /\ WritesOwnRace(q)
  BY <1>4 DEF OthersKeep, WritesOwnRace, EntryInv, EntryTyped, RegistrationsTypeOK
<1>8. InStep(q)'
  BY <1>2, <1>3, <1>5 DEF InStep, RegistrationAt
<1>9. HoldsRace(q)'
  <2>1. validation[q].step # "none"
    BY DEF EntryInv, InStep, RegistrationAt, RegistrationIdle
  <2> QED BY <1>2, <1>4, <1>5, <2>1 DEF EntryInv, HoldsRace, RaceOf
<1>10. StillFresh(q)'
  <2>1. Overlap(q)' = {}
    BY <1>2, <1>3, <1>4, <1>5 DEF Overlap, EnteredIn, RaceOf
  <2> QED BY <1>2, <1>3, <1>4, <1>5, <2>1 DEF StillFresh
<1> QED BY <1>6, <1>7, <1>8, <1>9, <1>10, EntryStepKeeps

(* The participant and, for a team, its members. *)
LEMMA ReadParticipantKeeps ==
    ASSUME EntryInv, NEW q \in RegistrationRequests, ReadParticipant(q)
    PROVE  EntryInv'
<1> DEFINE p == Participant(q)
           read == [step |-> "duplicate", teams |-> {},
                    members |-> IF p \in Teams THEN ActiveMembers(p) ELSE {}]
<1>1. RegistrationAt(q, "validating") /\ (Reads(q, read) \/ Refuse(q))
  BY DEF ReadParticipant, Reading
<1>2. read \in ReadTypes
  BY DEF ReadTypes, ActiveMembers
<1>3. CASE Reads(q, read)
  BY <1>1, <1>2, <1>3, ReadKeeps
<1>4. CASE Refuse(q)
  BY <1>4, RefuseKeeps DEF Refuse
<1> QED BY <1>1, <1>3, <1>4

(* The race has no entry of the participant itself. *)
LEMMA CheckDuplicateKeeps ==
    ASSUME EntryInv, NEW q \in RegistrationRequests, CheckDuplicate(q)
    PROVE  EntryInv'
<1> DEFINE old == validation[q]
           read == [old EXCEPT !.step = IF Participant(q) \in Teams THEN "overlap"
                                                                   ELSE "memberships"]
<1>1. /\ RegistrationAt(q, "validating") /\ old.step = "duplicate"
      /\ Refuse(q) \/ (~EnteredIn(RaceOf(q), Participant(q)) /\ Reads(q, read))
  BY DEF CheckDuplicate, Reading
<1>2. old \in ReadTypes /\ StillFresh(q)
  BY DEF EntryInv, EntryTyped
<1>3. /\ read \in ReadTypes /\ read.step \in {"overlap", "memberships"}
      /\ read.step = "memberships" => Participant(q) \notin Teams /\ read.members = old.members
  BY <1>2 DEF ReadTypes
<1>4. CASE ~EnteredIn(RaceOf(q), Participant(q)) /\ Reads(q, read)
  <2>1. registration[registrationRequest[q].id].status = "NONE"
    BY <1>1, <1>4, AtEntry DEF EnteredIn
  <2>2. read.step = "memberships" => read.members = {}
    BY <1>1, <1>2, <1>3 DEF StillFresh
  <2> HIDE DEF read, old
  <2> QED BY <1>1, <1>3, <1>4, <2>1, <2>2, ReadKeeps
<1>5. CASE Refuse(q)
  BY <1>5, RefuseKeeps DEF Refuse
<1> QED BY <1>1, <1>4, <1>5

(* The teams of an individual. *)
LEMMA ReadMembershipsKeeps ==
    ASSUME EntryInv, NEW q \in RegistrationRequests, ReadMemberships(q)
    PROVE  EntryInv'
<1> DEFINE old == validation[q]
           read == [old EXCEPT !.teams = ActiveTeams(Participant(q))]
           more == [read EXCEPT !.step = "overlap"]
<1>1. /\ RegistrationAt(q, "validating") /\ old.step = "memberships"
      /\ (read.teams = {} /\ Accept(q, read)) \/ Reads(q, more)
  BY DEF ReadMemberships, Reading
<1>2. old \in ReadTypes /\ StillFresh(q)
  BY DEF EntryInv, EntryTyped
<1>3. /\ read \in ReadTypes /\ read.members = old.members
      /\ more \in ReadTypes /\ more.step = "overlap"
  BY <1>2 DEF ReadTypes, ActiveTeams
<1>4. registration[registrationRequest[q].id].status = "NONE" /\ read.members = {}
  BY <1>1, <1>2, <1>3 DEF StillFresh
<1> HIDE DEF read, more, old
<1>5. CASE read.teams = {} /\ Accept(q, read)
  BY <1>1, <1>3, <1>4, <1>5, AcceptKeeps
<1>6. CASE Reads(q, more)
  BY <1>1, <1>3, <1>4, <1>6, ReadKeeps
<1> QED BY <1>1, <1>5, <1>6

(* The members of a team, or the teams of an individual, are looked for. *)
LEMMA CheckOverlapKeeps ==
    ASSUME EntryInv, NEW q \in RegistrationRequests, CheckOverlap(q)
    PROVE  EntryInv'
<1>1. /\ RegistrationAt(q, "validating") /\ validation[q].step = "overlap"
      /\ Refuse(q) \/ (Overlap(q) = {} /\ Accept(q, validation[q]))
  BY DEF CheckOverlap, Reading
<1>2. validation[q] \in ReadTypes /\ StillFresh(q)
  BY DEF EntryInv, EntryTyped
<1>3. CASE Overlap(q) = {} /\ Accept(q, validation[q])
  <2>1. \A p \in validation[q].members \cup validation[q].teams : ~EnteredIn(RaceOf(q), p)
    BY <1>3 DEF Overlap
  <2>2. registration[registrationRequest[q].id].status = "NONE"
    BY <1>1, <1>2 DEF StillFresh
  <2> QED BY <1>1, <1>2, <1>3, <2>1, <2>2, AcceptKeeps
<1>4. CASE Refuse(q)
  BY <1>4, RefuseKeeps DEF Refuse
<1> QED BY <1>1, <1>3, <1>4

(* The insert writes to the race the request holds.                          *)
LEMMA InsertValidatedKeeps ==
    ASSUME EntryInv, NEW q \in RegistrationRequests, InsertValidatedEntry(q)
    PROVE  EntryInv'
<1> DEFINE k == registrationRequest[q].id
<1>1. Read(q, NotValidating)
      /\ (RollbackRegistration(q) \/ CommitRegistration(q, k, Pending))
  BY DEF InsertValidatedEntry, InsertEntry
<1>2. CASE RollbackRegistration(q)
  BY <1>1, <1>2, RefuseKeeps
<1>3. CASE CommitRegistration(q, k, Pending)
  <2>1. validation[q].step # "none"
    BY DEF EntryInv, InStep, InsertValidatedEntry, RegistrationAt, RegistrationIdle
  <2>2. raceLock[k[1]] = q
    BY <2>1 DEF EntryInv, HoldsRace, RaceOf
  <2>3. registration' = [registration EXCEPT ![k] = Pending]
    BY <1>3 DEF CommitRegistration
  <2>4. WritesOwnRace(q)
    BY <2>2, <2>3 DEF WritesOwnRace, EntryInv, EntryTyped
  <2>5. registration' \in [Entries -> RegistrationRow \cup {NoRegistration}]
    BY <2>3 DEF EntryInv, EntryTyped, Pending, RegistrationRow, RegistrationStatus
  <2> QED BY <1>1, <1>3, <2>4, <2>5, EndKeeps DEF CommitRegistration
<1> QED BY <1>1, <1>2, <1>3

-----------------------------------------------------------------------------
(* The inductive invariant of the entries.                                   *)
LEMMA EntryInvariant == Spec => []EntryInv
<1>1. Init => EntryInv
  <2> SUFFICES ASSUME Init PROVE EntryInv
    OBVIOUS
  <2>1. EntryTyped
    BY DEF Init, EntryInit, RegistrationsInit, EntryTyped, ReadTypes, RegistrationsTypeOK,
           NotValidating
  <2>2. ASSUME NEW q \in RegistrationRequests
        PROVE  InStep(q) /\ HoldsRace(q) /\ StillFresh(q)
    BY DEF Init, EntryInit, RegistrationsInit, InStep, HoldsRace, StillFresh, NotValidating
  <2> QED BY <2>1, <2>2 DEF EntryInv
<1>2. EntryInv /\ [Next]_vars => EntryInv'
  <2> SUFFICES ASSUME EntryInv, [Next]_vars PROVE EntryInv'
    OBVIOUS
  <2>1. ASSUME NEW q \in RegistrationRequests, AbandonEntry(q) PROVE EntryInv'
    BY <2>1, RefuseKeeps DEF AbandonEntry, AbandonRegistrationRequest
  <2>2. ASSUME NEW q \in RegistrationRequests, EntryStep(q) PROVE EntryInv'
    BY <2>2, ReadParticipantKeeps, CheckDuplicateKeeps, ReadMembershipsKeeps,
       CheckOverlapKeeps, InsertValidatedKeeps DEF EntryStep
  <2>3. CASE EntryNext
    BY <2>1, <2>2, <2>3, BeginEntryKeeps DEF EntryNext
  <2>4. CASE UNCHANGED <<storeVars, registrationRequest, validation>>
    <3>1. UNCHANGED <<registration, raceLock, registrationRequest, validation>>
      BY <2>4 DEF storeVars
    <3>2. EntryTyped'
      BY <3>1 DEF EntryInv, EntryTyped, RegistrationsTypeOK
    <3>3. ASSUME NEW q \in RegistrationRequests
          PROVE  (InStep(q) /\ HoldsRace(q) /\ StillFresh(q))'
      BY <3>1 DEF EntryInv, InStep, RegistrationAt, HoldsRace, StillFresh, RaceOf,
                  Participant, Overlap, EnteredIn
    <3> QED BY <3>2, <3>3 DEF EntryInv
  <2> QED BY <2>3, <2>4 DEF Next, vars
<1> QED BY <1>1, <1>2, PTL DEF Spec

(* When an entry commits, the race still has none of the members, or teams,  *)
(* that its validation read, however many entries overlap: those of one race *)
(* wait for its lock, and those of others write nothing that was read.       *)
THEOREM EntriesStayDisjoint == Spec => EntriesDisjointAsRead
<1>1. EntryInv => \A q \in RegistrationRequests :
                     validation[q].step = "done" => Overlap(q) = {}
  BY DEF EntryInv, StillFresh
<1>2. EntryInv /\ [Next]_vars =>
        [\A q \in RegistrationRequests :
          /\ validation[q].step = "done"
          /\ registration'[registrationRequest[q].id] # registration[registrationRequest[q].id]
          => Overlap(q) = {}]_vars
  BY <1>1
<1> QED BY <1>2, EntryInvariant, PTL DEF Spec, EntriesDisjointAsRead

(* Every step of a validated entry, with its reads of the roster, is a step  *)
(* of RegistrationsService or none, whatever the roster does meanwhile.      *)
THEOREM ValidationImplementsRegistrations == Spec => EntriesRefineRegistrations
<1> DEFINE seen == <<storeVars, registrationRequest>>
<1>1. EntryInv /\ [Next]_vars => [RegistrationsNext]_seen
  <2> SUFFICES ASSUME EntryInv, [Next]_vars PROVE [RegistrationsNext]_seen
    OBVIOUS
  <2>1. ASSUME NEW q \in RegistrationRequests, ~RegistrationAt(q, "idle"),
               RollbackRegistration(q)
        PROVE  RegistrationsNext
    BY <2>1 DEF RegistrationsNext, AbandonRegistrationRequest
  <2>2. ASSUME NEW q \in RegistrationRequests, NEW k \in Entries, BeginEntry(q, k)
        PROVE  RegistrationsNext
    BY <2>2 DEF BeginEntry, RegistrationsNext
  <2>3. ASSUME NEW q \in RegistrationRequests, NEW read, Accept(q, read),
               RegistrationAt(q, "validating"),
               validation[q].step \in {"memberships", "overlap"}
        PROVE  RegistrationsNext
    <3>1. registration[registrationRequest[q].id].status = "NONE"
      BY <2>3 DEF EntryInv, StillFresh
    <3>2. ValidateEntry(q)
      BY <2>3, <3>1 DEF Accept, ValidateEntry
    <3> QED BY <3>2 DEF RegistrationsNext, RegistrationStep
  <2>4. ASSUME NEW q \in RegistrationRequests, EntryStep(q)
        PROVE  RegistrationsNext \/ UNCHANGED seen
    <3>1. CASE ReadParticipant(q)
      BY <2>1, <3>1 DEF ReadParticipant, Reading, Reads, Refuse, RegistrationAt
    <3>2. CASE CheckDuplicate(q)
      BY <2>1, <3>2 DEF CheckDuplicate, Reading, Reads, Refuse, RegistrationAt
    <3>3. CASE ReadMemberships(q)
      BY <2>3, <3>3 DEF ReadMemberships, Reading, Reads
    <3>4. CASE CheckOverlap(q)
      <4>1. CASE Refuse(q)
        BY <2>1, <3>4, <4>1 DEF CheckOverlap, Reading, Refuse, RegistrationAt
      <4> QED BY <2>3, <3>4, <4>1 DEF CheckOverlap, Reading
    <3>5. CASE InsertValidatedEntry(q)
      <4>1. CASE InsertEntry(q)
        BY <4>1 DEF RegistrationsNext, RegistrationStep
      <4> QED BY <2>1, <3>5, <4>1 DEF InsertValidatedEntry, RegistrationAt
    <3> QED BY <2>4, <3>1, <3>2, <3>3, <3>4, <3>5 DEF EntryStep
  <2>5. ASSUME NEW q \in RegistrationRequests, AbandonEntry(q)
        PROVE  RegistrationsNext
    BY <2>5 DEF AbandonEntry, RegistrationsNext
  <2>6. CASE EntryNext
    BY <2>2, <2>4, <2>5, <2>6 DEF EntryNext
  <2> QED BY <2>6 DEF Next, vars
<1> QED BY <1>1, EntryInvariant, PTL DEF Spec, EntriesRefineRegistrations
-----------------------------------------------------------------------------
(* Types.  That a pair joins no more often than MaxStints needs the lock of  *)
(* the team as well: the guard is addMember's, the INSERT comes later.       *)

SaveSteps == {"checking", "deleting", "loading", "writing", "inserting", "auditing"}

AuditValues == RosterStatus \cup {"JOINED", "LEFT"}

(* An addition that is under way still finds room for its row. *)
StintLeft(q) ==
    rosterRequest[q].at \in Joining => membership[rosterRequest[q].on].rows < MaxStints

(* The memberships in memory were once those of the table. *)
LoadedWithin(q) ==
    rosterRequest[q].at \in SaveSteps =>
        rosterRequest[q].rows \in [Competitors -> 0 .. MaxStints]

StintsWithin == \A m \in Stints : membership[m].rows <= MaxStints

SidesTyped ==
    /\ membershipLock \in [Stints -> RosterRequests \cup {Free}]
    /\ rosterAudit \in [Participants \cup Stints -> AuditValues]

StintInv ==
    /\ SidesTyped
    /\ StintsWithin
    /\ \A q \in RosterRequests : StintLeft(q) /\ LoadedWithin(q)

(* What a request loads with a team, or with a competitor, is within bounds. *)
LEMMA LoadsWithin ==
    ASSUME RosterInv, StintInv, NEW p
    PROVE  /\ LoadedRows(p) \in [Competitors -> 0 .. MaxStints]
           /\ NoRows \in [Competitors -> 0 .. MaxStints]
<1>1. \A m \in Stints : membership[m].rows \in 0 .. MaxStints
  BY RosterAssumption DEF RosterInv, RosterTyped, StintInv, StintsWithin, RosterAssumption
<1>2. NoRows \in [Competitors -> 0 .. MaxStints]
  BY RosterAssumption DEF NoRows, RosterAssumption
<1>3. p \in Teams => RowsOf(p) \in [Competitors -> 0 .. MaxStints]
  BY <1>1 DEF RowsOf, Stints
<1> QED BY <1>2, <1>3 DEF LoadedRows

(* A step that adds no row to a team. *)
LEMMA NoRowAdded ==
    ASSUME RosterInv, StintInv, NEW q \in RosterRequests, OthersWait(q),
           \A m \in Stints : membership'[m].rows = membership[m].rows,
           SidesTyped', (StintLeft(q) /\ LoadedWithin(q))'
    PROVE  StintInv'
<1>1. ASSUME NEW p \in RosterRequests PROVE (StintLeft(p) /\ LoadedWithin(p))'
  <2>1. CASE p = q BY <2>1
  <2>2. CASE p # q
    <3>1. rosterRequest'[p] = rosterRequest[p] /\ StintLeft(p) /\ LoadedWithin(p)
      BY <2>2 DEF OthersWait, StintInv
    <3>2. rosterRequest[p].at \in Joining => rosterRequest[p].on \in Stints
      BY AtMembership
    <3> QED BY <3>1, <3>2 DEF StintLeft, LoadedWithin
  <2> QED BY <2>1, <2>2
<1>2. StintsWithin'
  BY DEF StintInv, StintsWithin
<1> QED BY <1>1, <1>2 DEF StintInv

(* A request that goes on with a row, or ends. *)
LEMMA SaveWithin ==
    ASSUME RosterInv, StintInv, NEW q \in RosterRequests, NEW work,
           RosterProceed(q, work), KeepMemberships,
           work.at \notin Joining,
           work.at \in SaveSteps => work.rows \in [Competitors -> 0 .. MaxStints],
           rosterAudit' \in [Participants \cup Stints -> AuditValues]
    PROVE  StintInv'
<1>1. OthersWait(q) /\ rosterRequest'[q] = work
  BY MoveOne DEF RosterInv
<1>2. SidesTyped' /\ UNCHANGED membership
  BY DEF StintInv, SidesTyped, KeepMemberships
<1>3. (StintLeft(q) /\ LoadedWithin(q))'
  BY <1>1 DEF StintLeft, LoadedWithin
<1> QED BY <1>1, <1>2, <1>3, NoRowAdded

(* The end of a transaction frees what it held. *)
LEMMA EndWithin ==
    ASSUME RosterInv, StintInv, NEW q \in RosterRequests, EndMembership(q),
           rosterAudit' \in [Participants \cup Stints -> AuditValues]
    PROVE  /\ OthersWait(q) /\ SidesTyped'
           /\ (StintLeft(q) /\ LoadedWithin(q))'
<1>1. OthersWait(q) /\ rosterRequest'[q] = RosterIdle
  BY MoveOne DEF RosterInv, EndMembership, RosterFinish
<1>2. SidesTyped'
  BY DEF StintInv, SidesTyped, EndMembership
<1>3. (StintLeft(q) /\ LoadedWithin(q))'
  BY <1>1 DEF StintLeft, LoadedWithin, RosterIdle, Joining, SaveSteps
<1> QED BY <1>1, <1>2, <1>3

(* A rollback adds no row. *)
LEMMA RollbackWithin ==
    ASSUME RosterInv, StintInv, NEW q \in RosterRequests, RollbackMembership(q)
    PROVE  StintInv'
<1>1. UNCHANGED <<membership, rosterAudit>>
  BY DEF RollbackMembership
<1> QED BY <1>1, EndWithin, NoRowAdded DEF RollbackMembership, StintInv, SidesTyped

(* The handlers of both services and their saves. *)
LEMMA SavesWithin ==
    ASSUME RosterInv, StintInv, NEW q \in RosterRequests,
           \/ \E p, s : Create(q, p, s)
           \/ \E p, step, entity : step \in SaveSteps /\ Begin(q, p, step, entity)
           \/ CheckHistory(q) \/ DeleteParticipant(q) \/ LoadParticipant(q)
           \/ WriteParticipant(q) \/ InsertParticipant(q) \/ AuditParticipant(q)
    PROVE  StintInv'
<1> DEFINE work == rosterRequest[q]
<1>1. rosterAudit \in [Participants \cup Stints -> AuditValues]
  BY DEF StintInv, SidesTyped
<1>2. RosterIdle.at \notin Joining \cup SaveSteps /\ SaveSteps \cap Joining = {}
  BY DEF RosterIdle, Joining, SaveSteps
<1>3. ASSUME NEW p, NEW s, Create(q, p, s) PROVE StintInv'
  <2>1. RosterTask("auditing", p, s, NoRows).at = "auditing"
        /\ RosterTask("auditing", p, s, NoRows).rows = NoRows
    BY DEF RosterTask
  <2> QED BY <1>1, <1>3, <2>1, LoadsWithin, SaveWithin DEF Create, Joining
<1>4. ASSUME NEW p, NEW step \in SaveSteps, NEW entity, Begin(q, p, step, entity)
      PROVE  StintInv'
  <2>1. RosterTask(step, p, entity, LoadedRows(p)).at = step
        /\ RosterTask(step, p, entity, LoadedRows(p)).rows = LoadedRows(p)
    BY DEF RosterTask
  <2> QED BY <1>1, <1>2, <1>4, <2>1, LoadsWithin, SaveWithin DEF Begin, RosterReadOnly
<1>5. ASSUME work.at \in SaveSteps
      PROVE  work \in Saves /\ work.on \in Participants
             /\ work.rows \in [Competitors -> 0 .. MaxStints]
  BY <1>5, AtSave DEF SaveSteps, StintInv, LoadedWithin
<1>6. CASE CheckHistory(q)
  <2>1. PICK more : /\ RosterProceed(q, more)
                    /\ more.at \in SaveSteps /\ more.rows = work.rows
    <3> DEFINE kept == Retirement(work.on)
               next == IF ~HasHistory(work.on) THEN "deleting"
                       ELSE IF work.entity = kept THEN "auditing" ELSE "loading"
               new == [work EXCEPT !.at = next,
                                   !.entity = IF next = "loading" THEN kept ELSE @]
    <3>1. RosterProceed(q, new) /\ work.at = "checking"
      BY <1>6 DEF CheckHistory, RosterAt
    <3>2. new.at = next /\ new.rows = work.rows
      BY <1>5, <3>1 DEF Saves, SaveSteps
    <3>3. next \in SaveSteps
      BY DEF SaveSteps
    <3> QED BY <3>1, <3>2, <3>3
  <2> QED BY <1>1, <1>2, <1>5, <1>6, <2>1, SaveWithin
          DEF CheckHistory, RosterAt, RosterReadOnly, SaveSteps
<1>7. CASE DeleteParticipant(q)
  <2>1. RosterTask("auditing", work.on, "DELETED", NoRows).at = "auditing"
        /\ RosterTask("auditing", work.on, "DELETED", NoRows).rows = NoRows
    BY DEF RosterTask
  <2> QED BY <1>1, <1>2, <1>7, <2>1, LoadsWithin, SaveWithin
          DEF DeleteParticipant, RosterFinish, SaveSteps
<1>8. CASE LoadParticipant(q)
  <2>1. PICK more : /\ RosterProceed(q, more)
                    /\ more.at \in SaveSteps /\ more.rows = work.rows
    <3> DEFINE found == [work EXCEPT !.at = "writing",
                                     !.dirty = status[work.on] # work.entity,
                                     !.orphans = work.rows # LoadedRows(work.on)]
               lost == [work EXCEPT !.at = "inserting"]
    <3>1. (RosterProceed(q, found) \/ RosterProceed(q, lost)) /\ work.at = "loading"
      BY <1>8 DEF LoadParticipant, RosterAt
    <3>2. /\ found.at \in SaveSteps /\ found.rows = work.rows
          /\ lost.at \in SaveSteps /\ lost.rows = work.rows
      BY <1>5, <3>1 DEF Saves, SaveSteps
    <3> QED BY <3>1, <3>2
  <2> QED BY <1>1, <1>2, <1>5, <1>8, <2>1, SaveWithin
          DEF LoadParticipant, RosterAt, RosterReadOnly, SaveSteps
<1>9. CASE WriteParticipant(q) \/ InsertParticipant(q)
  <2>1. work.at \in SaveSteps
    BY <1>9 DEF WriteParticipant, InsertParticipant, RosterAt, SaveSteps
  <2>2. PICK more : /\ RosterProceed(q, more)
                    /\ \/ more = RosterIdle
                       \/ more.at \in SaveSteps /\ more.rows = work.rows
    <3> DEFINE done == [work EXCEPT !.at = "auditing"]
    <3>1. RosterProceed(q, done) \/ RosterProceed(q, RosterIdle)
      BY <1>9 DEF WriteParticipant, InsertParticipant, RosterFinish
    <3>2. done.at \in SaveSteps /\ done.rows = work.rows
      BY <1>5, <2>1 DEF Saves, SaveSteps
    <3> QED BY <3>1, <3>2
  <2>3. KeepMemberships /\ UNCHANGED rosterAudit
    BY <1>9 DEF WriteParticipant, InsertParticipant
  <2> HIDE DEF work
  <2> QED BY <1>1, <1>2, <1>5, <2>1, <2>2, <2>3, SaveWithin
<1>10. CASE AuditParticipant(q)
  <2>1. work.on \in Participants /\ work.entity \in AuditValues
    BY <1>5, <1>10 DEF AuditParticipant, RosterAt, SaveSteps, Saves, AuditValues
  <2>2. rosterAudit' \in [Participants \cup Stints -> AuditValues]
    BY <1>1, <1>10, <2>1 DEF AuditParticipant
  <2> QED BY <1>2, <1>10, <2>2, SaveWithin DEF AuditParticipant, RosterFinish
<1> QED BY <1>3, <1>4, <1>6, <1>7, <1>8, <1>9, <1>10

(* addMember starts while the pair may still join once more. *)
LEMMA AddWithin ==
    ASSUME RosterInv, StintInv, NEW q \in RosterRequests, NEW t \in Teams,
           NEW c \in Competitors, AddMember(q, t, c)
    PROVE  StintInv'
<1> DEFINE work == [at |-> "finding", on |-> <<t, c>>]
<1>1. OthersWait(q) /\ rosterRequest'[q] = work
  BY MoveOne DEF RosterInv, AddMember
<1>2. SidesTyped' /\ UNCHANGED membership /\ membership[<<t, c>>].rows < MaxStints
  BY DEF AddMember, StintInv, SidesTyped
<1>3. (StintLeft(q) /\ LoadedWithin(q))'
  BY <1>1, <1>2 DEF StintLeft, LoadedWithin, SaveSteps
<1> QED BY <1>1, <1>2, <1>3, NoRowAdded

(* removeMember takes the lock of a membership. *)
LEMMA RemoveWithin ==
    ASSUME RosterInv, StintInv, NEW q \in RosterRequests, NEW t \in Teams,
           NEW c \in Competitors, RemoveMember(q, t, c)
    PROVE  StintInv'
<1> DEFINE work == [at |-> "leaving", on |-> <<t, c>>]
<1>1. OthersWait(q) /\ rosterRequest'[q] = work
  BY MoveOne DEF RosterInv, RemoveMember
<1>2. SidesTyped' /\ UNCHANGED membership
  BY DEF RemoveMember, StintInv, SidesTyped, Stints
<1>3. (StintLeft(q) /\ LoadedWithin(q))'
  BY <1>1 DEF StintLeft, LoadedWithin, SaveSteps, Joining
<1> QED BY <1>1, <1>2, <1>3, NoRowAdded

(* The reads of an addition: room for its row stays. *)
LEMMA ReadsWithin ==
    ASSUME RosterInv, StintInv, NEW q \in RosterRequests,
           FindCompetitor(q) \/ CountMembers(q)
    PROVE  StintInv'
<1>1. CASE RollbackMembership(q)
  BY <1>1, RollbackWithin
<1>2. CASE ~RollbackMembership(q)
  <2>1. PICK step \in {"counting", "joining"} :
           RosterProceed(q, [rosterRequest[q] EXCEPT !.at = step])
    BY <1>2 DEF FindCompetitor, CountMembers
  <2> DEFINE work == [rosterRequest[q] EXCEPT !.at = step]
  <2>2. rosterRequest[q].at \in Joining /\ RosterReadOnly
    BY <1>2 DEF FindCompetitor, CountMembers, RosterAt, Joining
  <2>3. work.at = step /\ work.on = rosterRequest[q].on
    BY <2>2, AtMembership DEF MembershipWork
  <2>4. OthersWait(q) /\ rosterRequest'[q] = work
    BY <2>1, MoveOne DEF RosterInv
  <2>5. SidesTyped' /\ UNCHANGED membership
    BY <2>2 DEF RosterReadOnly, KeepMemberships, StintInv, SidesTyped
  <2> HIDE DEF work
  <2>6. (StintLeft(q) /\ LoadedWithin(q))'
    BY <2>2, <2>3, <2>4, <2>5 DEF StintInv, StintLeft, LoadedWithin, SaveSteps
  <2> QED BY <2>4, <2>5, <2>6, NoRowAdded
<1> QED BY <1>1, <1>2

(* A membership ends in the row it has. *)
LEMMA LeaveWithin ==
    ASSUME RosterInv, StintInv, NEW q \in RosterRequests, LeaveTeam(q)
    PROVE  StintInv'
<1> DEFINE m == rosterRequest[q].on
           row == [membership[m] EXCEPT !.active = FALSE]
<1>1. m \in Stints /\ CommitMembership(q, m, row, "LEFT")
  BY AtMembership DEF LeaveTeam, RosterAt
<1>2. row.rows = membership[m].rows /\ "LEFT" \in AuditValues
  BY <1>1 DEF RosterInv, RosterTyped, AuditValues
<1> HIDE DEF m, row
<1>3. /\ EndMembership(q)
      /\ rosterAudit' \in [Participants \cup Stints -> AuditValues]
      /\ \A k \in Stints : membership'[k].rows = membership[k].rows
  BY <1>1, <1>2 DEF CommitMembership, StintInv, SidesTyped, RosterInv, RosterTyped
<1> QED BY <1>3, EndWithin, NoRowAdded

(* The row of an addition was counted for when the team was locked, and only *)
(* who holds the team adds one.                                              *)
LEMMA JoinWithin ==
    ASSUME RosterInv, StintInv, NEW q \in RosterRequests, JoinTeam(q)
    PROVE  StintInv'
<1>1. CASE RollbackMembership(q)
  BY <1>1, RollbackWithin
<1>2. CASE ~RollbackMembership(q)
  <2> DEFINE m == rosterRequest[q].on
             row == [rows |-> membership[m].rows + 1, active |-> TRUE]
  <2>1. /\ m \in Stints /\ m[1] \in Teams
        /\ CommitMembership(q, m, row, "JOINED")
        /\ rosterRequest[q].at = "joining"
    BY <1>2, AtMembership DEF JoinTeam, RosterAt, Joining
  <2>2. /\ row.rows = membership[m].rows + 1 /\ membership[m].rows < MaxStints
        /\ membership[m].rows \in Nat
        /\ teamLock[m[1]] = q
    BY <2>1 DEF StintInv, StintLeft, Joining, RosterInv, RosterTyped, TeamHeld
  <2> HIDE DEF m, row
  <2>3. /\ EndMembership(q)
        /\ rosterAudit' \in [Participants \cup Stints -> AuditValues]
    BY <2>1 DEF CommitMembership, StintInv, SidesTyped, AuditValues
  <2>4. /\ membership'[m].rows = membership[m].rows + 1
        /\ \A k \in Stints \ {m} : membership'[k] = membership[k]
    BY <2>1, <2>2 DEF CommitMembership, RosterInv, RosterTyped
  <2>5. OthersWait(q) /\ SidesTyped' /\ (StintLeft(q) /\ LoadedWithin(q))'
    BY <2>3, EndWithin
  <2>6. StintsWithin'
    BY <2>1, <2>2, <2>4, RosterAssumption DEF StintInv, StintsWithin, RosterAssumption
  <2>7. ASSUME NEW p \in RosterRequests \ {q} PROVE (StintLeft(p) /\ LoadedWithin(p))'
    <3>1. rosterRequest'[p] = rosterRequest[p] /\ StintLeft(p) /\ LoadedWithin(p)
      BY <2>5 DEF OthersWait, StintInv
    <3>2. ASSUME rosterRequest[p].at \in Joining
          PROVE  rosterRequest[p].on \in Stints \ {m}
      <4>1. rosterRequest[p].on \in Stints /\ teamLock[rosterRequest[p].on[1]] = p
        BY <3>2, AtMembership DEF RosterInv, TeamHeld
      <4> QED BY <2>2, <4>1
    <3> QED BY <2>4, <3>1, <3>2 DEF StintLeft, LoadedWithin
  <2> QED BY <2>5, <2>6, <2>7 DEF StintInv
<1> QED BY <1>1, <1>2

(* Every step of a roster request keeps these bounds. *)
LEMMA RosterNextWithin ==
    ASSUME RosterInv, StintInv, RosterNext
    PROVE  StintInv'
<1>1. ASSUME NEW q \in RosterRequests, NEW p,
             \/ CreateCompetitor(q, p) \/ UpdateCompetitor(q, p)
             \/ UpdateCompetitorStatus(q, p) \/ RemoveCompetitor(q, p)
             \/ CreateTeam(q, p) \/ UpdateTeam(q, p)
             \/ UpdateTeamStatus(q, p) \/ RemoveTeam(q, p)
      PROVE  StintInv'
  <2>1. "loading" \in SaveSteps /\ "checking" \in SaveSteps
    BY DEF SaveSteps
  <2>2. \/ \E s : Create(q, p, s)
        \/ \E step, entity : step \in SaveSteps /\ Begin(q, p, step, entity)
    BY <1>1, <2>1 DEF CreateCompetitor, UpdateCompetitor, UpdateCompetitorStatus,
       RemoveCompetitor, CreateTeam, UpdateTeam, UpdateTeamStatus, RemoveTeam
  <2> QED BY <2>2, SavesWithin
<1>2. ASSUME NEW q \in RosterRequests, RosterStep(q) PROVE StintInv'
  BY <1>2, SavesWithin, ReadsWithin, JoinWithin, LeaveWithin DEF RosterStep
<1> QED BY <1>1, <1>2, AddWithin, RemoveWithin, RollbackWithin
        DEF RosterNext, AbandonRosterRequest

-----------------------------------------------------------------------------
(* What the entries leave as it is, and what they write.                     *)

StoreSides ==
    /\ now \in 0 .. MaxTime
    /\ race \in [Races -> RaceRow \cup {NeverCreated, Deleted}]
    /\ result \in [Entries -> ResultRow \cup {NoResult}]
    /\ registrationLock \in [Entries -> Requests \cup {Free}]
    /\ raceAudit \in [Races -> RaceStatus \cup {"NONE", "DELETED"}]
    /\ registrationAudit \in [Entries -> RegistrationStatus \cup {"NONE"}]
    /\ resultAudit \in [Entries -> ResultRow \cup {NoResult}]
    /\ raceType \in [Races -> RaceTypes]

(* An entry writes no table but its own, and no audit event but PENDING.     *)
LEMMA EntriesWriteTheirOwn ==
    ASSUME StoreSides, EntryNext, UNCHANGED raceType
    PROVE  StoreSides'
<1>1. /\ UnchangedByRegistrations
      /\ \/ UNCHANGED registrationLock
         \/ \E q : registrationLock' = ReleasedRegistrations(q)
      /\ \/ UNCHANGED registrationAudit
         \/ \E k : registrationAudit' = [registrationAudit EXCEPT ![k] = "PENDING"]
  <2>1. ASSUME NEW q, NEW k, BeginEntry(q, k)
        PROVE  UnchangedByRegistrations /\ UNCHANGED <<registrationLock, registrationAudit>>
    BY <2>1 DEF BeginEntry, LockRaceForEntry, RegistrationReadOnly
  <2>2. ASSUME NEW q, RollbackRegistration(q)
        PROVE  /\ UnchangedByRegistrations /\ UNCHANGED registrationAudit
               /\ registrationLock' = ReleasedRegistrations(q)
    BY <2>2 DEF RollbackRegistration, Release, RegistrationReadOnly
  <2>3. ASSUME NEW q, NEW read, Accept(q, read) \/ Reads(q, read)
        PROVE  UnchangedByRegistrations /\ UNCHANGED <<registrationLock, registrationAudit>>
    BY <2>3 DEF Accept, Reads, KeepLocks, RegistrationReadOnly, UnchangedByRegistrations,
                storeVars
  <2>4. ASSUME NEW q, NEW k, CommitRegistration(q, k, Pending)
        PROVE  /\ UnchangedByRegistrations
               /\ registrationLock' = ReleasedRegistrations(q)
               /\ registrationAudit' = [registrationAudit EXCEPT ![k] = "PENDING"]
    BY <2>4 DEF CommitRegistration, Release, Pending
  <2>5. ASSUME NEW q, EntryStep(q)
        PROVE  \/ RollbackRegistration(q)
               \/ \E read : Accept(q, read) \/ Reads(q, read)
               \/ \E k : CommitRegistration(q, k, Pending)
    <3>1. CASE ReadParticipant(q)
      BY <3>1 DEF ReadParticipant, Refuse
    <3>2. CASE CheckDuplicate(q)
      BY <3>2 DEF CheckDuplicate, Refuse
    <3>3. CASE ReadMemberships(q)
      BY <3>3 DEF ReadMemberships
    <3>4. CASE CheckOverlap(q)
      BY <3>4 DEF CheckOverlap, Refuse
    <3>5. CASE InsertValidatedEntry(q)
      BY <3>5 DEF InsertValidatedEntry, InsertEntry
    <3> QED BY <2>5, <3>1, <3>2, <3>3, <3>4, <3>5 DEF EntryStep
  <2> QED BY <2>1, <2>2, <2>3, <2>4, <2>5
          DEF EntryNext, AbandonEntry, AbandonRegistrationRequest
<1>2. registrationLock' \in [Entries -> Requests \cup {Free}]
  BY <1>1 DEF StoreSides, ReleasedRegistrations
<1>3. registrationAudit' \in [Entries -> RegistrationStatus \cup {"NONE"}]
  BY <1>1 DEF StoreSides, RegistrationStatus
<1> QED BY <1>1, <1>2, <1>3 DEF StoreSides, UnchangedByRegistrations

(* The tables of races and entries are typed before the first request.       *)
LEMMA SidesStartWell == Init => StintInv /\ StoreSides
<1> SUFFICES ASSUME Init PROVE StintInv /\ StoreSides
  OBVIOUS
<1>1. SidesTyped
  BY DEF Init, RosterInit, RosterStarts, SidesTyped, AuditValues, RosterStatus, Nobody,
         NoMembership
<1>2. StintsWithin
  BY RosterAssumption DEF Init, RosterInit, RosterStarts, StintsWithin, Nobody,
     NoMembership, RosterAssumption
<1>3. ASSUME NEW q \in RosterRequests PROVE StintLeft(q) /\ LoadedWithin(q)
  BY DEF Init, RosterInit, RosterStarts, StintLeft, LoadedWithin, RosterIdle, Joining,
         SaveSteps
<1>4. race \in [Races -> RaceRow]
  <2>1. ASSUME NEW c \in Capacities, NEW s \in Schedules
        PROVE  [status |-> "OPEN_FOR_REGISTRATION", maxParticipants |-> c,
                scheduledAt |-> s.scheduledAt,
                registrationDeadline |-> s.registrationDeadline] \in RaceRow
    BY StoreAssumption DEF StoreAssumption, RaceRow, RaceStatus
  <2> QED BY <2>1 DEF Init, EntryInit
<1>5. StoreSides
  BY <1>4, StoreAssumption DEF Init, EntryInit, StoreSides, StoreAssumption, RaceStatus
<1> QED BY <1>1, <1>2, <1>3, <1>5 DEF StintInv

(* Every variable of the roster and of the entries keeps its type, and no    *)
(* pair of a team and a competitor has more memberships than addMember lets  *)
(* it have, however many additions, removals, saves and entries overlap.     *)
THEOREM RosterTypeAlways == Spec => []TypeOK
<1>1. RosterInv /\ StintInv /\ StoreSides /\ [Next]_vars => StintInv' /\ StoreSides'
  <2> SUFFICES ASSUME RosterInv, StintInv, StoreSides, [Next]_vars
               PROVE  StintInv' /\ StoreSides'
    OBVIOUS
  <2>1. ASSUME UNCHANGED rosterVars PROVE StintInv'
    BY <2>1 DEF rosterVars, StintInv, SidesTyped, StintsWithin, StintLeft, LoadedWithin
  <2>2. ASSUME UNCHANGED <<storeVars, raceType>> PROVE StoreSides'
    BY <2>2 DEF storeVars, StoreSides
  <2>3. CASE EntryNext /\ UNCHANGED <<rosterVars, raceType>>
    BY <2>1, <2>3, EntriesWriteTheirOwn
  <2>4. CASE RosterNext /\ UNCHANGED <<storeVars, registrationRequest, raceType, validation>>
    BY <2>2, <2>4, RosterNextWithin
  <2> QED BY <2>1, <2>2, <2>3, <2>4 DEF Next, vars
<1>2. RosterInv /\ StintInv /\ StoreSides /\ EntryInv => TypeOK
  <2> SUFFICES ASSUME RosterInv, StintInv, StoreSides, EntryInv PROVE TypeOK
    OBVIOUS
  <2>1. StoreTypeOK /\ RegistrationsTypeOK /\ EntryTypeOK
    BY DEF StoreSides, EntryInv, EntryTyped, StoreTypeOK, EntryTypeOK, ReadTypes
  <2>2. membership \in [Stints -> [rows : 0 .. MaxStints, active : BOOLEAN]]
    BY RosterAssumption
       DEF RosterInv, RosterTyped, StintInv, StintsWithin, RosterAssumption
  <2>3. ASSUME NEW q \in RosterRequests
        PROVE  rosterRequest[q] \in RosterWork \cup MembershipWork \cup {RosterIdle}
    <3>1. rosterRequest[q] \in Saves \cup MembershipWork \cup {RosterIdle}
      BY DEF RosterInv, RosterTyped
    <3>2. CASE rosterRequest[q] \in Saves
      <4>1. rosterRequest[q].rows \in [Competitors -> 0 .. MaxStints]
        BY <3>2 DEF Saves, StintInv, LoadedWithin, SaveSteps
      <4> QED BY <3>2, <4>1 DEF Saves, RosterWork
    <3> QED BY <3>1, <3>2
  <2>4. RosterTypeOK
    BY <2>2, <2>3 DEF RosterTypeOK, RosterInv, RosterTyped, RowsTyped, StintInv, SidesTyped,
       AuditValues
  <2> QED BY <2>1, <2>4 DEF TypeOK
<1> QED BY <1>1, <1>2, SidesStartWell, RosterInvariant, EntryInvariant, PTL DEF Spec
=============================================================================
