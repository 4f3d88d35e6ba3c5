----------------------------- MODULE UserProfiles -----------------------------
(***************************************************************************)
(* UsersService and ActiveUserProfileGuard: the local profile of a         *)
(* Keycloak subject is created by its first request, every guarded request *)
(* asks for it, and an administrator disables and enables it.              *)
(*                                                                         *)
(* findOrProvision runs without a transaction.  updateStatus runs in one   *)
(* that holds the profile FOR UPDATE while it writes an audit event, and   *)
(* the event's foreign key needs a share of the ACTOR's profile: two       *)
(* administrators who change each other wait for each other, until         *)
(* PostgreSQL aborts one of them.                                          *)
(***************************************************************************)
EXTENDS Naturals, Sequences, FiniteSets

CONSTANTS
    Users,         \* subjects of validated access tokens
    Requests,      \* slots for requests
    MaxChanges,    \* bound on the status changes of one profile
    Free           \* the holder of a lock nobody holds

ASSUME UserProfilesAssumption == MaxChanges \in Nat /\ Free \notin Requests

VARIABLES
    administrators,  \* the users whose tokens carry the role ADMINISTRATOR
    status,          \* user_profiles: the status of each user's row
    creations,       \* audit_logs: the USER_PROFILE_CREATED events of each user
    trail,           \* audit_logs: the statuses its events give a profile
    profileLock,     \* the transaction that holds a profile FOR UPDATE
    request          \* the request each slot is running

tables == <<status, creations, trail>>

vars == <<administrators, tables, profileLock, request>>

-----------------------------------------------------------------------------
UserProfileStatus == {"ACTIVE", "DISABLED"}

Idle == [at |-> "idle"]

(* me: GET /users/me, the one handler without ActiveUserProfileGuard.        *)
(* operation: a guarded handler, which ends with an event of its actor's.    *)
Plain == [kind : {"me", "operation"}]

Change == [kind : {"change"}, of : Users, to : UserProfileStatus]

Task == [at : {"finding", "creating", "recording", "rereading", "operating",
               "locking", "auditing"},
         actor : Users,
         does : Plain \cup Change]

TypeOK ==
    /\ administrators \subseteq Users
    /\ status \in [Users -> UserProfileStatus \cup {"NONE"}]
    /\ creations \in [Users -> 0 .. Cardinality(Requests)]
    /\ trail \in [Users -> Seq(UserProfileStatus)]
    /\ \A u \in Users : trail[u] # <<>> => trail[u][1] = "ACTIVE"
    /\ profileLock \in [Users -> Requests \cup {Free}]
    /\ request \in [Requests -> Task \cup {Idle}]

Init ==
    /\ administrators \in SUBSET Users \ {{}}
    /\ status = [u \in Users |-> "NONE"]
    /\ creations = [u \in Users |-> 0]
    /\ trail = [u \in Users |-> <<>>]
    /\ profileLock = [u \in Users |-> Free]
    /\ request = [q \in Requests |-> Idle]

At(q, step) == request[q].at = step

Actor(q) == request[q].actor

Proceed(q, task) == request' = [request EXCEPT ![q] = task]

Go(q, step) == Proceed(q, [request[q] EXCEPT !.at = step])

Finish(q) == Proceed(q, Idle)

KeepTables == UNCHANGED <<administrators, tables, profileLock>>

(* COMMIT and ROLLBACK. *)
Released(q) == [u \in Users |-> IF profileLock[u] = q THEN Free ELSE profileLock[u]]

-----------------------------------------------------------------------------
(* JwtAuthGuard has put the user into the request.  UsersController checks   *)
(* roles before profiles, the other controllers after them.                  *)
Arrive(q, u, does) ==
    /\ At(q, "idle")
    /\ Proceed(q, [at |-> "finding", actor |-> u, does |-> does])
    /\ KeepTables

GetMe(q, u) == Arrive(q, u, [kind |-> "me"])

Operate(q, u) == Arrive(q, u, [kind |-> "operation"])

ChangeStatus(q, u) ==
    /\ u \in administrators
    /\ \E of \in Users, to \in UserProfileStatus :
          /\ Len(trail[of]) <= MaxChanges
          /\ Arrive(q, u, [kind |-> "change", of |-> of, to |-> to])

SelfDisable(q) ==
    LET does == request[q].does
    IN  does.kind = "change" /\ does.of = Actor(q) /\ does.to = "DISABLED"

(* What follows once findOrProvision has answered with a profile of this     *)
(* status: getMe answers, the guard lets an active profile's handler run,    *)
(* and updateStatus refuses an administrator who would disable themselves.   *)
Provisioned(q, profileStatus) ==
    LET kind == request[q].does.kind
    IN  IF kind = "me" \/ profileStatus # "ACTIVE" \/ SelfDisable(q)
        THEN Finish(q)
        ELSE Go(q, IF kind = "change" THEN "locking" ELSE "operating")

FindProfile(q) ==
    /\ At(q, "finding")
    /\ IF status[Actor(q)] = "NONE" THEN Go(q, "creating")
                                    ELSE Provisioned(q, status[Actor(q)])
    /\ KeepTables

NoSubjectIndex(u) == TRUE

(* uq_user_profiles_keycloak_user_id *)
SubjectIndex(u) == status[u] = "NONE"

CreateProfile(q) ==
    /\ At(q, "creating")
    /\ LET u == Actor(q)
       IN  IF SubjectIndex(u)
           THEN /\ status' = [status EXCEPT ![u] = "ACTIVE"]
                /\ trail' = [trail EXCEPT ![u] = <<"ACTIVE">>]
                /\ Go(q, "recording")
           ELSE Go(q, "rereading") /\ UNCHANGED <<status, trail>>
    /\ UNCHANGED <<administrators, creations, profileLock>>

(* An event needs a share of its actor's profile, which a FOR UPDATE of      *)
(* another transaction withholds.                                            *)
ShareHeldFromAll(q) == profileLock[Actor(q)] = Free

ShareOfActor(q) == profileLock[Actor(q)] \in {Free, q}

RecordCreation(q) ==
    /\ At(q, "recording")
    /\ ShareOfActor(q)
    /\ creations' = [creations EXCEPT ![Actor(q)] = @ + 1]
    /\ Provisioned(q, "ACTIVE")
    /\ UNCHANGED <<administrators, status, trail, profileLock>>

RereadProfile(q) ==
    /\ At(q, "rereading")
    /\ Provisioned(q, status[Actor(q)])
    /\ KeepTables

(* A handler of another controller, of which only the event is modelled. *)
RunOperation(q) ==
    /\ At(q, "operating")
    /\ ShareOfActor(q)
    /\ Finish(q)
    /\ KeepTables

-----------------------------------------------------------------------------
(* updateStatus: lock the profile, refuse when there is none or it has the   *)
(* status already; the UPDATE of the locked row then waits for nothing.      *)
Refused(does) == status[does.of] \in {"NONE", does.to}

LockProfileUnlocked(q) ==
    /\ At(q, "locking")
    /\ IF Refused(request[q].does) THEN Finish(q) ELSE Go(q, "auditing")
    /\ KeepTables

LockProfile(q) ==
    /\ At(q, "locking")
    /\ LET does == request[q].does
       IN  /\ profileLock[does.of] = Free
           /\ IF Refused(does)
              THEN Finish(q) /\ UNCHANGED profileLock
              ELSE /\ profileLock' = [profileLock EXCEPT ![does.of] = q]
                   /\ Go(q, "auditing")
    /\ UNCHANGED <<administrators, tables>>

(* ... write the event, commit both. *)
CommitChange(q) ==
    LET does == request[q].does
    IN  /\ status' = [status EXCEPT ![does.of] = does.to]
        /\ trail' = [trail EXCEPT ![does.of] = Append(@, does.to)]
        /\ profileLock' = Released(q)
        /\ Finish(q)
        /\ UNCHANGED <<administrators, creations>>

(* The event written through the repository, on a connection of its own. *)
AuditChangeElsewhere(q) ==
    /\ At(q, "auditing")
    /\ ShareHeldFromAll(q)
    /\ CommitChange(q)

AuditChange(q) ==
    /\ At(q, "auditing")
    /\ ShareOfActor(q)
    /\ CommitChange(q)

-----------------------------------------------------------------------------
(* A statement fails or the process dies: the transaction is rolled back,    *)
(* and a profile that was created stays without its event.                   *)
Fail(q) ==
    /\ ~At(q, "idle")
    /\ profileLock' = Released(q)
    /\ Finish(q)
    /\ UNCHANGED <<administrators, tables>>

(* The transaction that a request waits for, if any. *)
Holder(q) ==
    IF At(q, "auditing") /\ ~ShareOfActor(q) THEN profileLock[Actor(q)] ELSE Free

(* Transactions that wait for each other in a circle. *)
Circle(S) == S # {} /\ \A q \in S : Holder(q) \in S

(* PostgreSQL aborts one of them. *)
AbortDeadlocked(q) ==
    /\ \E S \in SUBSET Requests : q \in S /\ Circle(S)
    /\ Fail(q)

-----------------------------------------------------------------------------
Step(q) ==
    \/ FindProfile(q) \/ CreateProfile(q) \/ RecordCreation(q) \/ RereadProfile(q)
    \/ RunOperation(q)
    \/ LockProfile(q) \/ AuditChange(q)
    \/ AbortDeadlocked(q)

Next ==
    \E q \in Requests :
        \/ \E u \in Users : GetMe(q, u) \/ Operate(q, u) \/ ChangeStatus(q, u)
        \/ Step(q)
        \/ Fail(q)

Spec == Init /\ [][Next]_vars

(* Node's event loop starves no statement, and PostgreSQL's queue for a row's *)
(* lock no transaction, though others take and release it meanwhile.          *)
FairSpec == Spec /\ \A q \in Requests : SF_vars(Step(q))

-----------------------------------------------------------------------------
(* findOrProvision: however many first requests of a subject overlap, one    *)
(* creates the profile and records it, and the others find that one.         *)
ProvisionedOnce == \A u \in Users : creations[u] <= 1

(* updateStatus: the events of a profile form a chain.  Each changes what    *)
(* the one before it left, also when two administrators decide at once, and  *)
(* the last one agrees with the row.                                         *)
TrailExplainsStatus ==
    \A u \in Users :
        /\ \A i \in 1 .. Len(trail[u]) - 1 : trail[u][i] # trail[u][i + 1]
        /\ status[u] # "NONE" => status[u] = trail[u][Len(trail[u])]

(* Every request ends, though status changes of each other deadlock and any  *)
(* request may wait for the profile of its actor.                            *)
RequestsFinish == \A q \in Requests : []<>At(q, "idle")
=============================================================================
