----------------------------- MODULE ProfileProofs ----------------------------
(***************************************************************************)
(* User profiles for every number of subjects, administrators and          *)
(* requests: what the index on the subject gives to overlapping first      *)
(* requests, and the lock of the profile to overlapping status changes.    *)
(***************************************************************************)
EXTENDS UserProfiles, TLAPS

ProfileTyped ==
    /\ status \in [Users -> UserProfileStatus \cup {"NONE"}]
    /\ creations \in [Users -> Nat]
    /\ trail \in [Users -> Seq(UserProfileStatus)]
    /\ profileLock \in [Users -> Requests \cup {Free}]
    /\ request \in [Requests -> Task \cup {Idle}]

(* The events of a profile form a chain that ends in its status. *)
Explains(events, last) ==
    /\ last = "NONE" => events = <<>>
    /\ last # "NONE" => Len(events) > 0 /\ events[Len(events)] = last
    /\ \A i \in 1 .. Len(events) - 1 : events[i] # events[i + 1]

(* A profile is created before it is recorded, and once. *)
Counted(u) == creations[u] <= 1 /\ (status[u] = "NONE" => creations[u] = 0)

(* A change holds its profile, which has another status. *)
Changing(q) ==
    /\ At(q, "locking") \/ At(q, "auditing") => request[q].does \in Change
    /\ At(q, "auditing") =>
          /\ profileLock[request[q].does.of] = q
          /\ status[request[q].does.of] \notin {"NONE", request[q].does.to}

(* Whoever records a creation is the one who created, and has not yet. *)
Recording(q) ==
    At(q, "recording") =>
        /\ status[Actor(q)] # "NONE"
        /\ creations[Actor(q)] = 0
        /\ \A p \in Requests : At(p, "recording") /\ Actor(p) = Actor(q) => p = q

ProfileInv ==
    /\ ProfileTyped
    /\ \A u \in Users : Explains(trail[u], status[u]) /\ Counted(u)
    /\ \A q \in Requests : Changing(q) /\ Recording(q)

(* One request moves, and takes no lock from another. *)
OthersKeep(q) ==
    \A p \in Requests \ {q} :
        /\ request'[p] = request[p]
        /\ \A u \in Users : profileLock[u] = p => profileLock'[u] = p

(* It writes the status of a profile it creates or holds, and the creation   *)
(* of one it is recording.                                                   *)
WritesOwnProfile(q) ==
    \A u \in Users :
        /\ status'[u] # status[u] => status[u] = "NONE" \/ profileLock[u] = q
        /\ status[u] # "NONE" => status'[u] # "NONE"
        /\ creations'[u] # creations[u] => At(q, "recording") /\ Actor(q) = u

-----------------------------------------------------------------------------
(* A change to another status adds a link to the chain.                      *)
LEMMA ChainGrows ==
    ASSUME NEW events \in Seq(UserProfileStatus), NEW last, last # "NONE",
           Explains(events, last), NEW to \in UserProfileStatus, to # last
    PROVE  Explains(Append(events, to), to)
<1> DEFINE longer == Append(events, to)
<1>1. /\ Len(longer) = Len(events) + 1 /\ Len(events) \in Nat
      /\ \A i \in 1 .. Len(events) : longer[i] = events[i]
      /\ longer[Len(longer)] = to
  OBVIOUS
<1>2. Len(events) > 0 /\ events[Len(events)] = last
      /\ \A i \in 1 .. Len(events) - 1 : events[i] # events[i + 1]
  BY DEF Explains
<1>3. to # "NONE"
  BY DEF UserProfileStatus
<1> HIDE DEF longer
<1>4. ASSUME NEW i \in 1 .. Len(longer) - 1 PROVE longer[i] # longer[i + 1]
  <2>1. CASE i = Len(events)
    BY <1>1, <1>2, <2>1
  <2>2. CASE i # Len(events)
    <3>1. i \in 1 .. Len(events) - 1 /\ i \in 1 .. Len(events) /\ i + 1 \in 1 .. Len(events)
      BY <1>1, <2>2
    <3> QED BY <1>1, <1>2, <3>1
  <2> QED BY <2>1, <2>2
<1> QED BY <1>1, <1>3, <1>4 DEF Explains, longer

(* What another request holds or has created stays as it is.                 *)
LEMMA OthersStand ==
    ASSUME ProfileInv, NEW q \in Requests, OthersKeep(q), WritesOwnProfile(q),
           Recording(q)', NEW p \in Requests \ {q}
    PROVE  Changing(p)' /\ Recording(p)'
<1>1. /\ request'[p] = request[p] /\ Changing(p) /\ Recording(p)
      /\ request[p] \in Task \cup {Idle} /\ p # Free
  BY UserProfilesAssumption DEF ProfileInv, ProfileTyped, OthersKeep, UserProfilesAssumption
<1>2. Changing(p)'
  <2>1. CASE At(p, "auditing")
    <3>1. request[p].does \in Change /\ request[p].does.of \in Users
      BY <1>1, <2>1 DEF Changing, Change
    <3> QED BY <1>1, <2>1, <3>1 DEF Changing, At, OthersKeep, WritesOwnProfile
  <2>2. CASE ~At(p, "auditing")
    BY <1>1, <2>2 DEF Changing, At
  <2> QED BY <2>1, <2>2
<1>3. CASE At(p, "recording")
  <2>1. Actor(p) \in Users /\ Actor(p)' = Actor(p)
    BY <1>1, <1>3 DEF Actor, At, Task, Idle
  <2>2. status'[Actor(p)] # "NONE" /\ creations'[Actor(p)] = 0
    <3>1. ~(At(q, "recording") /\ Actor(q) = Actor(p))
      BY <1>1, <1>3 DEF Recording
    <3> QED BY <1>1, <1>3, <2>1, <3>1 DEF Recording, WritesOwnProfile
  <2>3. ASSUME NEW x \in Requests, At(x, "recording")', Actor(x)' = Actor(p)'
        PROVE  x = p
    <3>1. CASE x = q
      BY <1>1, <1>3, <2>3, <3>1 DEF Recording, At
    <3>2. CASE x # q
      BY <1>1, <1>3, <2>1, <2>3, <3>2 DEF Recording, At, Actor, OthersKeep
    <3> QED BY <3>1, <3>2
  <2> QED BY <1>2, <2>1, <2>2, <2>3 DEF Recording
<1>4. CASE ~At(p, "recording")
  BY <1>1, <1>2, <1>4 DEF Recording, At
<1> QED BY <1>2, <1>3, <1>4

(* A step disturbs nobody else, so it answers for itself and the tables. *)
LEMMA StepKeeps ==
    ASSUME ProfileInv, ProfileTyped', NEW q \in Requests,
           OthersKeep(q), WritesOwnProfile(q), (Changing(q) /\ Recording(q))',
           \A u \in Users : (Explains(trail[u], status[u]) /\ Counted(u))'
    PROVE  ProfileInv'
<1>1. ASSUME NEW p \in Requests PROVE (Changing(p) /\ Recording(p))'
  <2>1. CASE p = q BY <2>1
  <2>2. CASE p # q BY <2>2, OthersStand
  <2> QED BY <2>1, <2>2
<1> QED BY <1>1 DEF ProfileInv

-----------------------------------------------------------------------------
(* The request goes on, and no row changes.                                  *)
LEMMA MoveKeeps ==
    ASSUME ProfileInv, NEW q \in Requests, NEW task \in Task \cup {Idle},
           Proceed(q, task), task.at \notin {"auditing", "recording"},
           task.at = "locking" => task.does \in Change,
           UNCHANGED tables,
           UNCHANGED profileLock \/ profileLock' = Released(q)
    PROVE  ProfileInv'
<1>1. /\ request' = [request EXCEPT ![q] = task]
      /\ UNCHANGED <<status, creations, trail>>
      /\ request'[q] = task
  BY DEF Proceed, tables, ProfileInv, ProfileTyped
<1>2. ProfileTyped'
  BY <1>1 DEF ProfileInv, ProfileTyped, Released
<1>3. OthersKeep(q) /\ WritesOwnProfile(q)
  BY <1>1 DEF ProfileInv, ProfileTyped, OthersKeep, WritesOwnProfile, Released
<1>4. (Changing(q) /\ Recording(q))'
  BY <1>1 DEF Changing, Recording, At
<1>5. \A u \in Users : (Explains(trail[u], status[u]) /\ Counted(u))'
  BY <1>1 DEF ProfileInv, Counted
<1> QED BY <1>2, <1>3, <1>4, <1>5, StepKeeps

(* A request that is not idle is a task, and may take its next step.         *)
LEMMA AtTask ==
    ASSUME ProfileInv, NEW q \in Requests, ~At(q, "idle"),
           NEW step \in {"finding", "creating", "recording", "rereading", "operating",
                         "locking", "auditing"}
    PROVE  /\ request[q] \in Task /\ Actor(q) \in Users
           /\ [request[q] EXCEPT !.at = step] \in Task
           /\ [request[q] EXCEPT !.at = step].at = step
           /\ [request[q] EXCEPT !.at = step].does = request[q].does
           /\ [request[q] EXCEPT !.at = step].actor = Actor(q)
<1>1. request[q] \in Task
  BY DEF ProfileInv, ProfileTyped, At, Idle
<1> QED BY <1>1 DEF Task, Actor

(* findOrProvision has answered.                                             *)
LEMMA ProvisionedMoves ==
    ASSUME ProfileInv, NEW q \in Requests, ~At(q, "idle"), NEW s, Provisioned(q, s)
    PROVE  \E task \in Task \cup {Idle} :
              /\ Proceed(q, task) /\ task.at \notin {"auditing", "recording"}
              /\ task.at = "locking" => task.does \in Change
<1>1. CASE Finish(q)
  BY <1>1 DEF Finish, Idle
<1>2. CASE request[q].does.kind = "change" /\ Go(q, "locking")
  <2>1. request[q].does \in Change
    BY <1>2, AtTask DEF Task, Plain
  <2> QED BY <1>2, <2>1, AtTask DEF Go
<1>3. CASE Go(q, "operating")
  BY <1>3, AtTask DEF Go
<1> QED BY <1>1, <1>2, <1>3 DEF Provisioned

-----------------------------------------------------------------------------
(* The index lets one first request create the profile.                      *)
LEMMA CreateProfileKeeps ==
    ASSUME ProfileInv, NEW q \in Requests, CreateProfile(q)
    PROVE  ProfileInv'
<1>1. ~At(q, "idle") /\ At(q, "creating")
  BY DEF CreateProfile, At
<1>2. CASE status[Actor(q)] # "NONE"
  <2>1. Go(q, "rereading") /\ UNCHANGED <<tables, profileLock>>
    BY <1>2 DEF CreateProfile, SubjectIndex, tables
  <2> QED BY <1>1, <2>1, AtTask, MoveKeeps DEF Go
<1>3. CASE status[Actor(q)] = "NONE"
  <2>1. PICK u \in Users : u = Actor(q) /\ status[u] = "NONE"
    BY <1>1, <1>3, AtTask
  <2> DEFINE task == [request[q] EXCEPT !.at = "recording"]
  <2>2. task \in Task /\ task.at = "recording" /\ task.actor = u
    BY <1>1, <2>1, AtTask
  <2>3. /\ status' = [status EXCEPT ![u] = "ACTIVE"]
        /\ trail' = [trail EXCEPT ![u] = <<"ACTIVE">>]
        /\ request' = [request EXCEPT ![q] = task]
        /\ UNCHANGED <<creations, profileLock>>
    BY <2>1 DEF CreateProfile, SubjectIndex, Go, Proceed
  <2> HIDE DEF task
  <2>4. request'[q] = task
    BY <2>3 DEF ProfileInv, ProfileTyped
  <2>5. ProfileTyped'
    BY <2>2, <2>3 DEF ProfileInv, ProfileTyped, UserProfileStatus
  <2>6. OthersKeep(q) /\ WritesOwnProfile(q)
    BY <2>1, <2>3 DEF ProfileInv, ProfileTyped, OthersKeep, WritesOwnProfile
  <2>7. Changing(q)'
    BY <2>2, <2>4 DEF Changing, At
  <2>8. Recording(q)'
    <3>1. status'[u] # "NONE" /\ creations'[u] = 0
      BY <2>1, <2>3 DEF ProfileInv, ProfileTyped, Counted
    <3>2. ASSUME NEW p \in Requests, At(p, "recording")', Actor(p)' = u PROVE p = q
      <4>1. CASE p # q
        <5>1. At(p, "recording") /\ Actor(p) = u
          BY <3>2, <4>1, <2>6 DEF OthersKeep, At, Actor
        <5> QED BY <5>1, <2>1 DEF ProfileInv, Recording
      <4> QED BY <4>1
    <3> QED BY <2>2, <2>4, <3>1, <3>2 DEF Recording, Actor
  <2>9. ASSUME NEW x \in Users PROVE (Explains(trail[x], status[x]) /\ Counted(x))'
    <3>1. CASE x = u
      <4>1. trail'[x] = <<"ACTIVE">> /\ status'[x] = "ACTIVE" /\ creations'[x] = 0
        BY <2>1, <2>3, <3>1 DEF ProfileInv, ProfileTyped, Counted
      <4> QED BY <4>1 DEF Explains, Counted
    <3>2. CASE x # u
      <4>1. trail'[x] = trail[x] /\ status'[x] = status[x] /\ creations'[x] = creations[x]
        BY <2>3, <3>2 DEF ProfileInv, ProfileTyped
      <4> QED BY <4>1 DEF ProfileInv, Counted
    <3> QED BY <3>1, <3>2
  <2> QED BY <2>5, <2>6, <2>7, <2>8, <2>9, StepKeeps
<1> QED BY <1>2, <1>3

(* Only that one records the creation. *)
LEMMA RecordCreationKeeps ==
    ASSUME ProfileInv, NEW q \in Requests, RecordCreation(q)
    PROVE  ProfileInv'
<1>1. ~At(q, "idle") /\ At(q, "recording") /\ Recording(q)
  BY DEF RecordCreation, At, ProfileInv
<1>2. PICK u \in Users : u = Actor(q) /\ status[u] # "NONE" /\ creations[u] = 0
  BY <1>1, AtTask DEF Recording
<1>3. PICK task \in Task \cup {Idle} :
         /\ Proceed(q, task) /\ task.at \notin {"auditing", "recording"}
         /\ task.at = "locking" => task.does \in Change
  BY <1>1, ProvisionedMoves DEF RecordCreation
<1>4. /\ request' = [request EXCEPT ![q] = task] /\ request'[q] = task
      /\ creations' = [creations EXCEPT ![u] = 1]
      /\ UNCHANGED <<status, trail, profileLock>>
  BY <1>2, <1>3 DEF RecordCreation, Proceed, ProfileInv, ProfileTyped
<1>5. ProfileTyped'
  BY <1>4 DEF ProfileInv, ProfileTyped
<1>6. OthersKeep(q) /\ WritesOwnProfile(q)
  BY <1>1, <1>2, <1>4 DEF ProfileInv, ProfileTyped, OthersKeep, WritesOwnProfile
<1>7. (Changing(q) /\ Recording(q))'
  BY <1>3, <1>4 DEF Changing, Recording, At
<1>8. \A x \in Users : (Explains(trail[x], status[x]) /\ Counted(x))'
  BY <1>2, <1>4 DEF ProfileInv, ProfileTyped, Counted
<1> QED BY <1>5, <1>6, <1>7, <1>8, StepKeeps

(* updateStatus has locked the profile, and it has another status.           *)
LEMMA LockProfileKeeps ==
    ASSUME ProfileInv, NEW q \in Requests, LockProfile(q)
    PROVE  ProfileInv'
<1>1. ~At(q, "idle") /\ At(q, "locking") /\ request[q].does \in Change
  BY DEF LockProfile, At, ProfileInv, Changing
<1>2. CASE Refused(request[q].does)
  <2>1. Proceed(q, Idle) /\ UNCHANGED <<tables, profileLock>>
    BY <1>2 DEF LockProfile, Finish
  <2> QED BY <2>1, MoveKeeps DEF Idle
<1>3. CASE ~Refused(request[q].does)
  <2> DEFINE task == [request[q] EXCEPT !.at = "auditing"]
             does == request[q].does
  <2>1. task \in Task /\ task.at = "auditing" /\ task.does = does
    BY <1>1, AtTask
  <2>2. PICK u \in Users : u = does.of
    BY <1>1 DEF Change
  <2>3. /\ request' = [request EXCEPT ![q] = task]
        /\ profileLock[u] = Free /\ profileLock' = [profileLock EXCEPT ![u] = q]
        /\ UNCHANGED <<status, creations, trail>>
        /\ status[u] \notin {"NONE", does.to}
    BY <1>3, <2>2 DEF LockProfile, Go, Proceed, tables, Refused
  <2> HIDE DEF task
  <2>4. request'[q] = task /\ profileLock'[u] = q
    BY <2>3 DEF ProfileInv, ProfileTyped
  <2>5. ProfileTyped'
    BY <2>1, <2>3 DEF ProfileInv, ProfileTyped
  <2>6. OthersKeep(q) /\ WritesOwnProfile(q)
    BY <2>3, UserProfilesAssumption
       DEF ProfileInv, ProfileTyped, OthersKeep, WritesOwnProfile, UserProfilesAssumption
  <2>7. (Changing(q) /\ Recording(q))'
    BY <1>1, <2>1, <2>2, <2>3, <2>4 DEF Changing, Recording, At
  <2>8. \A x \in Users : (Explains(trail[x], status[x]) /\ Counted(x))'
    BY <2>3 DEF ProfileInv, Counted
  <2> QED BY <2>5, <2>6, <2>7, <2>8, StepKeeps
<1> QED BY <1>2, <1>3

(* The event and the status commit together.                                 *)
LEMMA AuditChangeKeeps ==
    ASSUME ProfileInv, NEW q \in Requests, AuditChange(q)
    PROVE  ProfileInv'
<1> DEFINE to == request[q].does.to
<1>1. PICK u \in Users :
         /\ u = request[q].does.of /\ profileLock[u] = q
         /\ status[u] \notin {"NONE", to} /\ to \in UserProfileStatus
  BY DEF AuditChange, ProfileInv, Changing, Change
<1>2. /\ status' = [status EXCEPT ![u] = to]
      /\ trail' = [trail EXCEPT ![u] = Append(trail[u], to)]
      /\ profileLock' = Released(q)
      /\ request' = [request EXCEPT ![q] = Idle] /\ request'[q] = Idle
      /\ creations' = creations
  BY <1>1 DEF AuditChange, CommitChange, Finish, Proceed, ProfileInv, ProfileTyped
<1> HIDE DEF to
<1>3. ProfileTyped'
  BY <1>1, <1>2 DEF ProfileInv, ProfileTyped, Released
<1>4. OthersKeep(q) /\ WritesOwnProfile(q)
  BY <1>1, <1>2
     DEF ProfileInv, ProfileTyped, OthersKeep, WritesOwnProfile, Released, UserProfileStatus
<1>5. (Changing(q) /\ Recording(q))'
  BY <1>2 DEF Changing, Recording, At, Idle
<1>6. ASSUME NEW x \in Users PROVE (Explains(trail[x], status[x]) /\ Counted(x))'
  <2>1. CASE x = u
    <3>1. trail[u] \in Seq(UserProfileStatus) /\ Explains(trail[u], status[u]) /\ Counted(u)
      BY DEF ProfileInv, ProfileTyped
    <3>2. trail'[u] = Append(trail[u], to) /\ status'[u] = to
      BY <1>2 DEF ProfileInv, ProfileTyped
    <3>3. Explains(trail'[u], status'[u])
      BY <1>1, <3>1, <3>2, ChainGrows
    <3>4. Counted(u)'
      BY <1>1, <1>2, <3>1, <3>2 DEF Counted, UserProfileStatus
    <3> QED BY <2>1, <3>3, <3>4
  <2>2. CASE x # u
    <3>1. trail'[x] = trail[x] /\ status'[x] = status[x]
      BY <1>2, <2>2 DEF ProfileInv, ProfileTyped
    <3> QED BY <1>2, <3>1 DEF ProfileInv, Counted
  <2> QED BY <2>1, <2>2
<1> QED BY <1>3, <1>4, <1>5, <1>6, StepKeeps

(* A failure rolls back, and what it held is free.                           *)
LEMMA FailKeeps ==
    ASSUME ProfileInv, NEW q \in Requests, Fail(q)
    PROVE  ProfileInv'
BY MoveKeeps DEF Fail, Finish, Idle

-----------------------------------------------------------------------------
(* Every step of a request keeps the invariant.                              *)
LEMMA NextKeeps ==
    ASSUME ProfileInv, [Next]_vars
    PROVE  ProfileInv'
<1>1. ASSUME NEW q \in Requests, NEW u \in Users, NEW does \in Plain \cup Change,
             Arrive(q, u, does)
      PROVE  ProfileInv'
  <2> DEFINE task == [at |-> "finding", actor |-> u, does |-> does]
  <2>1. task \in Task
    BY DEF Task
  <2> QED BY <1>1, <2>1, MoveKeeps DEF Arrive, KeepTables
<1>2. ASSUME NEW q \in Requests, NEW u \in Users,
             GetMe(q, u) \/ Operate(q, u) \/ ChangeStatus(q, u)
      PROVE  ProfileInv'
  BY <1>1, <1>2 DEF GetMe, Operate, ChangeStatus, Plain, Change
<1>3. ASSUME NEW q \in Requests, NEW s, Provisioned(q, s), ~At(q, "idle"), KeepTables
      PROVE  ProfileInv'
  BY <1>3, ProvisionedMoves, MoveKeeps DEF KeepTables
<1>4. ASSUME NEW q \in Requests, FindProfile(q)
      PROVE  ProfileInv'
  <2>1. ~At(q, "idle") /\ KeepTables
    BY <1>4 DEF FindProfile, At
  <2>2. CASE Go(q, "creating")
    BY <2>1, <2>2, AtTask, MoveKeeps DEF Go, KeepTables
  <2> QED BY <1>3, <1>4, <2>1, <2>2 DEF FindProfile
<1>5. ASSUME NEW q \in Requests, RereadProfile(q)
      PROVE  ProfileInv'
  BY <1>3, <1>5 DEF RereadProfile, At
<1>6. ASSUME NEW q \in Requests, RunOperation(q)
      PROVE  ProfileInv'
  BY <1>6, MoveKeeps DEF RunOperation, Finish, KeepTables, Idle
<1>7. ASSUME NEW q \in Requests, Step(q)
      PROVE  ProfileInv'
  BY <1>4, <1>5, <1>6, <1>7, CreateProfileKeeps, RecordCreationKeeps, LockProfileKeeps,
     AuditChangeKeeps, FailKeeps DEF Step, AbortDeadlocked
<1>8. CASE UNCHANGED vars
  BY <1>8 DEF vars, tables, ProfileInv, ProfileTyped, Counted, Changing, Recording, At, Actor
<1> QED BY <1>2, <1>7, <1>8, FailKeeps DEF Next

(* Before the first request there is no profile.                             *)
LEMMA ProfilesStartWell == Init => ProfileInv
BY DEF Init, ProfileInv, ProfileTyped, Explains, Counted, Changing, Recording, At, Idle

(* The inductive invariant of the profiles.                                  *)
LEMMA ProfileInvariant == Spec => []ProfileInv
BY ProfilesStartWell, NextKeeps, PTL DEF Spec

(* However many first requests of a subject overlap, its creation is         *)
(* recorded at most once.                                                    *)
THEOREM CreationsRecordedOnce == Spec => []ProvisionedOnce
<1>1. ProfileInv => ProvisionedOnce
  BY DEF ProfileInv, Counted, ProvisionedOnce
<1> QED BY <1>1, ProfileInvariant, PTL

(* Each status event of a profile changes what the one before left, and the  *)
(* last agrees with the row, for any number of administrators who decide at  *)
(* once.                                                                     *)
THEOREM TrailAlwaysExplains == Spec => []TrailExplainsStatus
<1>1. ProfileInv => TrailExplainsStatus
  BY DEF ProfileInv, Explains, TrailExplainsStatus
<1> QED BY <1>1, ProfileInvariant, PTL
=============================================================================
