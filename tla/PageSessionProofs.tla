--------------------------- MODULE PageSessionProofs --------------------------
(***************************************************************************)
(* The pages that change a row, for every number of requests and changes:  *)
(* that the tables of the pages and of the services agree, that a dialog   *)
(* sends one request, that a page shows its own changes, and that what a   *)
(* confirmation says comes true.                                           *)
(*                                                                         *)
(* A step is seen from each request it touches: it is like it was, sent,   *)
(* answered, refreshing or gone.  From that and from what a step makes of  *)
(* the row follow the parts of the invariant that speak of requests.       *)
(***************************************************************************)
EXTENDS PageSession, FiniteSetTheorems, TLAPS

(* What two sections of a page do together, and what a single one does.      *)
LEMMA TogetherDoes ==
    ASSUME NEW a, NEW b
    PROVE  Together({a, b}).does = a.does \cup b.does
BY DEF Together

(* A section that moves the row offers its call for each status.             *)
LEMMA MovesToDoes ==
    ASSUME NEW call, NEW statuses
    PROVE  MovesTo(call, statuses).does = {call} \X statuses
BY DEF MovesTo, Nothing

(* A section of calls offers each of them, with no status.                   *)
LEMMA DoesDoes ==
    ASSUME NEW calls
    PROVE  Does(calls).does = {<<call, "">> : call \in calls}
BY DEF Does, Nothing

(* Queries and links offer no operation.                                     *)
LEMMA ReadsAndLinksDoNothing ==
    ASSUME NEW calls
    PROVE  Reads(calls).does = {} /\ Links(calls).does = {}
BY DEF Reads, Links, Nothing

(* A conditional section offers something only under its condition.          *)
LEMMA WhenDoes ==
    ASSUME NEW condition, NEW section
    PROVE  When(condition, section).does \subseteq section.does
           /\ ((When(condition, section).does # {}) => condition)
BY DEF When, Nothing

(* The two parts of an operation.                                            *)
LEMMA PairFields ==
    ASSUME NEW x, NEW y
    PROVE  <<x, y>>[1] = x /\ <<x, y>>[2] = y
OBVIOUS

(* The operation of a call that moves the row, and of one that does not.     *)
LEMMA MoveOffered ==
    ASSUME NEW resource, NEW method, NEW statuses,
           NEW o \in MovesTo(<<resource, method>>, statuses).does
    PROVE  Method(o) = method /\ o[2] \in statuses
<1>1. o \in {<<resource, method>>} \X statuses
  BY MovesToDoes
<1>2. o[1] = <<resource, method>> /\ o[2] \in statuses
  BY <1>1
<1> QED BY <1>2 DEF Method

(* The method of a call that does not move the row.                          *)
LEMMA CallOffered ==
    ASSUME NEW resource, NEW method, NEW o \in Does({<<resource, method>>}).does
    PROVE  Method(o) = method
<1> DEFINE call == <<resource, method>>
<1> HIDE DEF call
<1>1. o \in {<<c, "">> : c \in {call}}
  BY DoesDoes DEF call
<1>2. o = <<call, "">>
  BY <1>1
<1>3. o[1] = call
  BY <1>2, PairFields
<1> QED BY <1>3 DEF Method, call

(* The operations the page of each kind offers.                              *)
LEMMA RaceOffers ==
    ASSUME NEW status \in StatusesOf["race"], NEW o \in Offered("race", status)
    PROVE  \/ Method(o) = "updateStatus" /\ o[2] \in RaceStatusTransitions[status]
           \/ Method(o) = "remove" /\ RaceStatusTransitions[status] # {}
<1> DEFINE a == MovesTo(<<"races", "updateStatus">>, RaceStatusTransitions[status])
           b == Does({<<"races", "remove">>})
           enabled == CanManage(Administrators) /\ RaceStatusTransitions[status] # {}
<1>1. Offered("race", status) = RaceLifecycle(Administrators, status).does
  BY DEF Offered
<1>2. RaceLifecycle(Administrators, status)
          = When(enabled, Together({a, b}))
  BY DEF RaceLifecycle
<1> HIDE DEF a, b, enabled
<1>3. o \in a.does \cup b.does /\ enabled
  BY <1>1, <1>2, WhenDoes, TogetherDoes
<1>4. CASE o \in a.does
  BY <1>4, MoveOffered DEF a
<1>5. CASE o \in b.does
  BY <1>5, <1>3, CallOffered DEF b, enabled
<1> QED BY <1>3, <1>4, <1>5

(* CompetitorAdministration moves or removes a competitor.                   *)
LEMMA CompetitorOffers ==
    ASSUME NEW status \in StatusesOf["competitor"], NEW o \in Offered("competitor", status)
    PROVE  \/ Method(o) = "updateStatus" /\ o[2] \in CompetitorStatusTransitions[status]
           \/ Method(o) = "remove"
<1> DEFINE a == MovesTo(<<"competitors", "updateStatus">>, CompetitorStatusTransitions[status])
           b == Does({<<"competitors", "remove">>})
<1>1. Offered("competitor", status) = CompetitorAdministration(Administrators, status).does
  BY DEF Offered
<1>2. CompetitorAdministration(Administrators, status)
          = When(IsAdministrator(Administrators), Together({a, b}))
  BY DEF CompetitorAdministration
<1> HIDE DEF a, b
<1>3. o \in a.does \cup b.does
  BY <1>1, <1>2, WhenDoes, TogetherDoes
<1>4. CASE o \in a.does
  BY <1>4, MoveOffered DEF a
<1>5. CASE o \in b.does
  BY <1>5, CallOffered DEF b
<1> QED BY <1>3, <1>4, <1>5

(* The three sections of a team: its status, its removal, its members.       *)
LEMMA TeamOffers ==
    ASSUME NEW status \in StatusesOf["team"], NEW o \in Offered("team", status)
    PROVE  \/ Method(o) = "updateStatus" /\ o[2] = OtherTeamStatus(status)
           \/ Method(o) \in {"remove", "removeMember"}
           \/ Method(o) = "addMember" /\ status = "ACTIVE"
<1> DEFINE a == MovesTo(<<"teams", "updateStatus">>, {OtherTeamStatus(status)})
           b == Does({<<"teams", "remove">>})
           c == Does({<<"teams", "addMember">>})
           d == Does({<<"teams", "removeMember">>})
           reads == Reads({<<"competitors", "list">>})
           links == Links({"/competitors/:id"})
           admin == IsAdministrator(Administrators)
           active == admin /\ status = "ACTIVE"
<1>1. Offered("team", status) = TeamAdministration(Administrators, status).does
            \cup ActiveMemberColumns(Administrators).does
            \cup AddMemberPanel(Administrators, status).does
  BY DEF Offered
<1>2. TeamAdministration(Administrators, status) = When(admin, Together({a, b}))
  BY DEF TeamAdministration
<1>3. ActiveMemberColumns(Administrators) = Together({links, When(admin, d)})
  BY DEF ActiveMemberColumns
<1>4. AddMemberPanel(Administrators, status) = When(active, Together({reads, c}))
  BY DEF AddMemberPanel
<1>5. reads.does = {} /\ links.does = {}
  BY ReadsAndLinksDoNothing
<1>6. active => status = "ACTIVE"
  OBVIOUS
<1> HIDE DEF a, b, c, d, reads, links, admin, active
<1>7. \/ o \in a.does \cup b.does \cup d.does
      \/ o \in c.does /\ active
  BY <1>1, <1>2, <1>3, <1>4, <1>5, WhenDoes, TogetherDoes
<1>8. CASE o \in a.does
  BY <1>8, MoveOffered DEF a
<1>9. CASE o \in b.does
  BY <1>9, CallOffered DEF b
<1>10. CASE o \in c.does /\ active
  BY <1>10, <1>6, CallOffered DEF c
<1>11. CASE o \in d.does
  BY <1>11, CallOffered DEF d
<1> QED BY <1>7, <1>8, <1>9, <1>10, <1>11

(* AccessState moves a profile to its other status.                          *)
LEMMA UserOffers ==
    ASSUME NEW status \in StatusesOf["user"], NEW o \in Offered("user", status)
    PROVE  Method(o) = "updateStatus" /\ o[2] = OtherProfileStatus(status)
<1> DEFINE a == MovesTo(<<"users", "updateStatus">>, {OtherProfileStatus(status)})
           enabled == ~(FALSE /\ status = "ACTIVE")
<1>1. o \in When(enabled, a).does
  BY DEF Offered, AccessState
<1> HIDE DEF a, enabled
<1>2. o \in a.does
  BY <1>1, WhenDoes
<1> QED BY <1>2, MoveOffered DEF a

(* A decision is for a pending registration, a cancellation for an open one. *)
LEMMA RegistrationOffers ==
    ASSUME NEW status \in StatusesOf["registration"], NEW o \in Offered("registration", status)
    PROVE  \/ Method(o) \in {"approve", "reject"} /\ status = "PENDING"
           \/ Method(o) = "cancel" /\ status \in {"PENDING", "APPROVED"}
<1> DEFINE a == Does({<<"registrations", "approve">>, <<"registrations", "reject">>})
           b == Does({<<"registrations", "cancel">>})
           pending == status = "PENDING"
           open == TRUE /\ status \in {"PENDING", "APPROVED"}
<1>1. o \in Together({When(pending, a), When(open, b)}).does
  BY DEF Offered, RegistrationActions
<1> DEFINE x == <<"registrations", "approve">>
           y == <<"registrations", "reject">>
<1>2. a.does = {<<call, "">> : call \in {x, y}}
  BY DoesDoes
<1>3. /\ pending => status = "PENDING"
      /\ open => status \in {"PENDING", "APPROVED"}
  OBVIOUS
<1> HIDE DEF a, b, x, y, pending, open
<1>4. \/ o \in a.does /\ pending
      \/ o \in b.does /\ open
  BY <1>1, WhenDoes, TogetherDoes
<1>5. CASE o \in a.does /\ pending
  <2>1. PICK call \in {x, y} : o = <<call, "">>
    BY <1>2, <1>5
  <2>2. o[1] = x \/ o[1] = y
    BY <2>1, PairFields
  <2> QED BY <2>2, <1>3, <1>5 DEF Method, x, y
<1>6. CASE o \in b.does /\ open
  BY <1>6, <1>3, CallOffered DEF b
<1> QED BY <1>4, <1>5, <1>6

(* The page of a result corrects it.                                         *)
LEMMA ResultOffers ==
    ASSUME NEW status \in StatusesOf["result"], NEW o \in Offered("result", status)
    PROVE  Method(o) = "update"
<1>1. Offered("result", status) = {<<<<"results", "update">>, "">>}
  BY DEF Offered
<1> DEFINE call == <<"results", "update">>
<1> HIDE DEF call
<1>2. o = <<call, "">>
  BY <1>1 DEF call
<1>3. o[1] = call
  BY <1>2, PairFields
<1> QED BY <1>3 DEF Method, call

(* The statuses of the rows of each kind, and the kinds there are.           *)
LEMMA StatusTable ==
    /\ DOMAIN StatusesOf = {"race", "competitor", "team", "user", "registration", "result"}
    /\ StatusesOf["race"] = {"DRAFT", "OPEN_FOR_REGISTRATION", "CLOSED", "IN_PROGRESS",
                             "COMPLETED", "CANCELLED"}
    /\ StatusesOf["competitor"] = {"ACTIVE", "SUSPENDED", "RETIRED"}
    /\ StatusesOf["team"] = {"ACTIVE", "INACTIVE"}
    /\ StatusesOf["user"] = {"ACTIVE", "DISABLED"}
    /\ StatusesOf["registration"] = {"PENDING", "APPROVED", "REJECTED", "CANCELLED"}
    /\ StatusesOf["result"] = {"RECORDED"}
BY DEF StatusesOf, RaceStatusTransitions, CompetitorStatusTransitions, RegistrationStatuses

(* There is no other kind of page.                                           *)
LEMMA KindIsListed ==
    ASSUME kind \in Kinds
    PROVE  kind \in {"race", "competitor", "team", "user", "registration", "result"}
BY KindsAssumption, StatusTable

(* The tables of the pages and of the services agree: what a page offers for *)
(* a row of a status, the service of that row does not refuse for it.        *)
LEMMA OfferedIsAllowed ==
    ASSUME kind \in Kinds, NEW status \in StatusesOf[kind], NEW o \in Offered(kind, status)
    PROVE  Verdict(o, status) # {}
<1>1. CASE kind = "race"
  <2>1. status # "GONE"
    BY <1>1, StatusTable
  <2>2. Verdict(o, status) = RaceVerdict(Method(o), o[2], status)
    BY <1>1, <2>1 DEF Verdict
  <2>3. \/ Method(o) = "updateStatus" /\ o[2] \in RaceStatusTransitions[status]
        \/ Method(o) = "remove" /\ RaceStatusTransitions[status] # {}
    BY <1>1, RaceOffers
  <2> QED BY <1>1, <2>2, <2>3, StatusTable DEF RaceVerdict, RaceStatusTransitions
<1>2. CASE kind = "competitor"
  <2>1. status # "GONE"
    BY <1>2, StatusTable
  <2>2. Verdict(o, status) = CompetitorVerdict(Method(o), o[2], status)
    BY <1>2, <2>1 DEF Verdict
  <2>3. \/ Method(o) = "updateStatus" /\ o[2] \in CompetitorStatusTransitions[status]
        \/ Method(o) = "remove"
    BY <1>2, CompetitorOffers
  <2> QED BY <1>2, <2>2, <2>3, StatusTable
          DEF CompetitorVerdict, CompetitorStatusTransitions
<1>3. CASE kind = "team"
  <2>1. status # "GONE"
    BY <1>3, StatusTable
  <2>2. Verdict(o, status) = TeamVerdict(Method(o), o[2], status)
    BY <1>3, <2>1 DEF Verdict
  <2>3. \/ Method(o) = "updateStatus" /\ o[2] = OtherTeamStatus(status)
        \/ Method(o) \in {"remove", "removeMember"}
        \/ Method(o) = "addMember" /\ status = "ACTIVE"
    BY <1>3, TeamOffers
  <2> QED BY <1>3, <2>2, <2>3, StatusTable DEF TeamVerdict, OtherTeamStatus
<1>4. CASE kind = "user"
  <2>1. status # "GONE"
    BY <1>4, StatusTable
  <2>2. Verdict(o, status) = UserVerdict(o[2], status)
    BY <1>4, <2>1 DEF Verdict
  <2>3. o[2] = OtherProfileStatus(status)
    BY <1>4, UserOffers
  <2> QED BY <1>4, <2>2, <2>3, StatusTable DEF UserVerdict, OtherProfileStatus
<1>5. CASE kind = "registration"
  <2>1. status # "GONE"
    BY <1>5, StatusTable
  <2>2. Verdict(o, status) = RegistrationVerdict(Method(o), status)
    BY <1>5, <2>1 DEF Verdict
  <2>3. \/ Method(o) \in {"approve", "reject"} /\ status = "PENDING"
        \/ Method(o) = "cancel" /\ status \in {"PENDING", "APPROVED"}
    BY <1>5, RegistrationOffers
  <2> QED BY <1>5, <2>2, <2>3, StatusTable DEF RegistrationVerdict
<1>6. CASE kind = "result"
  BY <1>6, StatusTable DEF Verdict
<1> QED BY <1>1, <1>2, <1>3, <1>4, <1>5, <1>6, KindIsListed

(* The operations of the page of each kind, whatever its row.                *)
LEMMA OperationShape ==
    ASSUME kind \in Kinds, NEW o \in Operations
    PROVE  \/ /\ kind = "race"
              /\ \/ Method(o) = "updateStatus" /\ o[2] \in StatusesOf["race"]
                 \/ Method(o) = "remove"
           \/ /\ kind = "competitor"
              /\ \/ Method(o) = "updateStatus" /\ o[2] \in StatusesOf["competitor"]
                 \/ Method(o) = "remove"
           \/ /\ kind = "team"
              /\ \/ Method(o) = "updateStatus" /\ o[2] \in StatusesOf["team"]
                 \/ Method(o) \in {"remove", "removeMember", "addMember"}
           \/ /\ kind = "user"
              /\ Method(o) = "updateStatus" /\ o[2] \in StatusesOf["user"]
           \/ /\ kind = "registration"
              /\ Method(o) \in {"approve", "reject", "cancel"}
           \/ /\ kind = "result"
              /\ Method(o) = "update"
<1>1. PICK status \in StatusesOf[kind] : o \in Offered(kind, status)
  BY DEF Operations
<1>2. CASE kind = "race"
  <2>1. \/ Method(o) = "updateStatus" /\ o[2] \in RaceStatusTransitions[status]
        \/ Method(o) = "remove"
    BY <1>1, <1>2, RaceOffers
  <2> QED BY <1>1, <1>2, <2>1, StatusTable DEF RaceStatusTransitions
<1>3. CASE kind = "competitor"
  <2>1. \/ Method(o) = "updateStatus" /\ o[2] \in CompetitorStatusTransitions[status]
        \/ Method(o) = "remove"
    BY <1>1, <1>3, CompetitorOffers
  <2> QED BY <1>1, <1>3, <2>1, StatusTable DEF CompetitorStatusTransitions
<1>4. CASE kind = "team"
  BY <1>1, <1>4, TeamOffers, StatusTable DEF OtherTeamStatus
<1>5. CASE kind = "user"
  BY <1>1, <1>5, UserOffers, StatusTable DEF OtherProfileStatus
<1>6. CASE kind = "registration"
  BY <1>1, <1>6, RegistrationOffers
<1>7. CASE kind = "result"
  BY <1>1, <1>7, ResultOffers
<1> QED BY <1>2, <1>3, <1>4, <1>5, <1>6, <1>7, KindIsListed

(* A row keeps a status of its kind, or is removed, and setQueryData never   *)
(* receives the answer of a removal.                                         *)
LEMMA VerdictStays ==
    ASSUME kind \in Kinds, NEW o \in Operations,
           NEW status \in StatusesOf[kind] \cup {"GONE"}, NEW next \in Verdict(o, status)
    PROVE  /\ next \in StatusesOf[kind] \cup {"GONE"}
           /\ SetsData(o) => next \in StatusesOf[kind]
<1>0. status # "GONE" /\ status \in StatusesOf[kind]
  <2>1. Verdict(o, "GONE") = {}
    BY DEF Verdict
  <2> QED BY <2>1
<1>1. CASE kind = "race"
  <2>1. next \in RaceVerdict(Method(o), o[2], status)
    BY <1>0, <1>1 DEF Verdict
  <2> QED BY <1>0, <1>1, <2>1, OperationShape, StatusTable DEF RaceVerdict, SetsData
<1>2. CASE kind = "competitor"
  <2>1. next \in CompetitorVerdict(Method(o), o[2], status)
    BY <1>0, <1>2 DEF Verdict
  <2> QED BY <1>0, <1>2, <2>1, OperationShape, StatusTable DEF CompetitorVerdict, SetsData
<1>3. CASE kind = "team"
  <2>1. next \in TeamVerdict(Method(o), o[2], status)
    BY <1>0, <1>3 DEF Verdict
  <2> QED BY <1>0, <1>3, <2>1, OperationShape, StatusTable DEF TeamVerdict, SetsData
<1>4. CASE kind = "user"
  <2>1. next \in UserVerdict(o[2], status)
    BY <1>0, <1>4 DEF Verdict
  <2> QED BY <1>4, <2>1, OperationShape, StatusTable DEF UserVerdict
<1>5. CASE kind = "registration"
  <2>1. next \in RegistrationVerdict(Method(o), status)
    BY <1>0, <1>5 DEF Verdict
  <2> QED BY <1>5, <2>1, StatusTable DEF RegistrationVerdict
<1>6. CASE kind = "result"
  BY <1>0, <1>6 DEF Verdict
<1> QED BY <1>1, <1>2, <1>3, <1>4, <1>5, <1>6, KindIsListed

(* The text of a confirmation tells what the service would make of the row   *)
(* on the screen.                                                            *)
LEMMA PromiseIsKept ==
    ASSUME kind \in Kinds, NEW o \in Operations, cache.data.status \in StatusesOf[kind]
    PROVE  Verdict(o, cache.data.status) \subseteq Promised(o)
<1> DEFINE status == cache.data.status
<1>0. status # "GONE"
  BY KindIsListed, StatusTable
<1> SUFFICES ASSUME NEW next \in Verdict(o, status) PROVE next \in Promised(o)
  OBVIOUS
<1>1. CASE kind = "race"
  <2>1. next \in RaceVerdict(Method(o), o[2], status)
    BY <1>0, <1>1 DEF Verdict
  <2> QED BY <1>1, <2>1, OperationShape DEF RaceVerdict, Promised
<1>2. CASE kind = "competitor"
  <2>1. next \in CompetitorVerdict(Method(o), o[2], status)
    BY <1>0, <1>2 DEF Verdict
  <2> QED BY <1>2, <2>1, OperationShape DEF CompetitorVerdict, Promised
<1>3. CASE kind = "team"
  <2>1. next \in TeamVerdict(Method(o), o[2], status)
    BY <1>0, <1>3 DEF Verdict
  <2> QED BY <1>3, <2>1, OperationShape DEF TeamVerdict, Promised
<1>4. CASE kind = "user"
  <2>1. next \in UserVerdict(o[2], status)
    BY <1>0, <1>4 DEF Verdict
  <2> QED BY <1>4, <2>1, OperationShape, StatusTable
          DEF UserVerdict, Promised, OtherProfileStatus
<1>5. CASE kind = "registration"
  <2>1. next \in RegistrationVerdict(Method(o), status)
    BY <1>0, <1>5 DEF Verdict
  <2> QED BY <1>5, <2>1, OperationShape DEF RegistrationVerdict, Promised
<1>6. CASE kind = "result"
  BY <1>0, <1>6, OperationShape DEF Verdict, Promised
<1> QED BY <1>1, <1>2, <1>3, <1>4, <1>5, <1>6, KindIsListed

(* Every mutation makes the query of its own page stale.                     *)
LEMMA EveryKindInvalidates ==
    ASSUME kind \in Kinds
    PROVE  Invalidates
BY KindIsListed DEF Invalidates, ResourceRoot, MutationInvalidation

-----------------------------------------------------------------------------
AllStatuses ==
    {"DRAFT", "OPEN_FOR_REGISTRATION", "CLOSED", "IN_PROGRESS", "COMPLETED", "CANCELLED",
     "ACTIVE", "SUSPENDED", "RETIRED", "INACTIVE", "DISABLED", "PENDING", "APPROVED",
     "REJECTED", "RECORDED", "GONE"}

(* The requests a slot holds: one that is on its way to the service, with    *)
(* what the user saw when it was sent, and one that is answered.             *)
SentRequests ==
    [at : {"sent"}, operation : Operations, seen : 0..MaxVersion[kind],
     screen : 0..MaxVersion[kind], promised : SUBSET AllStatuses,
     confirms : BOOLEAN, observed : BOOLEAN, here : BOOLEAN]

LiveRows == [version : 0..MaxVersion[kind], status : StatusesOf[kind]]

Rows == [version : 0..MaxVersion[kind], status : StatusesOf[kind] \cup {"GONE"}]

AnsweredRequests ==
    [at : {"answered", "refreshing"}, operation : Operations, confirms : BOOLEAN,
     observed : BOOLEAN, here : BOOLEAN, answer : Rows \cup {Failed}]

Requests == [Slots -> {Idle} \cup SentRequests \cup AnsweredRequests]

Fetches ==
    {NoFetch} \cup [at : {"asked"}, for : Nat]
              \cup [at : {"read"}, for : Nat, answer : Rows]

(* The types, exactly: which fields a request has at each of its stages.     *)
PageTyped ==
    /\ kind \in Kinds
    /\ row \in Rows
    /\ place \in {"page", "list", "elsewhere"}
    /\ cache \in [data : LiveRows, failed : BOOLEAN, invalid : BOOLEAN]
    /\ fetch \in Fetches /\ (Fetching => place = "page")
    /\ dialog \in QuestionType
    /\ dialog.at = "open" => AsksInDialog(dialog.operation)
    /\ panel \in QuestionType
    /\ panel.at = "open" => AsksInPanel(panel.operation)
    /\ started \in BOOLEAN /\ busy \in BOOLEAN
    /\ requests \in Requests
    /\ acknowledged \in Nat

(* A row some part of the page holds was read from the database: it is the   *)
(* row there, unless that has changed since.                                 *)
Genuine(r) == r.version <= row.version /\ (r.version = row.version => r = row)

HoldsAnswer(s) == requests[s].at \in {"answered", "refreshing"} /\ Accepted(s)

RowsAreGenuine ==
    /\ Genuine(cache.data)
    /\ fetch.at = "read" => Genuine(fetch.answer)
    /\ \A s \in Slots : HoldsAnswer(s) => Genuine(requests[s].answer)

AnswersFit ==
    \A s \in Slots :
       /\ requests[s].at = "refreshing" => Accepted(s)
       /\ HoldsAnswer(s) /\ SetsData(requests[s].operation) =>
             requests[s].answer \in LiveRows

(* An operation chosen on a row is offered for it, unless it has changed.    *)
ChosenOn(operation, version) ==
    /\ version <= row.version
    /\ version = row.version =>
          row.status \in StatusesOf[kind] /\ operation \in Offered(kind, row.status)

ChosenAsOffered ==
    /\ dialog.at = "open" => ChosenOn(dialog.operation, dialog.seen)
    /\ panel.at = "open" => ChosenOn(panel.operation, panel.seen)
    /\ \A s \in Slots :
          requests[s].at = "sent" => ChosenOn(requests[s].operation, requests[s].seen)

(* What a confirmation has promised holds of the row it was shown with.      *)
PromisedFor(operation, promised, version) ==
    /\ version <= row.version
    /\ version = row.version => Verdict(operation, row.status) \subseteq promised

PromisesHold ==
    \A s \in Slots :
       requests[s].at = "sent" =>
          PromisedFor(requests[s].operation, requests[s].promised, requests[s].screen)

(* What the page knows of its own changes, it has read or is reading again.  *)
WritesAreSeen ==
    /\ acknowledged <= row.version
    /\ ~cache.invalid /\ ~cache.failed => cache.data.version >= acknowledged
    /\ fetch.at = "read" => fetch.answer.version >= acknowledged
    /\ place = "page" /\ ~Fetching /\ ~cache.failed => ~cache.invalid

(* The request a dialog waits for keeps its button from being pressed again. *)
Confirming(s) == InFlight(s) /\ requests[s].confirms

ConfirmationGuards ==
    /\ \A s \in Slots :
          Confirming(s) =>
             started /\ requests[s].observed /\ AsksInDialog(requests[s].operation)
    /\ \A s, t \in Slots : Confirming(s) /\ Confirming(t) => s = t

PageInv ==
    /\ PageTyped
    /\ RowsAreGenuine
    /\ AnswersFit
    /\ ChosenAsOffered
    /\ PromisesHold
    /\ WritesAreSeen
    /\ ConfirmationGuards

-----------------------------------------------------------------------------
(* What the initial states have in common with every other.                  *)
LEMMA InitTyped == Init => PageTyped
<1> SUFFICES ASSUME Init PROVE PageTyped
  OBVIOUS
<1>1. kind \in Kinds /\ 0 \in 0..MaxVersion[kind]
  BY BoundsAssumption DEF Init
<1>2. PICK status \in StatusesOf[kind] :
          /\ row = RowAt(0, status)
          /\ cache = [data |-> RowAt(0, status), failed |-> FALSE, invalid |-> FALSE]
  BY DEF Init
<1>3. row \in Rows /\ cache \in [data : LiveRows, failed : BOOLEAN, invalid : BOOLEAN]
  BY <1>1, <1>2 DEF Rows, LiveRows, RowAt
<1> QED BY <1>1, <1>3 DEF Init, PageTyped, Fetches, Fetching, NoFetch, QuestionType, Closed,
           Requests, Idle

(* The invariant holds when the page opens.                                  *)
LEMMA InitInv == Init => PageInv
<1> SUFFICES ASSUME Init PROVE PageInv
  OBVIOUS
<1>1. PageTyped
  BY InitTyped
<1>2. cache.data = row /\ ~cache.invalid /\ ~cache.failed /\ row.version = 0
  BY DEF Init, RowAt
<1>3. /\ fetch.at = "none" /\ dialog.at = "closed" /\ panel.at = "closed"
      /\ acknowledged = 0
      /\ \A s \in Slots : requests[s].at = "idle"
  BY DEF Init, NoFetch, Closed, Idle
<1>4. RowsAreGenuine /\ AnswersFit /\ ChosenAsOffered /\ PromisesHold
  BY <1>2, <1>3 DEF RowsAreGenuine, AnswersFit, ChosenAsOffered, PromisesHold,
                    Genuine, HoldsAnswer
<1>5. WritesAreSeen /\ ConfirmationGuards
  BY <1>2, <1>3 DEF WritesAreSeen, ConfirmationGuards, Confirming, InFlight
<1> QED BY <1>1, <1>4, <1>5 DEF PageInv

(* A step leaves the kind, and what follows from it, as it is.               *)
LEMMA SameKind ==
    ASSUME kind' = kind
    PROVE  /\ Operations' = Operations /\ Rows' = Rows /\ LiveRows' = LiveRows
           /\ SentRequests' = SentRequests /\ AnsweredRequests' = AnsweredRequests
           /\ Requests' = Requests /\ Fetches' = Fetches /\ QuestionType' = QuestionType
<1>1. Operations' = Operations
  BY DEF Operations
<1>2. Rows' = Rows /\ LiveRows' = LiveRows
  BY DEF Rows, LiveRows
<1> QED BY <1>1, <1>2 DEF SentRequests, AnsweredRequests, Requests, Fetches, QuestionType

(* What a page offers for a row of its kind is among its operations.         *)
LEMMA OfferedAreOperations ==
    ASSUME NEW status \in StatusesOf[kind], NEW o \in Offered(kind, status)
    PROVE  o \in Operations
BY DEF Operations

-----------------------------------------------------------------------------
(* A request as it was, except that its observer or its dialog may have left *)
(* it.                                                                       *)
Alike(q, r) ==
    /\ q.at = r.at
    /\ r.at # "idle" => q.operation = r.operation
    /\ r.at = "sent" => /\ q.seen = r.seen /\ q.screen = r.screen
                        /\ q.promised = r.promised
    /\ r.at \in {"answered", "refreshing"} => q.answer = r.answer

Slot == {Idle} \cup SentRequests \cup AnsweredRequests

(* The stage of a request tells which fields it has.                         *)
LEMMA SlotShapes ==
    ASSUME NEW r \in Slot
    PROVE  /\ r.at \in {"idle", "sent", "answered", "refreshing"}
           /\ r.at = "idle" => r = Idle
           /\ r.at = "sent" => r \in SentRequests
           /\ r.at \in {"answered", "refreshing"} => r \in AnsweredRequests
           /\ r.at # "idle" => r.operation \in Operations
BY DEF Slot, Idle, SentRequests, AnsweredRequests

(* Three ways to loosen a request.                                           *)
LEMMA Unconfirmed ==
    ASSUME NEW r \in Slot, NEW q,
           q = IF r.at = "idle" THEN Idle ELSE [r EXCEPT !.confirms = FALSE]
    PROVE  q \in Slot /\ Alike(q, r) /\ (q.at # "idle" => ~q.confirms)
<1>1. CASE r.at = "idle"
  BY <1>1, SlotShapes DEF Slot, Alike, Idle
<1>2. CASE r.at = "sent"
  BY <1>2, SlotShapes DEF Slot, Alike, SentRequests
<1>3. CASE r.at \in {"answered", "refreshing"}
  BY <1>3, SlotShapes DEF Slot, Alike, AnsweredRequests
<1> QED BY <1>1, <1>2, <1>3, SlotShapes

(* A newer request for the same mutation takes the observer of a request.    *)
LEMMA Unobserved ==
    ASSUME NEW r \in Slot, r.at # "idle", NEW q, q = [r EXCEPT !.observed = FALSE]
    PROVE  q \in Slot /\ Alike(q, r) /\ q.confirms = r.confirms
<1>1. CASE r.at = "sent"
  BY <1>1, SlotShapes DEF Slot, Alike, SentRequests
<1>2. CASE r.at \in {"answered", "refreshing"}
  BY <1>2, SlotShapes DEF Slot, Alike, AnsweredRequests
<1> QED BY <1>1, <1>2, SlotShapes

(* The page of a request goes away.                                          *)
LEMMA Abandoned ==
    ASSUME NEW r \in Slot, NEW q,
           q = IF r.at = "idle" THEN Idle
               ELSE [r EXCEPT !.observed = FALSE, !.confirms = FALSE, !.here = FALSE]
    PROVE  q \in Slot /\ Alike(q, r) /\ (q.at # "idle" => ~q.confirms)
<1>1. CASE r.at = "idle"
  BY <1>1, SlotShapes DEF Slot, Alike, Idle
<1>2. CASE r.at = "sent"
  BY <1>2, SlotShapes DEF Slot, Alike, SentRequests
<1>3. CASE r.at \in {"answered", "refreshing"}
  BY <1>3, SlotShapes DEF Slot, Alike, AnsweredRequests
<1> QED BY <1>1, <1>2, <1>3, SlotShapes

(* A request that stays is like itself.                                      *)
LEMMA AlikeItself == \A r : Alike(r, r)
BY DEF Alike

(* What a step makes of the request of a slot.                               *)
NewlySent(t) ==
    LET q == requests'[t]
    IN  /\ requests[t].at = "idle" /\ q.at = "sent"
        /\ q.screen = cache.data.version /\ q.promised = Promised(q.operation)
        /\ ChosenOn(q.operation, q.seen) /\ row' = row

NewlyAnswered(t) ==
    LET q == requests'[t]
    IN  /\ requests[t].at \in {"sent", "answered"} /\ q.at = "answered"
        /\ q.operation = requests[t].operation
        /\ \/ q.answer = Failed
           \/ /\ q.answer = row' /\ row'.version = row.version + 1
              /\ row'.status \in Verdict(q.operation, row.status)

NewlyRefreshing(t) ==
    LET q == requests'[t]
    IN  /\ requests[t].at = "answered" /\ Accepted(t) /\ q.at = "refreshing"
        /\ q.operation = requests[t].operation /\ q.answer = requests[t].answer

SlotStep(t) ==
    \/ requests'[t].at = "idle"
    \/ Alike(requests'[t], requests[t])
    \/ NewlySent(t)
    \/ NewlyAnswered(t)
    \/ NewlyRefreshing(t)

RequestsStep == requests' \in Requests /\ (\A t \in Slots : SlotStep(t))

(* The helpers that change all requests at a time.                           *)
LEMMA DialogClosedSlots ==
    ASSUME NEW rs \in Requests, DialogClosed(rs)
    PROVE  /\ requests' \in Requests
           /\ \A t \in Slots : /\ Alike(requests'[t], rs[t])
                               /\ requests'[t].at # "idle" => ~requests'[t].confirms
<1>1. requests' = [t \in Slots |-> IF rs[t].at = "idle" THEN Idle
                                   ELSE [rs[t] EXCEPT !.confirms = FALSE]]
  BY DEF DialogClosed
<1>2. ASSUME NEW t \in Slots
      PROVE  /\ requests'[t] \in Slot
             /\ Alike(requests'[t], rs[t])
             /\ requests'[t].at # "idle" => ~requests'[t].confirms
  <2>1. rs[t] \in Slot
    BY DEF Requests, Slot
  <2>2. requests'[t] = IF rs[t].at = "idle" THEN Idle ELSE [rs[t] EXCEPT !.confirms = FALSE]
    BY <1>1
  <2> QED BY <2>1, <2>2, Unconfirmed
<1>3. requests' \in [Slots -> Slot]
  BY <1>1, <1>2
<1> QED BY <1>2, <1>3 DEF Requests, Slot

(* When the page goes away no request confirms anything any more.            *)
LEMMA ForgottenSlots ==
    ASSUME NEW rs \in Requests, requests' = Forgotten(rs)
    PROVE  /\ requests' \in Requests
           /\ \A t \in Slots : /\ Alike(requests'[t], rs[t])
                               /\ requests'[t].at # "idle" => ~requests'[t].confirms
<1>1. requests' = [t \in Slots |-> IF rs[t].at = "idle" THEN Idle
                                   ELSE [rs[t] EXCEPT !.observed = FALSE, !.confirms = FALSE,
                                                      !.here = FALSE]]
  BY DEF Forgotten
<1>2. ASSUME NEW t \in Slots
      PROVE  /\ requests'[t] \in Slot
             /\ Alike(requests'[t], rs[t])
             /\ requests'[t].at # "idle" => ~requests'[t].confirms
  <2>1. rs[t] \in Slot
    BY DEF Requests, Slot
  <2>2. requests'[t] = IF rs[t].at = "idle" THEN Idle
                       ELSE [rs[t] EXCEPT !.observed = FALSE, !.confirms = FALSE,
                                          !.here = FALSE]
    BY <1>1
  <2> QED BY <2>1, <2>2, Abandoned
<1>3. requests' \in [Slots -> Slot]
  BY <1>1, <1>2
<1> QED BY <1>2, <1>3 DEF Requests, Slot

(* The text of a confirmation speaks of statuses.                            *)
LEMMA PromisedType ==
    ASSUME kind \in Kinds, NEW o \in Operations, cache.data.status \in StatusesOf[kind]
    PROVE  Promised(o) \in SUBSET AllStatuses
<1>1. cache.data.status \in AllStatuses
  BY KindIsListed, StatusTable DEF AllStatuses
<1>2. CASE kind = "user"
  BY <1>2 DEF Promised, OtherProfileStatus, AllStatuses
<1>3. CASE kind # "user" /\ Method(o) = "updateStatus"
  <2>1. o[2] \in AllStatuses
    BY <1>3, OperationShape, StatusTable DEF AllStatuses
  <2> QED BY <1>3, <2>1 DEF Promised
<1>4. CASE kind # "user" /\ Method(o) = "remove"
  <2>1. kind \in {"race", "competitor", "team"}
    BY <1>4, OperationShape
  <2> QED BY <1>4, <2>1 DEF Promised, AllStatuses
<1>5. CASE kind # "user" /\ Method(o) \notin {"updateStatus", "remove"}
  BY <1>5, <1>1 DEF Promised, AllStatuses
<1> QED BY <1>2, <1>3, <1>4, <1>5

(* A request that leaves for the service, and the others meanwhile.          *)
LEMMA SentSlots ==
    ASSUME PageTyped, NEW s \in Slots, NEW o \in Operations,
           NEW seen \in 0..MaxVersion[kind], NEW confirms \in BOOLEAN,
           NEW rs, rs = Sent(s, o, seen, confirms)
    PROVE  /\ rs \in Requests
           /\ rs[s] = [at |-> "sent", operation |-> o, seen |-> seen,
                       screen |-> cache.data.version, promised |-> Promised(o),
                       confirms |-> confirms, observed |-> TRUE, here |-> TRUE]
           /\ rs[s].confirms = confirms
           /\ \A t \in Slots \ {s} :
                 /\ Alike(rs[t], requests[t])
                 /\ rs[t].at # "idle" => rs[t].confirms = requests[t].confirms
                 /\ rs[t].at # "idle" /\ rs[t] # requests[t] =>
                       SameMutation(requests[t].operation, o)
<1> DEFINE new == [at |-> "sent", operation |-> o, seen |-> seen,
                   screen |-> cache.data.version, promised |-> Promised(o),
                   confirms |-> confirms, observed |-> TRUE, here |-> TRUE]
           same(t) == requests[t].at # "idle" /\ SameMutation(requests[t].operation, o)
           other(t) == IF same(t) THEN [requests[t] EXCEPT !.observed = FALSE] ELSE requests[t]
<1>1. rs = [t \in Slots |-> IF t = s THEN new ELSE other(t)]
  BY DEF Sent
<1>2. new \in Slot
  <2>1. cache.data \in LiveRows
    BY DEF PageTyped
  <2>2. cache.data.version \in 0..MaxVersion[kind] /\ cache.data.status \in StatusesOf[kind]
    BY <2>1 DEF LiveRows
  <2>3. Promised(o) \in SUBSET AllStatuses
    BY <2>2, PromisedType DEF PageTyped
  <2> QED BY <2>2, <2>3 DEF Slot, SentRequests
<1>3. ASSUME NEW t \in Slots \ {s}
      PROVE  /\ rs[t] \in Slot
             /\ Alike(rs[t], requests[t])
             /\ rs[t].at # "idle" => rs[t].confirms = requests[t].confirms
             /\ rs[t].at # "idle" /\ rs[t] # requests[t] =>
                   SameMutation(requests[t].operation, o)
  <2>1. requests[t] \in Slot
    BY DEF PageTyped, Requests, Slot
  <2>2. CASE same(t)
    <3>1. rs[t] = [requests[t] EXCEPT !.observed = FALSE]
      BY <1>1, <2>2
    <3> QED BY <2>1, <2>2, <3>1, Unobserved
  <2>3. CASE ~same(t)
    <3>1. rs[t] = requests[t]
      BY <1>1, <2>3
    <3> QED BY <2>1, <3>1, AlikeItself
  <2> QED BY <2>2, <2>3
<1>4. rs[s] = new
  BY <1>1
<1>6. rs[s].confirms = confirms
  BY <1>4
<1> HIDE DEF new, other
<1>5. rs \in [Slots -> Slot]
  BY <1>1, <1>2, <1>3, <1>4
<1> QED BY <1>3, <1>4, <1>5, <1>6 DEF Requests, Slot, new

(* The page gets an answer.                                                  *)
LEMMA AfterAnswerSlots ==
    ASSUME NEW s, NEW rs \in Requests, AfterAnswer(s, rs)
    PROVE  /\ requests' \in Requests
           /\ \A t \in Slots :
                 /\ Alike(requests'[t], rs[t])
                 /\ requests'[t].at # "idle" /\ requests'[t].confirms =>
                       requests'[t] = rs[t] /\ started' = started
<1>1. CASE ClosesDialog(s)
  <2>1. DialogClosed(rs)
    BY <1>1 DEF AfterAnswer
  <2> QED BY <2>1, DialogClosedSlots
<1>2. CASE ~ClosesDialog(s)
  <2>1. requests' = rs /\ started' = started
    BY <1>2 DEF AfterAnswer
  <2> QED BY <2>1, AlikeItself
<1> QED BY <1>1, <1>2

(* An answer on its way to the page.                                         *)
LEMMA ReplySlots ==
    ASSUME PageTyped, NEW s \in Slots, requests[s].at \in {"sent", "answered"},
           NEW answer \in Rows \cup {Failed}, Reply(s, answer)
    PROVE  /\ requests' \in Requests
           /\ requests'[s].at = "answered" /\ requests'[s].answer = answer
           /\ requests'[s].operation = requests[s].operation
           /\ requests'[s].confirms = requests[s].confirms
           /\ requests'[s].observed = requests[s].observed
           /\ \A t \in Slots \ {s} : requests'[t] = requests[t]
<1> DEFINE r == requests[s]
           q == [at |-> "answered", operation |-> r.operation, confirms |-> r.confirms,
                 observed |-> r.observed, here |-> r.here, answer |-> answer]
<1>1. requests \in [Slots -> Slot]
  BY DEF PageTyped, Requests, Slot
<1>2. r \in Slot /\ r.at \in {"sent", "answered"}
  BY <1>1
<1>3. r \in SentRequests \/ r \in AnsweredRequests
  BY <1>2, SlotShapes
<1>4. requests' = [requests EXCEPT ![s] = q]
  BY DEF Reply
<1>5. q \in AnsweredRequests
  BY <1>3 DEF SentRequests, AnsweredRequests
<1>6. requests'[s] = q /\ (\A t \in Slots \ {s} : requests'[t] = requests[t])
  BY <1>1, <1>4
<1>7. requests' \in [Slots -> Slot]
  BY <1>1, <1>4, <1>5 DEF Slot
<1> QED BY <1>6, <1>7 DEF Requests, Slot

-----------------------------------------------------------------------------
(* What every step makes of the row: nothing, or its next version.           *)
RowStep ==
    \/ row' = row
    \/ row' \in Rows /\ row'.version = row.version + 1

(* The row in the database and the row on the screen.                        *)
LEMMA ShownRow ==
    ASSUME PageTyped
    PROVE  /\ row.version \in 0..MaxVersion[kind] /\ row.version \in Nat
           /\ row.status \in StatusesOf[kind] \cup {"GONE"}
           /\ cache.data.version \in 0..MaxVersion[kind] /\ cache.data.version \in Nat
           /\ cache.data.status \in StatusesOf[kind]
           /\ MaxVersion[kind] \in Nat
<1>1. row \in Rows /\ cache.data \in LiveRows /\ kind \in Kinds
  BY DEF PageTyped
<1>2. MaxVersion[kind] \in Nat
  BY <1>1, BoundsAssumption
<1> QED BY <1>1, <1>2 DEF Rows, LiveRows

(* An operation the service accepts leaves a row of the same kind, or none.  *)
LEMMA NextRow ==
    ASSUME PageTyped, NEW o \in Operations, row.version < MaxVersion[kind],
           NEW status \in Verdict(o, row.status), row' = RowAt(row.version + 1, status)
    PROVE  row' \in Rows /\ row'.version = row.version + 1 /\ row'.status = status
<1>1. status \in StatusesOf[kind] \cup {"GONE"}
  BY ShownRow, VerdictStays DEF PageTyped
<1>2. row.version + 1 \in 0..MaxVersion[kind]
  BY ShownRow
<1> QED BY <1>1, <1>2 DEF RowAt, Rows

(* The three answers.                                                        *)
LEMMA AcceptSteps ==
    ASSUME PageTyped, NEW s \in Slots, Accept(s)
    PROVE  kind' = kind /\ RowStep /\ RequestsStep
<1>1. PICK status \in Verdict(requests[s].operation, row.status) :
          row' = RowAt(row.version + 1, status) /\ Reply(s, row')
  BY DEF Accept
<1>2. requests[s] \in SentRequests
  BY SlotShapes DEF PageTyped, Requests, Slot, Accept
<1>3. requests[s].operation \in Operations
  BY <1>2 DEF SentRequests
<1>4. row' \in Rows /\ row'.version = row.version + 1 /\ row'.status = status
  BY <1>1, <1>3, NextRow DEF Accept
<1>5. /\ requests' \in Requests
      /\ requests'[s].at = "answered" /\ requests'[s].answer = row'
      /\ requests'[s].operation = requests[s].operation
      /\ \A t \in Slots \ {s} : requests'[t] = requests[t]
  BY <1>1, <1>4, ReplySlots DEF Accept
<1>6. NewlyAnswered(s)
  BY <1>1, <1>4, <1>5 DEF NewlyAnswered, Accept
<1>7. \A t \in Slots : SlotStep(t)
  BY <1>5, <1>6, AlikeItself DEF SlotStep
<1> QED BY <1>4, <1>5, <1>7 DEF Accept, RowStep, RequestsStep

(* A refusal and a failure reach the page as the same answer.                *)
LEMMA FailedSteps ==
    ASSUME PageTyped, NEW s \in Slots, Refuse(s) \/ Fail(s)
    PROVE  kind' = kind /\ RowStep /\ RequestsStep
<1>1. /\ requests[s].at \in {"sent", "answered"} /\ Reply(s, Failed)
      /\ kind' = kind /\ row' = row
  BY DEF Refuse, Fail
<1>2. /\ requests' \in Requests
      /\ requests'[s].at = "answered" /\ requests'[s].answer = Failed
      /\ requests'[s].operation = requests[s].operation
      /\ \A t \in Slots \ {s} : requests'[t] = requests[t]
  BY <1>1, ReplySlots
<1>3. NewlyAnswered(s)
  BY <1>1, <1>2 DEF NewlyAnswered
<1>4. \A t \in Slots : SlotStep(t)
  BY <1>2, <1>3, AlikeItself DEF SlotStep
<1> QED BY <1>1, <1>2, <1>4 DEF RowStep, RequestsStep

(* The page gets an answer, and is done with a request.                      *)
LEMMA SucceedSteps ==
    ASSUME PageTyped, NEW s \in Slots, Succeed(s)
    PROVE  kind' = kind /\ RowStep /\ RequestsStep
<1> DEFINE rs == [requests EXCEPT ![s].at = "refreshing"]
<1>1. requests \in [Slots -> Slot]
  BY DEF PageTyped, Requests, Slot
<1>2. requests[s] \in AnsweredRequests
  BY <1>1, SlotShapes DEF Succeed
<1>3. /\ rs[s] = [requests[s] EXCEPT !.at = "refreshing"]
      /\ \A t \in Slots \ {s} : rs[t] = requests[t]
  BY <1>1
<1>4. rs[s] \in AnsweredRequests /\ rs[s].at = "refreshing"
      /\ rs[s].operation = requests[s].operation /\ rs[s].answer = requests[s].answer
  BY <1>2, <1>3 DEF AnsweredRequests
<1>5. rs \in Requests
  <2>1. rs \in [Slots -> Slot]
    BY <1>1, <1>3, <1>4 DEF Slot
  <2> QED BY <2>1 DEF Requests, Slot
<1>6. AfterAnswer(s, rs) /\ kind' = kind /\ row' = row
  BY DEF Succeed, AfterAnswer
<1> HIDE DEF rs
<1>7. requests' \in Requests /\ (\A t \in Slots : Alike(requests'[t], rs[t]))
  BY <1>5, <1>6, AfterAnswerSlots
<1>8. NewlyRefreshing(s)
  BY <1>4, <1>7 DEF NewlyRefreshing, Alike, Succeed
<1>9. \A t \in Slots : SlotStep(t)
  BY <1>3, <1>7, <1>8 DEF SlotStep
<1> QED BY <1>6, <1>7, <1>9 DEF RowStep, RequestsStep

(* A request that ends.                                                      *)
LEMMA EndedSlots ==
    ASSUME PageTyped, NEW s \in Slots, NEW rs, rs = [requests EXCEPT ![s] = Idle]
    PROVE  rs \in Requests /\ rs[s] = Idle /\ (\A t \in Slots \ {s} : rs[t] = requests[t])
BY DEF PageTyped, Requests

(* A request that has failed ends when its page tells so.                    *)
LEMMA ShowErrorSteps ==
    ASSUME PageTyped, NEW s \in Slots, ShowError(s)
    PROVE  kind' = kind /\ RowStep /\ RequestsStep
<1> DEFINE rs == [requests EXCEPT ![s] = Idle]
<1>1. AfterAnswer(s, rs) /\ kind' = kind /\ row' = row
  BY DEF ShowError, AfterAnswer
<1>2. rs \in Requests /\ rs[s] = Idle /\ (\A t \in Slots \ {s} : rs[t] = requests[t])
  BY EndedSlots
<1> HIDE DEF rs
<1>3. requests' \in Requests /\ (\A t \in Slots : Alike(requests'[t], rs[t]))
  BY <1>1, <1>2, AfterAnswerSlots
<1>4. \A t \in Slots : SlotStep(t)
  BY <1>2, <1>3 DEF SlotStep, Alike, Idle
<1> QED BY <1>1, <1>3, <1>4 DEF RowStep, RequestsStep

(* A request that has succeeded ends when the query is read again.           *)
LEMMA SettleSteps ==
    ASSUME PageTyped, NEW s \in Slots, Settle(s)
    PROVE  kind' = kind /\ RowStep /\ RequestsStep
<1> DEFINE rs == [requests EXCEPT ![s] = Idle]
<1>1. rs \in Requests /\ rs[s] = Idle /\ (\A t \in Slots \ {s} : rs[t] = requests[t])
  BY EndedSlots
<1>2. kind' = kind /\ row' = row /\ (requests' = rs \/ requests' = Forgotten(rs))
  BY DEF Settle
<1> HIDE DEF rs
<1>3. requests' \in Requests /\ (\A t \in Slots : Alike(requests'[t], rs[t]))
  BY <1>1, <1>2, ForgottenSlots, AlikeItself
<1>4. \A t \in Slots : SlotStep(t)
  BY <1>1, <1>3 DEF SlotStep, Alike, Idle
<1> QED BY <1>2, <1>3, <1>4 DEF RowStep, RequestsStep

(* A question that is asked is about an operation of the page.               *)
LEMMA QuestionShape ==
    ASSUME NEW q \in QuestionType, q.at = "open"
    PROVE  q.operation \in Operations /\ q.seen \in 0..MaxVersion[kind]
BY DEF QuestionType, Closed

(* A request that leaves, wherever it was decided on.                        *)
LEMMA SendSteps ==
    ASSUME PageTyped, NEW s \in Slots, requests[s].at = "idle",
           NEW o \in Operations, NEW seen \in 0..MaxVersion[kind], ChosenOn(o, seen),
           NEW confirms \in BOOLEAN, kind' = kind, row' = row,
           \/ requests' = Sent(s, o, seen, confirms)
           \/ DialogClosed(Sent(s, o, seen, confirms))
    PROVE  RowStep /\ RequestsStep
<1> DEFINE rs == Sent(s, o, seen, confirms)
<1> HIDE DEF rs
<1>1. /\ rs \in Requests
      /\ rs[s] = [at |-> "sent", operation |-> o, seen |-> seen,
                  screen |-> cache.data.version, promised |-> Promised(o),
                  confirms |-> confirms, observed |-> TRUE, here |-> TRUE]
      /\ \A t \in Slots \ {s} : Alike(rs[t], requests[t])
  BY SentSlots DEF rs
<1>2. requests' \in Requests /\ (\A t \in Slots : Alike(requests'[t], rs[t]))
  BY <1>1, DialogClosedSlots, AlikeItself DEF rs
<1>3. NewlySent(s)
  BY <1>1, <1>2 DEF NewlySent, Alike
<1>4. ASSUME NEW t \in Slots \ {s} PROVE Alike(requests'[t], requests[t])
  BY <1>1, <1>2, <1>4 DEF Alike
<1> QED BY <1>2, <1>3, <1>4 DEF RowStep, RequestsStep, SlotStep

(* The dialog, the panel and the form send their requests.                   *)
LEMMA ConfirmSteps ==
    ASSUME PageInv, Confirm
    PROVE  kind' = kind /\ RowStep /\ RequestsStep
<1>0. PageTyped /\ ChosenAsOffered
  BY DEF PageInv
<1>1. ASSUME NEW s \in Slots, ConfirmDialog(s)
      PROVE  kind' = kind /\ RowStep /\ RequestsStep
  <2>1. dialog.at = "open" /\ requests[s].at = "idle" /\ kind' = kind /\ row' = row
    BY <1>1 DEF ConfirmDialog, ShowsDialog, Free
  <2>2. dialog.operation \in Operations /\ dialog.seen \in 0..MaxVersion[kind]
    BY <1>0, <2>1, QuestionShape DEF PageTyped
  <2>3. ChosenOn(dialog.operation, dialog.seen)
    BY <1>0, <2>1 DEF ChosenAsOffered
  <2>4. \/ requests' = Sent(s, dialog.operation, dialog.seen, TRUE)
        \/ DialogClosed(Sent(s, dialog.operation, dialog.seen, FALSE))
    BY <1>1 DEF ConfirmDialog
  <2> QED BY <1>0, <2>1, <2>2, <2>3, <2>4, SendSteps
<1>2. ASSUME NEW s \in Slots, ConfirmPanel(s)
      PROVE  kind' = kind /\ RowStep /\ RequestsStep
  <2>1. panel.at = "open" /\ requests[s].at = "idle" /\ kind' = kind /\ row' = row
    BY <1>2 DEF ConfirmPanel, ShowsPanel, Free
  <2>2. panel.operation \in Operations /\ panel.seen \in 0..MaxVersion[kind]
    BY <1>0, <2>1, QuestionShape DEF PageTyped
  <2>3. ChosenOn(panel.operation, panel.seen)
    BY <1>0, <2>1 DEF ChosenAsOffered
  <2>4. requests' = Sent(s, panel.operation, panel.seen, FALSE)
    BY <1>2 DEF ConfirmPanel
  <2> QED BY <1>0, <2>1, <2>2, <2>3, <2>4, SendSteps
<1>3. ASSUME NEW s \in Slots, NEW o \in Operations, SubmitForm(s, o)
      PROVE  kind' = kind /\ RowStep /\ RequestsStep
  <2>1. requests[s].at = "idle" /\ kind' = kind /\ row' = row
    BY <1>3 DEF SubmitForm, Free
  <2>2. cache.data.version \in 0..MaxVersion[kind]
    BY <1>0, ShownRow
  <2>3. ChosenOn(o, cache.data.version)
    BY <1>0, <1>3, ShownRow DEF SubmitForm, ChosenOn, PageInv, RowsAreGenuine, Genuine
  <2>4. requests' = Sent(s, o, cache.data.version, FALSE)
    BY <1>3 DEF SubmitForm
  <2> QED BY <1>0, <2>1, <2>2, <2>3, <2>4, SendSteps
<1> QED BY <1>1, <1>2, <1>3 DEF Confirm

(* The steps that leave every request as it is.                              *)
LEMMA UnchangedSteps ==
    ASSUME PageTyped, kind' = kind, row' = row, requests' = requests
    PROVE  RowStep /\ RequestsStep
BY AlikeItself DEF PageTyped, RowStep, RequestsStep, SlotStep

(* Another user changes the row and no request of this page.                 *)
LEMMA OtherUserSteps ==
    ASSUME PageTyped, OtherUser
    PROVE  kind' = kind /\ RowStep /\ RequestsStep
<1>1. PICK o \in Offered(kind, row.status) : \E status \in Verdict(o, row.status) :
          row' = RowAt(row.version + 1, status)
  BY DEF OtherUser
<1>2. PICK status \in Verdict(o, row.status) : row' = RowAt(row.version + 1, status)
  BY <1>1
<1>3. row.status \in StatusesOf[kind]
  BY ShownRow DEF OtherUser, Exists
<1>4. row' \in Rows /\ row'.version = row.version + 1
  BY <1>2, <1>3, OfferedAreOperations, NextRow DEF OtherUser
<1> QED BY <1>4, AlikeItself DEF OtherUser, PageTyped, RowStep, RequestsStep, SlotStep

(* Every step, seen from the row and from the requests.                      *)
LEMMA NextSteps ==
    ASSUME PageInv, Next
    PROVE  kind' = kind /\ RowStep /\ RequestsStep
<1>0. PageTyped
  BY DEF PageInv
<1>1. CASE Ask
  <2>1. kind' = kind /\ row' = row /\ requests' = requests
    BY <1>1 DEF Ask, AskInDialog, AskInPanel
  <2> QED BY <1>0, <2>1, UnchangedSteps
<1>2. CASE CancelDialog
  <2>1. kind' = kind /\ row' = row /\ DialogClosed(requests)
    BY <1>2 DEF CancelDialog
  <2> QED BY <1>0, <2>1, DialogClosedSlots DEF PageTyped, RowStep, RequestsStep, SlotStep
<1>3. CASE Confirm
  BY <1>3, ConfirmSteps
<1>4. CASE \E s \in Slots : Respond(s) \/ Arrive(s)
  BY <1>0, <1>4, AcceptSteps, FailedSteps, SucceedSteps, ShowErrorSteps, SettleSteps
     DEF Respond, Arrive
<1>5. CASE Leave
  <2>1. kind' = kind /\ row' = row /\ requests' = Forgotten(requests)
    BY <1>5 DEF Leave
  <2> QED BY <1>0, <2>1, ForgottenSlots DEF PageTyped, RowStep, RequestsStep, SlotStep
<1>6. CASE OtherUser
  BY <1>0, <1>6, OtherUserSteps
<1>7. CASE ClosePanel \/ Render \/ Refetch \/ Read \/ Return
  <2>1. kind' = kind /\ row' = row /\ requests' = requests
    BY <1>7 DEF ClosePanel, Render, Refetch, Read, ReadRow, ShowRow, FetchFails, Return
  <2> QED BY <1>0, <2>1, UnchangedSteps
<1> QED BY <1>1, <1>2, <1>3, <1>4, <1>5, <1>6, <1>7 DEF Next

-----------------------------------------------------------------------------
(* The types again.  What is on the screen:                                  *)
ScreenTyped ==
    /\ place \in {"page", "list", "elsewhere"}
    /\ dialog \in QuestionType
    /\ dialog.at = "open" => AsksInDialog(dialog.operation)
    /\ panel \in QuestionType
    /\ panel.at = "open" => AsksInPanel(panel.operation)
    /\ started \in BOOLEAN /\ busy \in BOOLEAN

(* and what React Query keeps.                                               *)
QueryTyped ==
    /\ cache \in [data : LiveRows, failed : BOOLEAN, invalid : BOOLEAN]
    /\ fetch \in Fetches /\ (Fetching => place = "page")
    /\ acknowledged \in Nat

(* No step takes the screen out of its types,                                *)
LEMMA ScreenTypedStep ==
    ASSUME PageInv, Next
    PROVE  ScreenTyped'
<1>0. PageTyped /\ ScreenTyped
  BY DEF PageInv, PageTyped, ScreenTyped
<1>1. kind' = kind
  BY NextSteps
<1>2. QuestionType' = QuestionType
  BY <1>1, SameKind
<1>3. Closed \in QuestionType /\ Closed.at = "closed"
  BY DEF QuestionType, Closed
<1>4. Pending \in BOOLEAN
  BY DEF Pending
<1>5. CASE Ask
  <2>1. PICK o \in Operations : AskInDialog(o) \/ AskInPanel(o)
    BY <1>5 DEF Ask
  <2>2. Asks(o, cache.data.version) \in QuestionType
        /\ Asks(o, cache.data.version).operation = o
    BY <1>0, ShownRow DEF Asks, QuestionType
  <2>3. CASE AskInDialog(o)
    BY <1>0, <1>2, <2>2, <2>3 DEF AskInDialog, ScreenTyped
  <2>4. CASE AskInPanel(o)
    BY <1>0, <1>2, <2>2, <2>4 DEF AskInPanel, ScreenTyped
  <2> QED BY <2>1, <2>3, <2>4
<1>6. CASE CancelDialog \/ ClosePanel \/ Refetch \/ Read \/ OtherUser
  BY <1>0, <1>2, <1>3, <1>6
     DEF CancelDialog, DialogClosed, ClosePanel, Refetch, Read, ReadRow, ShowRow,
         FetchFails, OtherUser, pageVars, ScreenTyped
<1>7. CASE Confirm
  BY <1>0, <1>2, <1>3, <1>7
     DEF Confirm, ConfirmDialog, ConfirmPanel, SubmitForm, DialogClosed, ScreenTyped
<1>8. CASE Render
  BY <1>0, <1>2, <1>4, <1>8 DEF Render, ScreenTyped
<1>9. CASE \E s \in Slots : Respond(s)
  BY <1>0, <1>2, <1>9 DEF Respond, Accept, Refuse, Fail, pageVars, ScreenTyped
<1>10. CASE \E s \in Slots : Arrive(s)
  <2>1. PICK s \in Slots : Arrive(s)
    BY <1>10
  <2>2. CASE Succeed(s) \/ ShowError(s)
    <3>1. PICK rs : AfterAnswer(s, rs)
      BY <2>2 DEF Succeed, ShowError
    <3> QED BY <1>0, <1>2, <1>3, <3>1 DEF AfterAnswer, DialogClosed, ScreenTyped
  <2>3. CASE Settle(s)
    BY <1>0, <1>2, <1>3, <2>3 DEF Settle, Unmounted, pageVars, ScreenTyped
  <2> QED BY <2>1, <2>2, <2>3 DEF Arrive
<1>11. CASE Leave \/ Return
  BY <1>0, <1>2, <1>3, <1>11 DEF Leave, Return, Unmounted, ScreenTyped
<1> QED BY <1>5, <1>6, <1>7, <1>8, <1>9, <1>10, <1>11 DEF Next

(* An accepted answer is a row.                                              *)
LEMMA AnswerTyped ==
    ASSUME PageTyped, NEW s \in Slots, HoldsAnswer(s)
    PROVE  requests[s].answer \in Rows /\ requests[s].answer.version \in Nat
<1>1. requests[s] \in Slot
  BY DEF PageTyped, Requests, Slot
<1>2. requests[s] \in AnsweredRequests
  BY <1>1, SlotShapes DEF HoldsAnswer
<1>3. requests[s].answer \in Rows
  BY <1>2 DEF AnsweredRequests, HoldsAnswer, Accepted
<1> QED BY <1>3 DEF Rows

(* What the query becomes when a request has succeeded.                      *)
LEMMA SucceedQuery ==
    ASSUME PageInv, NEW s \in Slots, Succeed(s)
    PROVE  /\ HoldsAnswer(s)
           /\ cache'.invalid = TRUE /\ cache'.failed \in BOOLEAN
           /\ cache'.data \in LiveRows /\ cache'.data \in {cache.data, requests[s].answer}
           /\ cache' \in [data : LiveRows, failed : BOOLEAN, invalid : BOOLEAN]
           /\ place' = place
           /\ fetch' = IF place = "page" THEN FetchFor(s) ELSE fetch
           /\ acknowledged' = Larger(acknowledged, requests[s].answer.version)
<1> DEFINE fresh == IF SetsData(requests[s].operation)
                    THEN [data |-> requests[s].answer, failed |-> FALSE, invalid |-> FALSE]
                    ELSE cache
<1>0. PageTyped
  BY DEF PageInv
<1>1. Invalidates
  BY <1>0, EveryKindInvalidates DEF PageTyped
<1>2. HoldsAnswer(s)
  BY DEF Succeed, HoldsAnswer
<1>3. SetsData(requests[s].operation) => requests[s].answer \in LiveRows
  BY <1>2 DEF PageInv, AnswersFit
<1>4. fresh \in [data : LiveRows, failed : BOOLEAN, invalid : BOOLEAN]
      /\ fresh.data \in {cache.data, requests[s].answer}
  BY <1>0, <1>3 DEF PageTyped
<1>5. cache' = [fresh EXCEPT !.invalid = @ \/ Invalidates]
  BY DEF Succeed
<1> HIDE DEF fresh
<1>6. cache' = [fresh EXCEPT !.invalid = TRUE]
  BY <1>1, <1>4, <1>5
<1>7. fetch' = IF place = "page" THEN FetchFor(s) ELSE fetch
  BY <1>1 DEF Succeed
<1>8. place' = place /\ acknowledged' = Larger(acknowledged, requests[s].answer.version)
  BY DEF Succeed, AfterAnswer
<1> QED BY <1>2, <1>4, <1>6, <1>7, <1>8

(* The stages of the query's request.                                        *)
LEMMA FetchShapes ==
    ASSUME fetch \in Fetches
    PROVE  /\ Fetching => fetch.for \in Nat
           /\ fetch.at = "read" => fetch.answer \in Rows
           /\ fetch.at \in {"none", "asked", "read"}
BY DEF Fetches, Fetching, NoFetch

(* nor React Query out of its own,                                           *)
LEMMA QueryTypedStep ==
    ASSUME PageInv, Next
    PROVE  QueryTyped'
<1>0. PageTyped /\ QueryTyped
  BY DEF PageInv, PageTyped, QueryTyped
<1>1. kind' = kind
  BY NextSteps
<1>2. Fetches' = Fetches /\ LiveRows' = LiveRows
  BY <1>1, SameKind
<1>3. NoFetch \in Fetches /\ NoFetch.at = "none"
  BY DEF Fetches, NoFetch
<1>4. \A s \in Slots \cup {0} : FetchFor(s) \in Fetches
  BY BoundsAssumption DEF FetchFor, Fetches
<1>5. CASE Ask \/ CancelDialog \/ ClosePanel \/ Confirm \/ Render \/ OtherUser
  BY <1>0, <1>2, <1>5
     DEF Ask, AskInDialog, AskInPanel, CancelDialog, ClosePanel, Confirm, ConfirmDialog,
         ConfirmPanel, SubmitForm, Render, OtherUser, pageVars, QueryTyped, Fetching
<1>6. CASE \E s \in Slots : Respond(s)
  BY <1>0, <1>2, <1>6 DEF Respond, Accept, Refuse, Fail, pageVars, QueryTyped, Fetching
<1>7. CASE \E s \in Slots : Arrive(s)
  <2>1. PICK s \in Slots : Arrive(s)
    BY <1>7
  <2>2. CASE Succeed(s)
    <3>1. requests[s].answer.version \in Nat
      BY <1>0, <2>2, SucceedQuery, AnswerTyped
    <3>2. acknowledged' \in Nat
      BY <1>0, <2>2, <3>1, SucceedQuery DEF QueryTyped, Larger
    <3> QED BY <1>0, <1>2, <1>4, <2>2, <3>2, SucceedQuery DEF QueryTyped, Fetching
  <2>3. CASE ShowError(s)
    BY <1>0, <1>2, <2>3 DEF ShowError, AfterAnswer, QueryTyped, Fetching
  <2>4. CASE Settle(s)
    BY <1>0, <1>2, <1>3, <2>4 DEF Settle, Unmounted, pageVars, QueryTyped, Fetching
  <2> QED BY <2>1, <2>2, <2>3, <2>4 DEF Arrive
<1>8. CASE Refetch
  BY <1>0, <1>2, <1>4, <1>8 DEF Refetch, pageVars, QueryTyped, Fetching
<1>9. CASE Read
  <2>1. CASE ReadRow
    <3>1. fetch' \in Fetches /\ place' = place /\ place = "page"
      BY <1>0, <2>1, FetchShapes DEF ReadRow, Fetches, QueryTyped, PageTyped, Fetching, pageVars
    <3> QED BY <1>0, <1>2, <2>1, <3>1 DEF ReadRow, QueryTyped
  <2>2. CASE ShowRow
    <3>1. fetch.answer \in Rows
      BY <1>0, <2>2, FetchShapes DEF ShowRow, QueryTyped
    <3>2. fetch.answer.status # "GONE" => fetch.answer \in LiveRows
      BY <3>1 DEF Rows, LiveRows
    <3>3. cache' \in [data : LiveRows, failed : BOOLEAN, invalid : BOOLEAN]
      BY <1>0, <2>2, <3>2 DEF ShowRow, QueryTyped
    <3> QED BY <1>0, <1>2, <1>3, <2>2, <3>3 DEF ShowRow, QueryTyped, Fetching
  <2>3. CASE FetchFails
    BY <1>0, <1>2, <1>3, <2>3 DEF FetchFails, QueryTyped, Fetching
  <2> QED BY <1>9, <2>1, <2>2, <2>3 DEF Read
<1>10. CASE Leave
  BY <1>0, <1>2, <1>3, <1>10 DEF Leave, Unmounted, QueryTyped, Fetching
<1>11. CASE Return
  BY <1>0, <1>2, <1>3, <1>4, <1>11 DEF Return, QueryTyped, Fetching
<1> QED BY <1>5, <1>6, <1>7, <1>8, <1>9, <1>10, <1>11 DEF Next

(* nor any other part of the state.                                          *)
LEMMA TypedStep ==
    ASSUME PageInv, Next
    PROVE  PageTyped'
<1>0. PageTyped
  BY DEF PageInv
<1>1. kind' = kind /\ RowStep /\ RequestsStep
  BY NextSteps
<1>2. Rows' = Rows /\ Requests' = Requests
  BY <1>1, SameKind
<1> QED BY <1>0, <1>1, <1>2, ScreenTypedStep, QueryTypedStep
        DEF PageTyped, ScreenTyped, QueryTyped, RowStep, RequestsStep

-----------------------------------------------------------------------------
(* What held of a row of some version still holds when the row changes: then *)
(* its version is another one.                                               *)
LEMMA GenuineStays ==
    ASSUME PageTyped, RowStep, NEW r, r.version \in Nat, Genuine(r)
    PROVE  r.version <= row'.version /\ (r.version = row'.version => r = row')
BY ShownRow DEF Genuine, RowStep

(* The same for the operation chosen on a row,                               *)
LEMMA ChosenStays ==
    ASSUME PageTyped, RowStep, NEW o, NEW version \in Nat, ChosenOn(o, version)
    PROVE  /\ version <= row'.version
           /\ version = row'.version =>
                 row'.status \in StatusesOf[kind] /\ o \in Offered(kind, row'.status)
BY ShownRow DEF ChosenOn, RowStep

(* and for what the text of a confirmation says of it.                       *)
LEMMA PromisedStays ==
    ASSUME PageTyped, RowStep, NEW o, NEW promised, NEW version \in Nat,
           PromisedFor(o, promised, version)
    PROVE  /\ version <= row'.version
           /\ version = row'.version => Verdict(o, row'.status) \subseteq promised
BY ShownRow DEF PromisedFor, RowStep

(* The fields of a request on its way to the service.                        *)
LEMMA SentTyped ==
    ASSUME PageTyped, NEW s \in Slots, requests[s].at = "sent"
    PROVE  /\ requests[s].operation \in Operations
           /\ requests[s].seen \in Nat /\ requests[s].screen \in Nat
<1>1. requests[s] \in Slot
  BY DEF PageTyped, Requests, Slot
<1>2. requests[s] \in SentRequests /\ MaxVersion[kind] \in Nat
  BY <1>1, SlotShapes, ShownRow
<1> QED BY <1>2 DEF SentRequests

(* Where the data of the query and of its request come from.                 *)
LEMMA CacheStep ==
    ASSUME PageInv, Next
    PROVE  \/ cache'.data = cache.data
           \/ fetch.at = "read" /\ cache'.data = fetch.answer
           \/ \E s \in Slots : HoldsAnswer(s) /\ cache'.data = requests[s].answer
<1>0. cache \in [data : LiveRows, failed : BOOLEAN, invalid : BOOLEAN]
  BY DEF PageInv, PageTyped
<1>1. CASE Ask \/ CancelDialog \/ ClosePanel \/ Confirm \/ Render \/ OtherUser
           \/ Refetch \/ Leave \/ Return
  BY <1>1
     DEF Ask, AskInDialog, AskInPanel, CancelDialog, ClosePanel, Confirm, ConfirmDialog,
         ConfirmPanel, SubmitForm, Render, OtherUser, Refetch, Leave, Return
<1>2. CASE \E s \in Slots : Respond(s)
  BY <1>2 DEF Respond, Accept, Refuse, Fail
<1>3. CASE \E s \in Slots : Arrive(s)
  <2>1. PICK s \in Slots : Arrive(s)
    BY <1>3
  <2>2. CASE Succeed(s)
    BY <2>2, SucceedQuery
  <2>3. CASE ShowError(s) \/ Settle(s)
    BY <2>3 DEF ShowError, Settle
  <2> QED BY <2>1, <2>2, <2>3 DEF Arrive
<1>4. CASE Read
  BY <1>0, <1>4 DEF Read, ReadRow, ShowRow, FetchFails
<1> QED BY <1>1, <1>2, <1>3, <1>4 DEF Next

(* The query brings what it read, or has just read the row.                  *)
LEMMA FetchStep ==
    ASSUME PageInv, Next, fetch'.at = "read"
    PROVE  \/ fetch.at = "read" /\ fetch'.answer = fetch.answer
           \/ fetch'.answer = row /\ row' = row /\ acknowledged' = acknowledged
<1>1. CASE Ask \/ CancelDialog \/ ClosePanel \/ Confirm \/ Render \/ OtherUser
  BY <1>1
     DEF Ask, AskInDialog, AskInPanel, CancelDialog, ClosePanel, Confirm, ConfirmDialog,
         ConfirmPanel, SubmitForm, Render, OtherUser
<1>2. CASE \E s \in Slots : Respond(s)
  BY <1>2 DEF Respond, Accept, Refuse, Fail
<1>3. CASE \E s \in Slots : Arrive(s)
  BY <1>3 DEF Arrive, Succeed, FetchFor, ShowError, Settle, Unmounted, NoFetch
<1>4. CASE Read
  BY <1>4 DEF Read, ReadRow, ShowRow, FetchFails, NoFetch
<1>5. CASE Refetch \/ Leave \/ Return
  BY <1>5 DEF Refetch, Leave, Return, Unmounted, FetchFor, NoFetch
<1> QED BY <1>1, <1>2, <1>3, <1>4, <1>5 DEF Next

(* Every row the page holds stays one that was in the database.              *)
LEMMA GenuineStep ==
    ASSUME PageInv, Next
    PROVE  RowsAreGenuine'
<1>0. PageTyped /\ RowsAreGenuine
  BY DEF PageInv
<1>1. RowStep /\ RequestsStep
  BY NextSteps
<1>2. Genuine(cache.data)'
  <2>1. CASE cache'.data = cache.data
    <3>1. cache.data.version \in Nat /\ Genuine(cache.data)
      BY <1>0, ShownRow DEF RowsAreGenuine
    <3> QED BY <1>0, <1>1, <2>1, <3>1, GenuineStays DEF Genuine
  <2>2. CASE fetch.at = "read" /\ cache'.data = fetch.answer
    <3>1. fetch.answer \in Rows /\ MaxVersion[kind] \in Nat
      BY <1>0, <2>2, FetchShapes, ShownRow DEF PageTyped
    <3>2. fetch.answer.version \in Nat /\ Genuine(fetch.answer)
      BY <1>0, <2>2, <3>1 DEF Rows, RowsAreGenuine
    <3> QED BY <1>0, <1>1, <2>2, <3>2, GenuineStays DEF Genuine
  <2>3. ASSUME NEW s \in Slots, HoldsAnswer(s), cache'.data = requests[s].answer
        PROVE  Genuine(cache.data)'
    <3>1. requests[s].answer.version \in Nat /\ Genuine(requests[s].answer)
      BY <1>0, <2>3, AnswerTyped DEF RowsAreGenuine
    <3> QED BY <1>0, <1>1, <2>3, <3>1, GenuineStays DEF Genuine
  <2> QED BY <2>1, <2>2, <2>3, CacheStep
<1>3. ASSUME fetch'.at = "read" PROVE Genuine(fetch.answer)'
  <2>1. CASE fetch.at = "read" /\ fetch'.answer = fetch.answer
    <3>1. fetch.answer \in Rows /\ MaxVersion[kind] \in Nat
      BY <1>0, <2>1, FetchShapes, ShownRow DEF PageTyped
    <3>2. fetch.answer.version \in Nat /\ Genuine(fetch.answer)
      BY <1>0, <2>1, <3>1 DEF Rows, RowsAreGenuine
    <3> QED BY <1>0, <1>1, <2>1, <3>2, GenuineStays DEF Genuine
  <2>2. CASE fetch'.answer = row /\ row' = row
    BY <1>0, <2>2, ShownRow DEF Genuine
  <2> QED BY <1>3, <2>1, <2>2, FetchStep
<1>4. ASSUME NEW t \in Slots, HoldsAnswer(t)' PROVE Genuine(requests[t].answer)'
  <2>1. CASE HoldsAnswer(t) /\ requests'[t].answer = requests[t].answer
    <3>1. requests[t].answer.version \in Nat /\ Genuine(requests[t].answer)
      BY <1>0, <2>1, AnswerTyped DEF RowsAreGenuine
    <3> QED BY <1>0, <1>1, <2>1, <3>1, GenuineStays DEF Genuine
  <2>2. CASE requests'[t].answer = row'
    <3>1. row'.version \in Nat
      BY <1>0, <1>1, ShownRow DEF RowStep
    <3> QED BY <2>2, <3>1 DEF Genuine
  <2> QED BY <1>1, <1>4, <2>1, <2>2
          DEF RequestsStep, SlotStep, Alike, NewlySent, NewlyAnswered, NewlyRefreshing,
              HoldsAnswer, Accepted
<1> QED BY <1>2, <1>3, <1>4 DEF RowsAreGenuine

(* The answer of a request stays one the page can show.                      *)
LEMMA AnswersStep ==
    ASSUME PageInv, Next
    PROVE  AnswersFit'
<1>0. PageTyped /\ AnswersFit
  BY DEF PageInv
<1>1. kind' = kind /\ RowStep /\ RequestsStep
  BY NextSteps
<1>2. LiveRows' = LiveRows
  BY <1>1, SameKind
<1> SUFFICES ASSUME NEW t \in Slots
             PROVE  /\ (requests[t].at = "refreshing" => Accepted(t))'
                    /\ (HoldsAnswer(t) /\ SetsData(requests[t].operation) =>
                           requests[t].answer \in LiveRows)'
  BY DEF AnswersFit
<1>3. SlotStep(t)
  BY <1>1 DEF RequestsStep
<1>4. CASE requests'[t].at = "idle" \/ NewlySent(t)
  BY <1>4 DEF NewlySent, HoldsAnswer
<1>5. CASE Alike(requests'[t], requests[t]) \/ NewlyRefreshing(t)
  BY <1>0, <1>2, <1>5
     DEF Alike, NewlyRefreshing, AnswersFit, HoldsAnswer, Accepted, SetsData, Method
<1>6. CASE NewlyAnswered(t)
  <2>1. CASE requests'[t].answer = Failed
    BY <1>6, <2>1 DEF NewlyAnswered, HoldsAnswer, Accepted, Failed, RowAt
  <2>2. CASE requests'[t].answer = row' /\ row'.version = row.version + 1
             /\ row'.status \in Verdict(requests'[t].operation, row.status)
    <3>1. requests[t].operation \in Operations /\ requests'[t].operation = requests[t].operation
      <4>1. requests[t] \in Slot /\ requests[t].at # "idle"
        BY <1>0, <1>6 DEF PageTyped, Requests, Slot, NewlyAnswered
      <4> QED BY <4>1, <1>6, SlotShapes DEF NewlyAnswered
    <3>2. SetsData(requests[t].operation) => row'.status \in StatusesOf[kind]
      BY <1>0, <2>2, <3>1, ShownRow, VerdictStays DEF PageTyped
    <3>3. row' \in Rows
      BY <1>0, <1>1, <2>2, ShownRow DEF RowStep
    <3>4. SetsData(requests[t].operation) => row' \in LiveRows
      BY <3>2, <3>3 DEF Rows, LiveRows
    <3> QED BY <1>2, <1>6, <2>2, <3>1, <3>4 DEF NewlyAnswered, HoldsAnswer, SetsData, Method
  <2> QED BY <1>6, <2>1, <2>2 DEF NewlyAnswered
<1> QED BY <1>3, <1>4, <1>5, <1>6 DEF SlotStep

(* The question of the dialog is the one it asked before, or a new one about *)
(* the row on the screen; so is that of the panel.                           *)
LEMMA QuestionStep ==
    ASSUME PageInv, Next
    PROVE  /\ dialog'.at = "open" =>
                 \/ dialog' = dialog
                 \/ /\ row' = row /\ dialog'.seen = cache.data.version
                    /\ dialog'.operation \in Offered(kind, cache.data.status)
           /\ panel'.at = "open" =>
                 \/ panel' = panel
                 \/ /\ row' = row /\ panel'.seen = cache.data.version
                    /\ panel'.operation \in Offered(kind, cache.data.status)
<1>1. CASE Ask
  BY <1>1 DEF Ask, AskInDialog, AskInPanel, Asks
<1>2. CASE CancelDialog \/ ClosePanel \/ Render \/ Refetch \/ Read \/ OtherUser
  BY <1>2
     DEF CancelDialog, DialogClosed, ClosePanel, Render, Refetch, Read, ReadRow, ShowRow,
         FetchFails, OtherUser, pageVars, Closed
<1>3. CASE Confirm
  <2>1. panel' = panel /\ (dialog' = dialog \/ dialog' = Closed)
    BY <1>3 DEF Confirm, ConfirmDialog, ConfirmPanel, SubmitForm, DialogClosed
  <2> QED BY <2>1 DEF Closed
<1>4. CASE \E s \in Slots : Respond(s)
  BY <1>4 DEF Respond, Accept, Refuse, Fail, pageVars
<1>5. CASE \E s \in Slots : Arrive(s)
  <2>1. PICK s \in Slots : Arrive(s)
    BY <1>5
  <2>2. CASE Succeed(s) \/ ShowError(s)
    <3>1. PICK rs : AfterAnswer(s, rs)
      BY <2>2 DEF Succeed, ShowError
    <3> QED BY <3>1 DEF AfterAnswer, DialogClosed, Closed
  <2>3. CASE Settle(s)
    BY <2>3 DEF Settle, Unmounted, pageVars, Closed
  <2> QED BY <2>1, <2>2, <2>3 DEF Arrive
<1>6. CASE Leave \/ Return
  BY <1>6 DEF Leave, Return, Unmounted, Closed
<1> QED BY <1>1, <1>2, <1>3, <1>4, <1>5, <1>6 DEF Next

(* What the page offers is offered for the row it shows.                     *)
LEMMA ChosenOnScreen ==
    ASSUME PageInv, NEW o \in Offered(kind, cache.data.status)
    PROVE  ChosenOn(o, cache.data.version)
BY ShownRow DEF ChosenOn, PageInv, RowsAreGenuine, Genuine

(* Every operation on its way stays one that was offered for its row.        *)
LEMMA ChosenStep ==
    ASSUME PageInv, Next
    PROVE  ChosenAsOffered'
<1>0. PageTyped /\ ChosenAsOffered
  BY DEF PageInv
<1>1. kind' = kind /\ RowStep /\ RequestsStep
  BY NextSteps
<1>2. MaxVersion[kind] \in Nat /\ cache.data.version \in Nat
  BY <1>0, ShownRow
<1>3. ASSUME dialog'.at = "open" PROVE ChosenOn(dialog.operation, dialog.seen)'
  <2>1. CASE dialog' = dialog
    <3>1. dialog.seen \in Nat /\ ChosenOn(dialog.operation, dialog.seen)
      BY <1>0, <1>2, <1>3, <2>1, QuestionShape DEF PageTyped, ChosenAsOffered
    <3> QED BY <1>0, <1>1, <2>1, <3>1, ChosenStays DEF ChosenOn
  <2>2. CASE /\ row' = row /\ dialog'.seen = cache.data.version
             /\ dialog'.operation \in Offered(kind, cache.data.status)
    <3>1. ChosenOn(dialog'.operation, cache.data.version)
      BY <2>2, ChosenOnScreen
    <3> QED BY <1>1, <2>2, <3>1 DEF ChosenOn
  <2> QED BY <1>3, <2>1, <2>2, QuestionStep
<1>4. ASSUME panel'.at = "open" PROVE ChosenOn(panel.operation, panel.seen)'
  <2>1. CASE panel' = panel
    <3>1. panel.seen \in Nat /\ ChosenOn(panel.operation, panel.seen)
      BY <1>0, <1>2, <1>4, <2>1, QuestionShape DEF PageTyped, ChosenAsOffered
    <3> QED BY <1>0, <1>1, <2>1, <3>1, ChosenStays DEF ChosenOn
  <2>2. CASE /\ row' = row /\ panel'.seen = cache.data.version
             /\ panel'.operation \in Offered(kind, cache.data.status)
    <3>1. ChosenOn(panel'.operation, cache.data.version)
      BY <2>2, ChosenOnScreen
    <3> QED BY <1>1, <2>2, <3>1 DEF ChosenOn
  <2> QED BY <1>4, <2>1, <2>2, QuestionStep
<1>5. ASSUME NEW t \in Slots, requests'[t].at = "sent"
      PROVE  ChosenOn(requests[t].operation, requests[t].seen)'
  <2>1. CASE Alike(requests'[t], requests[t])
    <3>1. requests[t].at = "sent" /\ requests'[t].operation = requests[t].operation
          /\ requests'[t].seen = requests[t].seen
      BY <1>5, <2>1 DEF Alike
    <3>2. requests[t].seen \in Nat /\ ChosenOn(requests[t].operation, requests[t].seen)
      BY <1>0, <3>1, SentTyped DEF ChosenAsOffered
    <3> QED BY <1>0, <1>1, <3>1, <3>2, ChosenStays DEF ChosenOn
  <2>2. CASE NewlySent(t)
    <3>1. ChosenOn(requests'[t].operation, requests'[t].seen) /\ row' = row
      BY <2>2 DEF NewlySent
    <3> QED BY <1>1, <3>1 DEF ChosenOn
  <2> QED BY <1>1, <1>5, <2>1, <2>2
          DEF RequestsStep, SlotStep, NewlyAnswered, NewlyRefreshing
<1> QED BY <1>3, <1>4, <1>5 DEF ChosenAsOffered

(* Every confirmation stays true of the row it was shown with.               *)
LEMMA PromisesStep ==
    ASSUME PageInv, Next
    PROVE  PromisesHold'
<1>0. PageTyped /\ PromisesHold
  BY DEF PageInv
<1>1. kind' = kind /\ RowStep /\ RequestsStep
  BY NextSteps
<1> SUFFICES ASSUME NEW t \in Slots, requests'[t].at = "sent"
             PROVE  PromisedFor(requests[t].operation, requests[t].promised,
                                requests[t].screen)'
  BY DEF PromisesHold
<1>2. ASSUME /\ requests'[t].screen <= row'.version
             /\ requests'[t].screen = row'.version =>
                   Verdict(requests'[t].operation, row'.status) \subseteq requests'[t].promised
      PROVE  PromisedFor(requests[t].operation, requests[t].promised, requests[t].screen)'
  BY <1>1, <1>2 DEF PromisedFor, Verdict, Method
<1>3. CASE Alike(requests'[t], requests[t])
  <2>1. requests[t].at = "sent" /\ requests'[t].operation = requests[t].operation
        /\ requests'[t].screen = requests[t].screen
        /\ requests'[t].promised = requests[t].promised
    BY <1>3 DEF Alike
  <2>2. requests[t].screen \in Nat
        /\ PromisedFor(requests[t].operation, requests[t].promised, requests[t].screen)
    BY <1>0, <2>1, SentTyped DEF PromisesHold
  <2> QED BY <1>0, <1>1, <1>2, <2>1, <2>2, PromisedStays
<1>4. CASE NewlySent(t)
  <2>1. requests'[t].screen = cache.data.version /\ row' = row
        /\ requests'[t].promised = Promised(requests'[t].operation)
    BY <1>4 DEF NewlySent
  <2>2. requests'[t].operation \in Operations
    <3>1. requests'[t] \in Slot
      BY <1>1 DEF RequestsStep, Requests, Slot
    <3> QED BY <3>1, SlotShapes
  <2>3. cache.data.version <= row.version /\ (cache.data.version = row.version => cache.data = row)
    BY DEF PageInv, RowsAreGenuine, Genuine
  <2>4. Verdict(requests'[t].operation, cache.data.status) \subseteq requests'[t].promised
    BY <1>0, <2>1, <2>2, ShownRow, PromiseIsKept DEF PageTyped
  <2> QED BY <1>2, <2>1, <2>3, <2>4
<1> QED BY <1>1, <1>3, <1>4 DEF RequestsStep, SlotStep, NewlyAnswered, NewlyRefreshing

(* No acknowledged change is forgotten by the query.                         *)
LEMMA WritesStep ==
    ASSUME PageInv, Next
    PROVE  WritesAreSeen'
<1>0. PageTyped /\ WritesAreSeen /\ RowsAreGenuine
  BY DEF PageInv
<1>1. RowStep /\ row.version \in Nat /\ acknowledged \in Nat
  BY <1>0, NextSteps, ShownRow DEF PageTyped
<1>2. row'.version \in Nat /\ row.version <= row'.version
  BY <1>1 DEF RowStep
<1>3. CASE Ask \/ CancelDialog \/ ClosePanel \/ Confirm \/ Render \/ OtherUser
           \/ (\E s \in Slots : Respond(s))
  <2>1. UNCHANGED <<cache, fetch, place, acknowledged>>
    BY <1>3
       DEF Ask, AskInDialog, AskInPanel, CancelDialog, ClosePanel, Confirm, ConfirmDialog,
           ConfirmPanel, SubmitForm, Render, OtherUser, Respond, Accept, Refuse, Fail, pageVars
  <2> QED BY <1>0, <1>1, <1>2, <2>1 DEF WritesAreSeen, Fetching
<1>4. CASE \E s \in Slots : Arrive(s)
  <2>1. PICK s \in Slots : Arrive(s)
    BY <1>4
  <2>2. CASE Succeed(s)
    <3>1. HoldsAnswer(s) /\ cache'.invalid = TRUE /\ place' = place
          /\ fetch' = (IF place = "page" THEN FetchFor(s) ELSE fetch)
          /\ acknowledged' = Larger(acknowledged, requests[s].answer.version)
      BY <2>2, SucceedQuery
    <3>2. requests[s].answer.version <= row.version /\ requests[s].answer.version \in Nat
      BY <1>0, <3>1, AnswerTyped DEF RowsAreGenuine, Genuine
    <3>3. acknowledged' <= row'.version
      BY <1>0, <1>1, <1>2, <3>1, <3>2 DEF Larger, WritesAreSeen
    <3>4. fetch'.at # "read" /\ (place = "page" => Fetching')
      BY <1>0, <3>1, FetchShapes DEF FetchFor, Fetching, PageTyped
    <3> QED BY <3>1, <3>3, <3>4 DEF WritesAreSeen
  <2>3. CASE ShowError(s)
    <3>1. UNCHANGED <<cache, fetch, place, acknowledged>>
      BY <2>3 DEF ShowError, AfterAnswer
    <3> QED BY <1>0, <1>1, <1>2, <3>1 DEF WritesAreSeen, Fetching
  <2>4. CASE Settle(s)
    BY <1>0, <1>1, <1>2, <2>4
       DEF Settle, Unmounted, NoFetch, pageVars, WritesAreSeen, Fetching
  <2> QED BY <2>1, <2>2, <2>3, <2>4 DEF Arrive
<1>5. CASE Refetch
  BY <1>0, <1>1, <1>2, <1>5 DEF Refetch, FetchFor, pageVars, WritesAreSeen, Fetching
<1>6. CASE ReadRow
  BY <1>0, <1>1, <1>2, <1>6 DEF ReadRow, pageVars, WritesAreSeen, Fetching
<1>7. CASE ShowRow
  BY <1>0, <1>1, <1>2, <1>7 DEF ShowRow, NoFetch, pageVars, WritesAreSeen, PageTyped
<1>8. CASE FetchFails
  BY <1>0, <1>1, <1>2, <1>8 DEF FetchFails, NoFetch, pageVars, WritesAreSeen, PageTyped
<1>9. CASE Leave
  BY <1>0, <1>1, <1>2, <1>9 DEF Leave, Unmounted, NoFetch, WritesAreSeen
<1>10. CASE Return
  BY <1>0, <1>1, <1>2, <1>10, FetchShapes
     DEF Return, FetchFor, NoFetch, WritesAreSeen, PageTyped, Fetching
<1> QED BY <1>3, <1>4, <1>5, <1>6, <1>7, <1>8, <1>9, <1>10 DEF Next, Read

(* The guards of a confirmation hold on when no request becomes one.         *)
LEMMA GuardsKept ==
    ASSUME ConfirmationGuards,
           \A t \in Slots :
              Confirming(t)' =>
                 /\ Confirming(t)
                 /\ started'
                 /\ requests'[t].observed = requests[t].observed
                 /\ requests'[t].operation = requests[t].operation
    PROVE  ConfirmationGuards'
BY DEF ConfirmationGuards, AsksInDialog, AsksInPanel, AsksInForm, Method

(* Another request that leaves meanwhile is not for the mutation a dialog    *)
(* waits for.                                                                *)
LEMMA SentAside ==
    ASSUME PageTyped, ConfirmationGuards, NEW s \in Slots, requests[s].at = "idle",
           NEW o \in Operations, ~AsksInDialog(o), NEW seen \in 0..MaxVersion[kind],
           requests' = Sent(s, o, seen, FALSE), started' = started
    PROVE  ConfirmationGuards'
<1>0. PICK no \in BOOLEAN : ~no /\ requests' = Sent(s, o, seen, no)
  OBVIOUS
<1> DEFINE rs == Sent(s, o, seen, no)
<1> HIDE DEF rs
<1>1. /\ rs \in Requests
      /\ rs[s] = [at |-> "sent", operation |-> o, seen |-> seen,
                  screen |-> cache.data.version, promised |-> Promised(o),
                  confirms |-> no, observed |-> TRUE, here |-> TRUE]
      /\ rs[s].confirms = no
      /\ \A t \in Slots \ {s} :
            /\ Alike(rs[t], requests[t])
            /\ rs[t].at # "idle" => rs[t].confirms = requests[t].confirms
            /\ rs[t].at # "idle" /\ rs[t] # requests[t] =>
                  SameMutation(requests[t].operation, o)
  BY SentSlots DEF rs
<1>3. requests' = rs
  BY <1>0 DEF rs
<1>2. ASSUME NEW t \in Slots, Confirming(t)'
      PROVE  Confirming(t) /\ started' /\ requests'[t] = requests[t]
  <2>1. t # s /\ requests'[t].at # "idle"
    BY <1>0, <1>1, <1>2, <1>3 DEF Confirming, InFlight
  <2>2. Confirming(t)
    BY <1>1, <1>2, <1>3, <2>1 DEF Confirming, InFlight, Alike
  <2>3. started /\ AsksInDialog(requests[t].operation)
    BY <2>2 DEF ConfirmationGuards
  <2>4. ~SameMutation(requests[t].operation, o)
    BY <2>3 DEF SameMutation, AsksInDialog, AsksInPanel, AsksInForm
  <2> QED BY <1>1, <1>3, <2>1, <2>2, <2>3, <2>4
<1> QED BY <1>2, GuardsKept

(* The button of a dialog stays guarded while its request is on its way.     *)
LEMMA GuardsStep ==
    ASSUME PageInv, Next
    PROVE  ConfirmationGuards'
<1>0. PageTyped /\ ConfirmationGuards
  BY DEF PageInv
<1>1. ASSUME \A t \in Slots : requests'[t].at # "idle" => ~requests'[t].confirms
      PROVE  ConfirmationGuards'
  BY <1>1 DEF ConfirmationGuards, Confirming, InFlight
<1>2. CASE Ask \/ ClosePanel \/ Refetch \/ Read \/ Return \/ OtherUser
  <2>1. requests' = requests /\ started' = started
    BY <1>2
       DEF Ask, AskInDialog, AskInPanel, ClosePanel, Refetch, Read, ReadRow, ShowRow,
           FetchFails, Return, OtherUser, pageVars
  <2> QED BY <1>0, <2>1, GuardsKept DEF ConfirmationGuards, Confirming, InFlight
<1>3. CASE CancelDialog
  BY <1>0, <1>1, <1>3, DialogClosedSlots DEF CancelDialog, PageTyped
<1>4. ASSUME NEW s \in Slots, ConfirmDialog(s)
      PROVE  ConfirmationGuards'
  <2>1. dialog.at = "open" /\ ~started /\ requests[s].at = "idle"
    BY <1>4 DEF ConfirmDialog, ShowsDialog, ConfirmGuard, Free
  <2>2. /\ dialog.operation \in Operations /\ dialog.seen \in 0..MaxVersion[kind]
        /\ AsksInDialog(dialog.operation)
    BY <1>0, <2>1, QuestionShape DEF PageTyped
  <2>3. CASE KeepsDialog
    <3> DEFINE yes == TRUE
    <3>1. /\ requests' = Sent(s, dialog.operation, dialog.seen, yes) /\ yes \in BOOLEAN
          /\ started'
      BY <1>4, <2>3 DEF ConfirmDialog
    <3> HIDE DEF yes
    <3>5. /\ requests'[s] = [at |-> "sent", operation |-> dialog.operation,
                             seen |-> dialog.seen, screen |-> cache.data.version,
                             promised |-> Promised(dialog.operation), confirms |-> yes,
                             observed |-> TRUE, here |-> TRUE]
          /\ \A t \in Slots \ {s} :
                /\ Alike(requests'[t], requests[t])
                /\ requests'[t].at # "idle" => requests'[t].confirms = requests[t].confirms
      BY <1>0, <2>1, <2>2, <3>1, SentSlots
    <3>2. requests'[s].observed /\ requests'[s].operation = dialog.operation
      BY <3>5
    <3>3. ASSUME NEW t \in Slots, Confirming(t)' PROVE t = s
      <4>1. CASE t # s
        <5>1. Confirming(t)
          BY <3>3, <3>5, <4>1 DEF Confirming, InFlight, Alike
        <5> QED BY <1>0, <2>1, <5>1 DEF ConfirmationGuards
      <4> QED BY <4>1
    <3>4. AsksInDialog(requests[s].operation)'
      BY <2>2, <3>2 DEF AsksInDialog, AsksInPanel, AsksInForm, Method
    <3> QED BY <3>1, <3>2, <3>3, <3>4 DEF ConfirmationGuards
  <2>4. CASE ~KeepsDialog
    <3>1. DialogClosed(Sent(s, dialog.operation, dialog.seen, FALSE))
      BY <1>4, <2>4 DEF ConfirmDialog
    <3>2. Sent(s, dialog.operation, dialog.seen, FALSE) \in Requests
      BY <1>0, <2>1, <2>2, SentSlots
    <3> QED BY <1>1, <3>1, <3>2, DialogClosedSlots
  <2> QED BY <2>3, <2>4
<1>5. ASSUME NEW s \in Slots, ConfirmPanel(s)
      PROVE  ConfirmationGuards'
  <2>1. panel.at = "open" /\ requests[s].at = "idle" /\ started' = started
        /\ requests' = Sent(s, panel.operation, panel.seen, FALSE)
    BY <1>5 DEF ConfirmPanel, ShowsPanel, Free
  <2>2. /\ panel.operation \in Operations /\ panel.seen \in 0..MaxVersion[kind]
        /\ ~AsksInDialog(panel.operation)
    BY <1>0, <2>1, QuestionShape DEF PageTyped, AsksInDialog
  <2> QED BY <1>0, <2>1, <2>2, SentAside
<1>6. ASSUME NEW s \in Slots, NEW o \in Operations, SubmitForm(s, o)
      PROVE  ConfirmationGuards'
  <2>1. requests[s].at = "idle" /\ started' = started /\ ~AsksInDialog(o)
        /\ requests' = Sent(s, o, cache.data.version, FALSE)
    BY <1>6 DEF SubmitForm, Free, AsksInDialog
  <2>2. cache.data.version \in 0..MaxVersion[kind]
    BY <1>0, ShownRow
  <2> QED BY <1>0, <2>1, <2>2, SentAside
<1>7. CASE Render
  <2>1. requests' = requests /\ started' = (started /\ Pending)
    BY <1>7 DEF Render
  <2>2. ASSUME NEW t \in Slots, Confirming(t) PROVE started'
    BY <1>0, <2>1, <2>2 DEF ConfirmationGuards, Confirming, InFlight, Pending
  <2> QED BY <1>0, <2>1, <2>2, GuardsKept DEF Confirming, InFlight
<1>8. ASSUME NEW s \in Slots, Respond(s)
      PROVE  ConfirmationGuards'
  <2>1. started' = started /\ requests[s].at \in {"sent", "answered"}
    BY <1>8 DEF Respond, Accept, Refuse, Fail, pageVars
  <2>2. PICK answer \in Rows \cup {Failed} : Reply(s, answer)
    <3>1. CASE Accept(s)
      <4>1. PICK status \in Verdict(requests[s].operation, row.status) :
                row' = RowAt(row.version + 1, status) /\ Reply(s, row')
        BY <3>1 DEF Accept
      <4>2. requests[s].operation \in Operations /\ row.version < MaxVersion[kind]
        BY <1>0, <3>1, SentTyped DEF Accept
      <4>3. row' \in Rows
        BY <1>0, <4>1, <4>2, NextRow
      <4> QED BY <4>1, <4>3
    <3>2. CASE Refuse(s) \/ Fail(s)
      BY <3>2 DEF Refuse, Fail
    <3> QED BY <1>8, <3>1, <3>2 DEF Respond
  <2>3. /\ requests'[s].operation = requests[s].operation
        /\ requests'[s].confirms = requests[s].confirms
        /\ requests'[s].observed = requests[s].observed
        /\ \A t \in Slots \ {s} : requests'[t] = requests[t]
    BY <1>0, <2>1, <2>2, ReplySlots
  <2>4. ASSUME NEW t \in Slots, Confirming(t)' PROVE Confirming(t) /\ started'
    BY <1>0, <2>1, <2>3, <2>4 DEF Confirming, InFlight, ConfirmationGuards
  <2> QED BY <1>0, <2>3, <2>4, GuardsKept
<1>9. ASSUME NEW s \in Slots, NEW rs \in Requests, AfterAnswer(s, rs),
             rs[s].at \in {"idle", "refreshing"},
             \A t \in Slots \ {s} : rs[t] = requests[t]
      PROVE  ConfirmationGuards'
  <2>1. \A t \in Slots :
           /\ Alike(requests'[t], rs[t])
           /\ requests'[t].at # "idle" /\ requests'[t].confirms =>
                 requests'[t] = rs[t] /\ started' = started
    BY <1>9, AfterAnswerSlots
  <2>2. ASSUME NEW t \in Slots, Confirming(t)'
        PROVE  Confirming(t) /\ started' /\ requests'[t] = requests[t]
    <3>1. t # s
      BY <1>9, <2>1, <2>2 DEF Confirming, InFlight, Alike
    <3>2. requests'[t] = requests[t] /\ started' = started
      BY <1>9, <2>1, <2>2, <3>1 DEF Confirming, InFlight
    <3> QED BY <1>0, <2>2, <3>2 DEF Confirming, InFlight, ConfirmationGuards
  <2> QED BY <1>0, <2>2, GuardsKept
<1>10. ASSUME NEW s \in Slots, Arrive(s)
       PROVE  ConfirmationGuards'
  <2>1. requests \in [Slots -> Slot]
    BY <1>0 DEF PageTyped, Requests, Slot
  <2>2. CASE Succeed(s)
    <3> DEFINE rs == [requests EXCEPT ![s].at = "refreshing"]
    <3>1. AfterAnswer(s, rs) /\ requests[s].at = "answered"
      BY <2>2 DEF Succeed
    <3>2. requests[s] \in AnsweredRequests
      BY <2>1, <3>1, SlotShapes
    <3>3. rs[s] \in AnsweredRequests /\ rs[s].at = "refreshing"
      BY <2>1, <3>2 DEF AnsweredRequests
    <3>4. \A t \in Slots \ {s} : rs[t] = requests[t]
      BY <2>1
    <3>5. rs \in [Slots -> Slot]
      BY <2>1, <3>3, <3>4 DEF Slot
    <3>6. rs \in Requests
      BY <3>5 DEF Requests, Slot
    <3> HIDE DEF rs
    <3> QED BY <1>9, <3>1, <3>3, <3>4, <3>6
  <2>3. CASE ShowError(s)
    <3> DEFINE rs == [requests EXCEPT ![s] = Idle]
    <3>1. AfterAnswer(s, rs)
      BY <2>3 DEF ShowError
    <3>2. rs \in Requests /\ rs[s] = Idle /\ (\A t \in Slots \ {s} : rs[t] = requests[t])
      BY <1>0, EndedSlots
    <3> HIDE DEF rs
    <3> QED BY <1>9, <3>1, <3>2 DEF Idle
  <2>4. CASE Settle(s)
    <3> DEFINE rs == [requests EXCEPT ![s] = Idle]
    <3>1. rs \in Requests /\ rs[s] = Idle /\ (\A t \in Slots \ {s} : rs[t] = requests[t])
      BY <1>0, EndedSlots
    <3>2. requests' = Forgotten(rs) \/ (requests' = rs /\ started' = started)
      BY <2>4 DEF Settle, pageVars
    <3> HIDE DEF rs
    <3>3. CASE requests' = Forgotten(rs)
      BY <1>1, <3>1, <3>3, ForgottenSlots
    <3>4. CASE requests' = rs /\ started' = started
      <4>1. ASSUME NEW t \in Slots, Confirming(t)'
            PROVE  Confirming(t) /\ started' /\ requests'[t] = requests[t]
        BY <1>0, <3>1, <3>4, <4>1 DEF Confirming, InFlight, Idle, ConfirmationGuards
      <4> QED BY <1>0, <4>1, GuardsKept
    <3> QED BY <3>2, <3>3, <3>4
  <2> QED BY <1>10, <2>2, <2>3, <2>4 DEF Arrive
<1>11. CASE Leave
  BY <1>0, <1>1, <1>11, ForgottenSlots DEF Leave, PageTyped
<1> QED BY <1>2, <1>3, <1>4, <1>5, <1>6, <1>7, <1>8, <1>10, <1>11 DEF Next, Confirm

-----------------------------------------------------------------------------
(* A stuttering step changes nothing.                                        *)
LEMMA Unchanged == PageInv /\ UNCHANGED vars => PageInv'
<1> SUFFICES ASSUME PageInv, UNCHANGED vars PROVE PageInv'
  OBVIOUS
<1>1. kind' = kind /\ UNCHANGED <<row, place, cache, fetch, dialog, panel, started, busy,
                                  requests, acknowledged>>
  BY DEF vars, pageVars
<1>2. PageTyped'
  BY <1>1, SameKind DEF PageInv, PageTyped, Fetching, AsksInDialog, AsksInPanel, AsksInForm,
                        Method
<1>3. RowsAreGenuine' /\ AnswersFit'
  BY <1>1, SameKind DEF PageInv, RowsAreGenuine, AnswersFit, Genuine, HoldsAnswer, Accepted,
                        SetsData, Method
<1>4. ChosenAsOffered' /\ WritesAreSeen'
  BY <1>1 DEF PageInv, ChosenAsOffered, ChosenOn, WritesAreSeen, Fetching
<1>5. PromisesHold'
  BY <1>1 DEF PageInv, PromisesHold, PromisedFor, Verdict, Method
<1>6. ConfirmationGuards'
  BY <1>1, GuardsKept DEF PageInv, Confirming, InFlight, ConfirmationGuards
<1> QED BY <1>2, <1>3, <1>4, <1>5, <1>6 DEF PageInv

(* All of it holds in every state: the inductive invariant of the page.      *)
THEOREM PageInvariant == Spec => []PageInv
<1>1. PageInv /\ Next => PageInv'
  BY TypedStep, GenuineStep, AnswersStep, ChosenStep, PromisesStep, WritesStep, GuardsStep
     DEF PageInv
<1> QED BY <1>1, InitInv, Unchanged, PTL DEF Spec

(* In particular the types of the module, within its bounds.                 *)
THEOREM TypeOKAlways == Spec => []TypeOK
<1>1. PageInv => TypeOK
  <2> SUFFICES ASSUME PageInv PROVE TypeOK
    OBVIOUS
  <2>0. PageTyped
    BY DEF PageInv
  <2>1. Rows \subseteq RowType
    <3>1. StatusesOf[kind] \subseteq UNION {StatusesOf[k] : k \in Kinds}
      BY <2>0 DEF PageTyped
    <3> QED BY <3>1 DEF Rows, RowType
  <2>2. LiveRows \subseteq {r \in RowType : r.status \in StatusesOf[kind]}
    BY <2>1 DEF LiveRows, Rows
  <2>3. cache \in [data : {r \in RowType : r.status \in StatusesOf[kind]},
                  failed : BOOLEAN, invalid : BOOLEAN]
    <3>1. cache \in [data : LiveRows, failed : BOOLEAN, invalid : BOOLEAN]
      BY <2>0 DEF PageTyped
    <3> HIDE DEF LiveRows
    <3> QED BY <3>1, <2>2
  <2>6. cache.data.version <= row.version
    BY DEF PageInv, RowsAreGenuine, Genuine
  <2>4. \/ fetch = NoFetch
        \/ place = "page" /\ fetch.at = "asked"
        \/ place = "page" /\ fetch.at = "read" /\ fetch.answer \in RowType
    BY <2>0, <2>1 DEF PageTyped, Fetches, Fetching, NoFetch
  <2>5. ASSUME NEW s \in Slots
        PROVE  requests[s].at \in {"idle", "sent", "answered", "refreshing"}
    <3>1. requests[s] \in Slot
      BY <2>0 DEF PageTyped, Requests, Slot
    <3> QED BY <3>1, SlotShapes
  <2> QED BY <2>0, <2>1, <2>3, <2>4, <2>5, <2>6 DEF PageTyped, TypeOK
<1> QED BY <1>1, PageInvariant, PTL

(* One confirmation sends one request (ConfirmDialog's confirmStartedRef).   *)
THEOREM ConfirmedOnceAlways == Spec => []ConfirmedOnce
<1>1. PageInv => ConfirmedOnce
  <2> SUFFICES ASSUME PageInv PROVE ConfirmedOnce
    OBVIOUS
  <2> DEFINE C == {s \in Slots : InFlight(s) /\ requests[s].confirms}
  <2>1. \A s, t \in C : s = t
    BY DEF PageInv, ConfirmationGuards, Confirming
  <2>2. CASE C = {}
    BY <2>2, FS_EmptySet DEF ConfirmedOnce
  <2>3. ASSUME NEW s \in C PROVE Cardinality(C) <= 1
    <3>1. C = {s}
      BY <2>1, <2>3
    <3>2. Cardinality({s}) = 1
      BY FS_Singleton
    <3> QED BY <3>1, <3>2
  <2> QED BY <2>2, <2>3 DEF ConfirmedOnce
<1> QED BY <1>1, PageInvariant, PTL

(* The page shows its own acknowledged changes.                              *)
THEOREM ReadYourWritesAlways == Spec => []ReadYourWrites
<1>1. PageInv => ReadYourWrites
  BY DEF PageInv, WritesAreSeen, ReadYourWrites
<1> QED BY <1>1, PageInvariant, PTL

(* A service refuses what a page has offered only when the row has changed   *)
(* since.                                                                    *)
THEOREM RefusedOnlyIfOutdatedAlways == Spec => RefusedOnlyIfOutdated
<1> DEFINE A == \A s \in Slots : Refuse(s) => requests[s].seen # row.version
<1>1. PageInv /\ [Next]_vars => [A]_vars
  <2> SUFFICES ASSUME PageInv, NEW s \in Slots, Refuse(s), requests[s].seen = row.version
               PROVE  FALSE
    OBVIOUS
  <2>1. /\ requests[s].at = "sent" /\ kind \in Kinds
        /\ row.status \in StatusesOf[kind]
        /\ requests[s].operation \in Offered(kind, row.status)
    BY DEF Refuse, PageInv, PageTyped, ChosenAsOffered, ChosenOn
  <2> QED BY <2>1, OfferedIsAllowed DEF Refuse
<1> QED BY <1>1, PageInvariant, PTL DEF Spec, RefusedOnlyIfOutdated

(* What a confirmation has said comes true.                                  *)
THEOREM DoesWhatItSaidAlways == Spec => DoesWhatItSaid
<1> DEFINE A == \A s \in Slots :
                   Accept(s) /\ requests[s].screen = row.version =>
                       row'.status \in requests[s].promised
<1>1. PageInv /\ [Next]_vars => [A]_vars
  <2> SUFFICES ASSUME PageInv, NEW s \in Slots, Accept(s), requests[s].screen = row.version
               PROVE  row'.status \in requests[s].promised
    OBVIOUS
  <2>1. PICK status \in Verdict(requests[s].operation, row.status) :
            row' = RowAt(row.version + 1, status)
    BY DEF Accept
  <2>2. row'.status = status
    BY <2>1 DEF RowAt
  <2>3. Verdict(requests[s].operation, row.status) \subseteq requests[s].promised
    BY DEF Accept, PageInv, PromisesHold, PromisedFor
  <2> QED BY <2>1, <2>2, <2>3
<1> QED BY <1>1, PageInvariant, PTL DEF Spec, RefusedOnlyIfOutdated, DoesWhatItSaid
=============================================================================
