------------------------------ MODULE PageSession ------------------------------
(***************************************************************************)
(* One page of the browser application that changes the row it shows: what *)
(* React Query keeps of the row, the dialog or the panel that confirms an  *)
(* operation, the requests on their way, and other users who change the    *)
(* same row.  Pages tells what a page offers for a row of a given status.  *)
(*                                                                         *)
(* A race or competitor status that was selected but not yet applied is    *)
(* like a dialog that is still open: an operation chosen on older data.    *)
(***************************************************************************)
EXTENDS Pages, Naturals, FiniteSets

CONSTANTS
    Kinds,      \* the pages: the kind of row each of them changes
    Slots,      \* requests of a page on their way at a time
    MaxRequests, \* bound on those of the page of each kind
    MaxVersion  \* bound on the changes of a row of each kind

ASSUME BoundsAssumption ==
    /\ Slots \subseteq Nat \ {0}
    /\ MaxRequests \in [Kinds -> Slots]
    /\ MaxVersion \in [Kinds -> Nat]

VARIABLES
    kind,       \* the kind of the row
    row,        \* the row in the database: its status and how often it changed
    place,      \* where the browser is: the page, its list, or somewhere else
    cache,      \* the query of the row: the data, isError and isInvalidated
    fetch,      \* the request of that query
    dialog,     \* the operation the open ConfirmDialog asks about
    panel,      \* the operation the open DecisionPanel asks about
    started,    \* confirmStartedRef
    busy,       \* isMutating, as the page on the screen has it
    requests,   \* the mutations of the page
    acknowledged \* history: the newest of the page's own changes it knows of

pageVars == <<place, dialog, panel, started, busy>>
vars == <<kind, row, place, cache, fetch, dialog, panel, started, busy, requests,
          acknowledged>>

-----------------------------------------------------------------------------
(* The rows. *)
StatusesOf ==
    [race |-> DOMAIN RaceStatusTransitions,
     competitor |-> DOMAIN CompetitorStatusTransitions,
     team |-> {"ACTIVE", "INACTIVE"}, user |-> {"ACTIVE", "DISABLED"},
     registration |-> RegistrationStatuses, result |-> {"RECORDED"}]

ASSUME KindsAssumption == Kinds \subseteq DOMAIN StatusesOf

RowAt(version, status) == [version |-> version, status |-> status]

Exists == row.status # "GONE"

(* What the pages of an administrator offer for a row of this status.        *)
Offered(k, status) ==
    LET administrator == Administrators
    IN  CASE k = "race" -> RaceLifecycle(administrator, status).does
          [] k = "competitor" -> CompetitorAdministration(administrator, status).does
          [] k = "team" -> TeamAdministration(administrator, status).does
                           \cup ActiveMemberColumns(administrator).does
                           \cup AddMemberPanel(administrator, status).does
          [] k = "user" -> AccessState(status, FALSE).does
          [] k = "registration" -> RegistrationActions(TRUE, status).does
          [] k = "result" -> {<<<<"results", "update">>, "">>}

Method(operation) == operation[1][2]

(* approve and reject ask in a panel, addMember in a form that is always     *)
(* there, everything else in the dialog.                                     *)
AsksInPanel(operation) == Method(operation) \in {"approve", "reject"}

AsksInForm(operation) == Method(operation) = "addMember"

AsksInDialog(operation) == ~AsksInPanel(operation) /\ ~AsksInForm(operation)

-----------------------------------------------------------------------------
(* What the services make of an operation on a row of a status: the statuses *)
(* the row may have afterwards, none when the status forbids the operation.  *)
RaceVerdict(method, target, status) ==
    LET allowedStatusTransitions ==
            [DRAFT |-> {"OPEN_FOR_REGISTRATION", "CANCELLED"},
             OPEN_FOR_REGISTRATION |-> {"CLOSED", "CANCELLED"},
             CLOSED |-> {"IN_PROGRESS", "CANCELLED"},
             IN_PROGRESS |-> {"COMPLETED", "CANCELLED"},
             COMPLETED |-> {}, CANCELLED |-> {}]
    IN  CASE method = "updateStatus" -> {target} \cap allowedStatusTransitions[status]
          [] method = "remove" /\ status = "DRAFT" -> {"GONE", "CANCELLED"}
          [] method = "remove" /\ status \in {"COMPLETED", "CANCELLED"} -> {}
          [] OTHER -> {"CANCELLED"}

CompetitorVerdict(method, target, status) ==
    LET allowedStatusTransitions ==
            [ACTIVE |-> {"SUSPENDED", "RETIRED"}, SUSPENDED |-> {"ACTIVE", "RETIRED"},
             RETIRED |-> {}]
    IN  IF method = "remove" THEN {"GONE", "RETIRED"}
        ELSE {target} \cap allowedStatusTransitions[status]

TeamVerdict(method, target, status) ==
    CASE method = "updateStatus" -> {target} \ {status}
      [] method = "remove" -> {"GONE", "INACTIVE"}
      [] method = "addMember" -> {status} \ {"INACTIVE"}
      [] method = "removeMember" -> {status}

UserVerdictWithoutCheck(target, status) == {target}

UserVerdict(target, status) == {target} \ {status}

RegistrationVerdict(method, status) ==
    CASE method = "approve" /\ status = "PENDING" -> {"APPROVED"}
      [] method = "reject" /\ status = "PENDING" -> {"REJECTED"}
      [] method = "cancel" /\ status \notin {"REJECTED", "CANCELLED"} -> {"CANCELLED"}
      [] OTHER -> {}

Verdict(operation, status) ==
    LET method == Method(operation)
        target == operation[2]
    IN  IF status = "GONE" THEN {}
        ELSE CASE kind = "race" -> RaceVerdict(method, target, status)
               [] kind = "competitor" -> CompetitorVerdict(method, target, status)
               [] kind = "team" -> TeamVerdict(method, target, status)
               [] kind = "user" -> UserVerdict(target, status)
               [] kind = "registration" -> RegistrationVerdict(method, status)
               [] kind = "result" -> {status}

-----------------------------------------------------------------------------
MutationInvalidationOfOthers ==
    [competitor |-> {"standings", "audit"},
     race |-> {"registrations", "results", "standings", "audit"},
     registration |-> {"races", "results", "audit"},
     result |-> {"races", "standings", "audit"},
     team |-> {"competitors", "standings", "audit"},
     user |-> {"audit"}]

(* mutationInvalidation and queryKeys: whether a mutation of the page makes  *)
(* the page's own query stale.                                               *)
MutationInvalidation ==
    [competitor |-> {"competitors", "standings", "audit"},
     race |-> {"races", "registrations", "results", "standings", "audit"},
     registration |-> {"registrations", "races", "results", "audit"},
     result |-> {"results", "races", "standings", "audit"},
     team |-> {"teams", "competitors", "standings", "audit"},
     user |-> {"users", "audit"}]

ResourceRoot ==
    [competitor |-> "competitors", race |-> "races", registration |-> "registrations",
     result |-> "results", team |-> "teams", user |-> "users"]

Invalidates == ResourceRoot[kind] \in MutationInvalidation[kind]

NoFetch == [at |-> "none"]

(* The query reads the row again, for a request or (0) for the page.         *)
FetchFor(s) == [at |-> "asked", for |-> s]

Fetching == fetch.at # "none"

Idle == [at |-> "idle"]

(* An answer other than a row: the status of the row forbids the operation,  *)
(* something else does, or the network lost the request or its answer.       *)
Failed == RowAt(0, "failed")

Accepted(s) == requests[s].answer # Failed

InFlight(s) == requests[s].at \in {"sent", "answered"}

(* isPending: each useMutation follows the last request it has sent.         *)
Pending == \E s \in Slots : requests[s].at # "idle" /\ requests[s].observed

Closed == [at |-> "closed"]

Asks(operation, version) == [at |-> "open", operation |-> operation, seen |-> version]

(* The page as it mounts: no dialog, no mutation it observes.                *)
Unmounted ==
    /\ dialog' = Closed
    /\ panel' = Closed
    /\ started' = FALSE
    /\ busy' = FALSE
    /\ fetch' = NoFetch

Forgotten(rs) ==
    [s \in Slots |-> IF rs[s].at = "idle" THEN Idle
                     ELSE [rs[s] EXCEPT !.observed = FALSE, !.confirms = FALSE,
                                        !.here = FALSE]]

(* The page shows its data and what it offers for them; that of the          *)
(* registrations keeps the dialog and the panel when only its table fails.   *)
Shown == place = "page" /\ ~cache.failed

ShowsDialog ==
    dialog.at = "open" /\ place = "page" /\ (cache.failed => kind = "registration")

ShowsPanel == panel.at = "open" /\ place = "page" /\ ~ShowsDialog

Init ==
    /\ kind \in Kinds
    /\ \E status \in StatusesOf[kind] :
          /\ row = RowAt(0, status)
          /\ cache = [data |-> RowAt(0, status), failed |-> FALSE, invalid |-> FALSE]
    /\ place = "page"
    /\ fetch = NoFetch
    /\ dialog = Closed
    /\ panel = Closed
    /\ started = FALSE
    /\ busy = FALSE
    /\ requests = [s \in Slots |-> Idle]
    /\ acknowledged = 0

-----------------------------------------------------------------------------
(* The buttons of an operation open the dialog or the panel.  Those that end *)
(* a membership stay enabled while the page is mutating.                     *)
AskInDialog(operation) ==
    /\ Shown
    /\ operation \in Offered(kind, cache.data.status) /\ AsksInDialog(operation)
    /\ dialog.at = "closed"
    /\ busy => Method(operation) = "removeMember"
    /\ dialog' = Asks(operation, cache.data.version)
    /\ UNCHANGED <<kind, acknowledged, row, place, cache, fetch, panel, started, busy, requests>>

(* chooseDecision; the dialog covers the page.                               *)
AskInPanel(operation) ==
    /\ Shown /\ ~busy /\ dialog.at = "closed"
    /\ operation \in Offered(kind, cache.data.status) /\ AsksInPanel(operation)
    /\ panel' = Asks(operation, cache.data.version)
    /\ UNCHANGED <<kind, acknowledged, row, place, cache, fetch, dialog, started, busy, requests>>

(* An effect of ConfirmDialog resets confirmStartedRef when it closes; its   *)
(* requests are no longer those of the dialog on the screen.                 *)
DialogClosed(rs) ==
    /\ dialog' = Closed
    /\ started' = FALSE
    /\ requests' = [s \in Slots |-> IF rs[s].at = "idle" THEN Idle
                                     ELSE [rs[s] EXCEPT !.confirms = FALSE]]

(* Escape, the backdrop or the cross, at any time.                           *)
CancelDialog ==
    /\ ShowsDialog
    /\ DialogClosed(requests)
    /\ UNCHANGED <<kind, acknowledged, row, place, cache, fetch, panel, busy>>

ClosePanel ==
    /\ ShowsPanel /\ ~busy
    /\ panel' = Closed
    /\ UNCHANGED <<kind, acknowledged, row, place, cache, fetch, dialog, started, busy, requests>>

(* What the confirmation promises: the statuses its text speaks of.  The     *)
(* dialog of a user takes its text from the profile on the screen, the other *)
(* dialogs from the operation they ask about.                                *)
Promised(operation) ==
    IF kind = "user" THEN {OtherProfileStatus(cache.data.status)}
    ELSE CASE Method(operation) = "updateStatus" -> {operation[2]}
           [] Method(operation) = "remove" ->
                 [race |-> {"GONE", "CANCELLED"}, competitor |-> {"GONE", "RETIRED"},
                  team |-> {"GONE", "INACTIVE"}][kind]
           [] Method(operation) = "approve" -> {"APPROVED"}
           [] Method(operation) = "reject" -> {"REJECTED"}
           [] Method(operation) = "cancel" -> {"CANCELLED"}
           [] OTHER -> {cache.data.status}

(* What the network and other tabs do reaches the page after it has rendered.*)
Rendered == place = "page" => busy = Pending

(* A request takes the first free slot.                                      *)
Free(s) ==
    /\ s <= MaxRequests[kind]
    /\ requests[s].at = "idle"
    /\ \A t \in Slots : t < s => requests[t].at # "idle"

(* mutate: the mutation's observer follows the new request from now on.      *)
SameMutation(p, q) == Method(p) = Method(q)

Sent(s, operation, seen, confirms) ==
    [t \in Slots |->
        IF t = s
        THEN [at |-> "sent", operation |-> operation, seen |-> seen,
              screen |-> cache.data.version, promised |-> Promised(operation),
              confirms |-> confirms, observed |-> TRUE, here |-> TRUE]
        ELSE IF requests[t].at # "idle" /\ SameMutation(requests[t].operation, operation)
             THEN [requests[t] EXCEPT !.observed = FALSE]
             ELSE requests[t]]

(* All pages but that of registrations close the dialog and then mutate.     *)
KeepsDialog == kind = "registration"

ConfirmGuardBusyOnly == ~busy

ConfirmGuard == ~busy /\ ~started

ConfirmDialog(s) ==
    /\ ShowsDialog /\ ConfirmGuard
    /\ Free(s)
    /\ IF KeepsDialog
       THEN /\ started' = TRUE
            /\ requests' = Sent(s, dialog.operation, dialog.seen, TRUE)
            /\ UNCHANGED dialog
       ELSE DialogClosed(Sent(s, dialog.operation, dialog.seen, FALSE))
    /\ UNCHANGED <<kind, acknowledged, row, place, cache, fetch, panel, busy>>

(* onApprove, onReject: the panel stays open on the row it was opened for.   *)
ConfirmPanel(s) ==
    /\ ShowsPanel /\ ~busy
    /\ Free(s)
    /\ requests' = Sent(s, panel.operation, panel.seen, FALSE)
    /\ UNCHANGED <<kind, acknowledged, row, place, cache, fetch, dialog, panel, started, busy>>

SubmitForm(s, operation) ==
    /\ Shown /\ ~busy /\ dialog.at = "closed"
    /\ operation \in Offered(kind, cache.data.status) /\ AsksInForm(operation)
    /\ Free(s)
    /\ requests' = Sent(s, operation, cache.data.version, FALSE)
    /\ UNCHANGED <<kind, acknowledged, row, place, cache, fetch, dialog, panel, started, busy>>

(* React renders isPending; an effect of ConfirmDialog resets                *)
(* confirmStartedRef when busy falls.                                        *)
Render ==
    /\ place = "page" /\ busy # Pending
    /\ busy' = Pending
    /\ started' = (started /\ Pending)
    /\ UNCHANGED <<kind, acknowledged, row, place, cache, fetch, dialog, panel, requests>>

-----------------------------------------------------------------------------
(* The services, and the network.                                            *)
Reply(s, answer) ==
    LET r == requests[s]
    IN  requests' = [requests EXCEPT ![s] =
            [at |-> "answered", operation |-> r.operation, confirms |-> r.confirms,
             observed |-> r.observed, here |-> r.here, answer |-> answer]]

Accept(s) ==
    /\ requests[s].at = "sent" /\ row.version < MaxVersion[kind]
    /\ \E status \in Verdict(requests[s].operation, row.status) :
          /\ row' = RowAt(row.version + 1, status)
          /\ Reply(s, row')
    /\ UNCHANGED <<kind, acknowledged, cache, fetch, pageVars>>

Refuse(s) ==
    /\ requests[s].at = "sent"
    /\ Verdict(requests[s].operation, row.status) = {}
    /\ Reply(s, Failed)
    /\ UNCHANGED <<kind, acknowledged, row, cache, fetch, pageVars>>

Fail(s) ==
    /\ \/ requests[s].at = "sent"
       \/ requests[s].at = "answered" /\ Accepted(s)
    /\ Reply(s, Failed)
    /\ UNCHANGED <<kind, acknowledged, row, cache, fetch, pageVars>>

-----------------------------------------------------------------------------
(* The page gets the answer.  That of a user closes its dialog then, that of *)
(* a result when the correction has failed, that of the registrations when   *)
(* the cancellation has succeeded.                                           *)
ClosesDialog(s) ==
    /\ requests[s].here
    /\ \/ kind = "user"
       \/ kind = "result" /\ ~Accepted(s)
       \/ Accepted(s) /\ Method(requests[s].operation) = "cancel"

ClosesPanel(s) ==
    requests[s].here /\ Accepted(s) /\ AsksInPanel(requests[s].operation)

AfterAnswer(s, rs) ==
    /\ IF ClosesDialog(s) THEN DialogClosed(rs)
       ELSE requests' = rs /\ UNCHANGED <<dialog, started>>
    /\ panel' = IF ClosesPanel(s) THEN Closed ELSE panel
    /\ UNCHANGED <<kind, row, place, busy>>

(* setQueryData with the row of the answer.                                  *)
SetsData(operation) == Method(operation) \in {"updateStatus", "update"}

Larger(m, n) == IF m > n THEN m ELSE n

(* invalidateResources: the query is stale, and read again in place of any   *)
(* earlier attempt while its page is there.  The mutation awaits that.       *)
Succeed(s) ==
    /\ requests[s].at = "answered" /\ Accepted(s)
    /\ LET fresh == IF SetsData(requests[s].operation)
                    THEN [data |-> requests[s].answer, failed |-> FALSE, invalid |-> FALSE]
                    ELSE cache
       IN  cache' = [fresh EXCEPT !.invalid = @ \/ Invalidates]
    /\ fetch' = IF Invalidates /\ place = "page" THEN FetchFor(s) ELSE fetch
    /\ acknowledged' = Larger(acknowledged, requests[s].answer.version)
    /\ AfterAnswer(s, [requests EXCEPT ![s].at = "refreshing"])

ShowErrorKeepsBusy(s) ==
    /\ requests[s].at = "answered" /\ ~Accepted(s)
    /\ AfterAnswer(s, [requests EXCEPT ![s].at = "told"])
    /\ UNCHANGED <<cache, fetch, acknowledged>>

ShowError(s) ==
    /\ requests[s].at = "answered" /\ ~Accepted(s)
    /\ AfterAnswer(s, [requests EXCEPT ![s] = Idle])
    /\ UNCHANGED <<cache, fetch, acknowledged>>

(* After a removal or a correction the page is left for its list, wherever   *)
(* the browser has gone in the meantime.                                     *)
LeavesPage(operation) == Method(operation) \in {"remove", "update"}

SettleUnlessQueryFails(s) ==
    /\ requests[s].at = "refreshing"
    /\ ~(Fetching /\ fetch.for = s)
    /\ IF LeavesPage(requests[s].operation) /\ ~cache.failed
       THEN /\ place' = "list"
            /\ Unmounted
            /\ requests' = Forgotten([requests EXCEPT ![s] = Idle])
       ELSE /\ requests' = [requests EXCEPT ![s] = Idle]
            /\ UNCHANGED <<fetch, pageVars>>
    /\ UNCHANGED <<kind, acknowledged, row, cache>>

Settle(s) ==
    /\ requests[s].at = "refreshing"
    /\ ~(Fetching /\ fetch.for = s)
    /\ IF LeavesPage(requests[s].operation)
       THEN /\ place' = "list"
            /\ Unmounted
            /\ requests' = Forgotten([requests EXCEPT ![s] = Idle])
       ELSE /\ requests' = [requests EXCEPT ![s] = Idle]
            /\ UNCHANGED <<fetch, pageVars>>
    /\ UNCHANGED <<kind, acknowledged, row, cache>>

-----------------------------------------------------------------------------
(* The query of the row.  It is read again when the connection returns, when *)
(* the user asks for it, and when the page mounts.                           *)
Refetch ==
    /\ Rendered
    /\ place = "page" /\ ~Fetching
    /\ fetch' = FetchFor(0)
    /\ UNCHANGED <<kind, acknowledged, row, cache, requests, pageVars>>

ReadRow ==
    /\ fetch.at = "asked"
    /\ fetch' = [at |-> "read", for |-> fetch.for, answer |-> row]
    /\ UNCHANGED <<kind, acknowledged, row, cache, requests, pageVars>>

ShowRow ==
    /\ fetch.at = "read"
    /\ cache' = IF fetch.answer.status = "GONE" THEN [cache EXCEPT !.failed = TRUE]
                ELSE [data |-> fetch.answer, failed |-> FALSE, invalid |-> FALSE]
    /\ fetch' = NoFetch
    /\ UNCHANGED <<kind, acknowledged, row, requests, pageVars>>

(* shouldRetryQuery: the query has failed when its second retry has.         *)
FetchFails ==
    /\ fetch.at = "asked"
    /\ fetch' = NoFetch
    /\ cache' = [cache EXCEPT !.failed = TRUE]
    /\ UNCHANGED <<kind, acknowledged, row, requests, pageVars>>

(* The user goes elsewhere: the query is cancelled, the mutations go on.     *)
Leave ==
    /\ Rendered
    /\ place = "page"
    /\ place' = "elsewhere"
    /\ Unmounted
    /\ requests' = Forgotten(requests)
    /\ UNCHANGED <<kind, acknowledged, row, cache>>

(* The page shows the data it has; an invalidated query is read again, as is *)
(* one that is older than its staleTime.                                     *)
Return ==
    /\ place # "page"
    /\ place' = "page"
    /\ fetch' \in {FetchFor(0)} \cup IF cache.invalid THEN {} ELSE {NoFetch}
    /\ UNCHANGED <<kind, acknowledged, row, cache, dialog, panel, started, busy, requests>>

OtherUser ==
    /\ Rendered
    /\ Exists /\ row.version < MaxVersion[kind]
    /\ \E operation \in Offered(kind, row.status) :
          \E status \in Verdict(operation, row.status) :
             row' = RowAt(row.version + 1, status)
    /\ UNCHANGED <<kind, acknowledged, cache, fetch, requests, pageVars>>

Operations == UNION {Offered(kind, status) : status \in StatusesOf[kind]}

Ask == \E operation \in Operations : AskInDialog(operation) \/ AskInPanel(operation)

Confirm ==
    \E s \in Slots :
       \/ ConfirmDialog(s)
       \/ ConfirmPanel(s)
       \/ \E operation \in Operations : SubmitForm(s, operation)

Respond(s) == Accept(s) \/ Refuse(s) \/ Fail(s)

Arrive(s) == Succeed(s) \/ ShowError(s) \/ Settle(s)

Read == ReadRow \/ ShowRow \/ FetchFails

Next ==
    \/ Ask
    \/ CancelDialog
    \/ ClosePanel
    \/ Confirm
    \/ Render
    \/ \E s \in Slots : Respond(s) \/ Arrive(s)
    \/ Refetch
    \/ Read
    \/ Leave
    \/ Return
    \/ OtherUser

Spec == Init /\ [][Next]_vars

(* React renders, every request is answered or fails, and so does the query; *)
(* nobody has to click.                                                      *)
Fairness ==
    /\ WF_vars(Render)
    /\ WF_vars(Read)
    /\ \A s \in Slots : WF_vars(Respond(s)) /\ WF_vars(Arrive(s))

FairSpec == Spec /\ Fairness

-----------------------------------------------------------------------------
(* The open question of a dialog or a panel, the requests and the query stay *)
(* within what the page can hold, and the data of the query are a row that   *)
(* was once in the database.                                                 *)
RowType ==
    [version : 0..MaxVersion[kind],
     status : (UNION {StatusesOf[k] : k \in Kinds}) \cup {"GONE"}]

QuestionType ==
    {Closed} \cup [at : {"open"}, operation : Operations, seen : 0..MaxVersion[kind]]

TypeOK ==
    /\ kind \in Kinds
    /\ row \in RowType
    /\ place \in {"page", "list", "elsewhere"}
    /\ cache \in [data : {r \in RowType : r.status \in StatusesOf[kind]},
                  failed : BOOLEAN, invalid : BOOLEAN]
    /\ cache.data.version <= row.version
    /\ \/ fetch = NoFetch
       \/ place = "page" /\ fetch.at = "asked"
       \/ place = "page" /\ fetch.at = "read" /\ fetch.answer \in RowType
    /\ dialog \in QuestionType /\ panel \in QuestionType
    /\ started \in BOOLEAN /\ busy \in BOOLEAN
    /\ \A s \in Slots : requests[s].at \in {"idle", "sent", "answered", "refreshing"}

(* The tables of the pages and of the services agree: a service refuses what *)
(* a page has offered for the status of a row only when the row has changed  *)
(* since the page read it.                                                   *)
RefusedOnlyIfOutdated ==
    [][\A s \in Slots :
          Refuse(s) => requests[s].seen # row.version]_vars

(* What a confirmation has said comes true: an accepted operation leaves the *)
(* row in a status its dialog spoke of, if it met the row that was on the    *)
(* screen when the user confirmed.  The dialog of a user may ask about one   *)
(* status and speak of the other; the service refuses that.                  *)
DoesWhatItSaid ==
    [][\A s \in Slots :
          Accept(s) /\ requests[s].screen = row.version =>
              row'.status \in requests[s].promised]_vars

(* One confirmation sends one request: however fast the button of a dialog   *)
(* is pressed again, no second request leaves while the first is on its way  *)
(* (ConfirmDialog's confirmStartedRef).                                      *)
ConfirmedOnce ==
    Cardinality({s \in Slots : InFlight(s) /\ requests[s].confirms}) <= 1

(* Read your writes: once nothing is on its way any more, the page shows the *)
(* row at least as new as each change of its own that was acknowledged.      *)
ReadYourWrites ==
    place = "page" /\ ~Fetching /\ ~cache.failed => cache.data.version >= acknowledged

(* The page does not stay blocked: whatever becomes of the request, of the   *)
(* query it waits for and of the page, the buttons are enabled again.        *)
BusyEnds == busy ~> ~busy

(* After a removal that succeeded the browser leaves the page, which has no  *)
(* row any more, though reading it again fails and may have been cancelled.  *)
LeavesAfterRemoval ==
    (\E s \in Slots : requests[s].at = "refreshing" /\ LeavesPage(requests[s].operation))
        ~> place = "list"
=============================================================================
