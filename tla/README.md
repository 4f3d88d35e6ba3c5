# Verification of the race management API

TLA+ models of the race management system in this repository (`backend/`, a
NestJS API over PostgreSQL through TypeORM, and `frontend/`, a React client),
the TLC instances that check them, and TLAPS proofs about them. Paths below are
relative to `src/`; the services are under `backend/src/`.

## 1. The system: inventory

Requests reach a Node.js process, pass the guards, and run a service method.
A service method is a sequence of SQL statements separated by `await`, so other
requests run between any two of them; only a transaction with a
`SELECT ... FOR UPDATE` excludes anybody. All shared state is in PostgreSQL.
The browser application keeps a session, the address bar and copies of the rows
it has read, and asks the API for everything else.

| Component | State | Operations | What makes it correct |
|---|---|---|---|
| Races (`races/`) | `races`: status, schedule, `maxParticipants` | create, update, updateStatus, remove; no transaction, no lock | status moves along `allowedStatusTransitions`; deadline before start; a race with registrations is never deleted |
| Registrations (`registrations/`) | `race_registrations`: status, starting position | create and approve (transactions, row locks), reject and cancel (no transaction) | entries and approvals only in an open race; capacity; one holder per starting position; terminal statuses |
| Results (`results/`) | `race_results`: status, final position, times | create and update (one transaction under the race lock) | one result per registration; one holder per final position; the winner is the fastest; results only during or after the race |
| Audit (`audit/`) | `audit_logs`, append only | recordEvent, recordResultCreated/Corrected, called by all services, inside or outside their transaction | every mutation has its event, with the values it replaced |
| Clock (`common/time/`) | none | `now()` | – |
| Competitors (`competitors/`) | `competitors`: status | create, update, updateStatus, remove (delete, or retire when there is history) | only ACTIVE competitors enter; history is preserved |
| Teams (`teams/`) | `teams`, `team_members` | create, update, updateStatus, remove, addMember (team locked), removeMember (membership locked) | capacity; one active membership per competitor |
| User profiles (`users/`) | `user_profiles`: status | findOrProvision (in the guard of every request), updateStatus | one profile per subject; a trail that explains its status |
| Authentication (`auth/`) | none (validates Keycloak tokens) | JWT strategy, roles guard | a handler runs only for an authorised, active profile |
| Standings (`standings/`) | none (a query over results) | getOverall, getCompetitors, getTeams | points and dense ranks of completed races; positions do not depend on filters or pages |
| Frontend session and API client (`frontend/src/auth`, `api`, `app`) | session state, the token request in flight, the route | bootstrap, gates, login, logout, 401 handling, token sharing | gates agree with links and with the backend; no call is lost |
| Frontend query cache (`frontend/src/query`) | cached answers by query | invalidation after a mutation, refetch, cancellation, reuse until stale | a page shows what its own mutation changed; a list mixes old and new answers only when its rows change |
| Frontend pages (`frontend/src/pages`, `components`) | filters in the address, dialogs, panels | lists: filter, sort, page; details: confirm an operation | nothing a user chose is lost; a confirmation sends one request that does what it said |
| Seed, configuration, error filter, deployment | – | – | set-up and formatting |

How they interact: RegistrationsService locks and reads `races`, and reads
`competitors`, `teams` and `team_members`; RacesService counts registrations
and results before it moves a race; ResultsService locks `races` and reads
`race_registrations`; StandingsService reads the results of completed races;
all services write `audit_logs`, whose foreign key needs a share of the actor's
`user_profiles` row. They never call one another: they meet in the tables, in
row locks, in unique indexes, in CHECKs and in foreign keys. The guard writes
`user_profiles` before any handler runs. A page of the frontend starts queries
and mutations through one API client, whose calls share one token request; a
mutation invalidates queries, and the page waits for those on the screen.

Hard behaviours, each listed with its line under `hazards` in `PROJECT.json`:

- decisions on rows read earlier (updateStatus, update, remove, reject, cancel),
  and TypeORM's `save`, which compares the entity with the row *as it is at the
  save* and updates the columns that differ, so that a stale entity writes old
  values back;
- transactions that must hold a lock from check to commit; two locks in one
  transaction (approve); a lock and a foreign key of the same table (status
  changes of profiles), which deadlock;
- a failure between a row and its audit event; two counts read by two
  statements; a correction read before the lock it is made under;
- first requests of one subject that create its profile at the same time;
- in the browser: a token request shared by calls, some of which are aborted;
  gates that redirect to one another; answers that arrive after the page has
  changed, been left or been told otherwise; a button pressed before the page
  has rendered that it is busy; queries that travel through the address bar and
  are answered from a cache that others' changes do not reach.

## 2. Plan

Done, in this order: the race lifecycle with its composition, refinement and
proofs (it came first because the business rules that concurrency can break
meet there); the roster and its composition with registrations; user profiles;
authorisation and the browser session; standings and lists; the pages that
change a row; the proofs of the roster, of validated entries and of the profiles,
and those of a race's schedule and of the phase its results belong to; the proofs
of the browser: its session, the pages that change a row, and the lists; then
`StartingGrid`, the abstract specification of registrations, with its refinement;
row locks and the absence of circular waits; and the points of the standings.

What is left: the widths of the time columns, the audit log of all services as a
sequence with `occurred_at`, and the fields of the forms.

## 3. Modules

    RaceStore                tables, locks, constraints, clock
      RacesService           \
      RegistrationsService    > one module per service, each EXTENDS RaceStore
      ResultsService         /
      RosterService          CompetitorsService and TeamsService
        RaceSystem           races, registrations, results: fairness, properties
          MCLifecycle        instances for TLC
          RaceSystemProofs   proof: types, then locks
            RaceRulesProofs  proof: results, refinement of ResultBook, capacity,
                             windows, refinement of StartingGrid, waits, schedules
        RosterSystem         roster and entries; implements RegistrationsService
          MCRoster           instances
          RosterProofs       proof: memberships, team maximum, history, types,
                             validation of entries, refinement
    ResultBook               what ResultsService promises
    StartingGrid             what RegistrationsService promises

    UserProfiles             provisioning, status changes    MCUserProfiles
      ProfileProofs          proof: creation once, chain of status events

    AccessPolicy             roles of handlers, guards, calls of the browser
      Pages                  what every page reads, does and links to
        ClientSession        session, gates, API client      MCClientSession
          ClientSessionProofs  proof: links against gates, pages against guards
        PageSession          cache, dialogs, mutations       MCPageSession
          PageSessionProofs  proof: one request, own writes, promises of dialogs

    ListQueries              addresses, queries, DTOs of the lists
    Standings                points and ranks
      StandingsProofs        proof: points decide positions
      ListPages              a list in use; EXTENDS both     MCListPages
        ListPagesProofs      proof: addresses, walks over pages, positions

### The race day: RaceStore, the three services, RaceSystem

`RaceStore`. Variables are tables: `race`, `registration`, `result` (functions
from keys to rows), `raceLock` and `registrationLock` (who holds a row
`FOR UPDATE`), the newest audit event of each row (`raceAudit`,
`registrationAudit`, `resultAudit`) and `now`. Rows keep the columns some rule
reads. A registration is keyed by its race and its participant because the
migration indexes that pair uniquely and nothing deletes a registration; a
result is keyed like its registration for the same reason. What the schema
refuses is one operator per constraint: `ScheduleCheck`,
`StartingPositionIndex`, `FinalPositionIndex`, `DeleteRestricted`.
`NeverCreated` and `Deleted` tell an id that was never used from one whose row
is gone; ids are never reused by `create`.

Each service has a table of *slots* (`raceRequest`, `registrationRequest`,
`resultRequest`). A slot runs any number of requests one after the other; its
`at` names the statement the request runs next, the rest are the handler's
local variables. One action is one statement together with the synchronous code
that follows it up to the next `await`:

| Code | Actions |
|---|---|
| `RacesService.create` | `CreateRace`, `AuditRace` |
| `update` | `UpdateRace`, `LoadRace`, `WriteRace` (or `InsertRace`), `AuditRace` |
| `updateStatus` | `UpdateStatus`, `CountApproved`, `CountResults`, then as update |
| `remove` | `RemoveRace`, `CheckRegistrations`, `DeleteRace` and `AuditRace`, or as update |
| `RegistrationsService.create` | `LockRaceForEntry`, `ValidateEntry`, `InsertEntry` |
| `approve` | `LockRegistrationForApproval`, `LockRaceForApproval`, `CheckApproval`, `CommitApproval` |
| `reject`, `cancel` | `RejectRegistration`, `CancelRegistration`, `LoadRegistration`, `WriteRegistration`, `AuditRegistration` |
| `ResultsService.create` | `LockRaceForResult`, `ValidateResult`, `CommitResult` |
| `update` | `ReadResultForCorrection`, `LockRaceForCorrection`, `ValidateResult`, `CommitResult` |

A handler that throws before it has written anything leaves no trace, so a
request that its first check refuses is not begun. The `Abandon...` actions
are the failures: at any statement the process, its connection or the statement
may fail; an open transaction rolls back (`Rollback...` releases its locks), and
what was committed stays.

`save` of an entity with an id is two statements, as TypeORM runs it: a SELECT
of the row (`Load...` computes the columns that differ, `dirty`), then an UPDATE
of those columns (`Write...`, which waits for the row's lock), or an INSERT when
the row has gone (`InsertRace`).

Abstractions, beside columns no rule reads:

- `approve` counts approved registrations and looks for the position in two
  statements; `CheckApproval` is one, because both run under the race lock that
  every approval holds, and a `reject` or `cancel` between them only lowers the
  count. `ValidateResult` likewise merges the reads of a transaction that holds
  the race lock.
- The last write of a transaction, its audit event and COMMIT are one action:
  nothing of them is visible before COMMIT.
- A SELECT ... FOR UPDATE that is followed by a refusal takes and frees the lock
  in one step.
- Columns such as `performedBy` and the notes do not occur, so a `save` that
  would change only those sets nothing in the model.
- In `RegistrationsService` the eligibility of a participant is a free choice;
  `RosterSystem` decides it.
- Times and positions are small naturals, and 0 stands for null (the DTOs
  refuse 0 where null is possible).

Two abstract specifications say what a service promises as one variable that
changes in single steps. `ResultBook` is the table of results: a `Put` of a row that
ranks with its rivals. `StartingGrid` is the table of registrations beside a
`capacity` that its environment sets at will (`Organise`): an entry is entered while
its race takes entries, approved once, from pending, within the capacity and at a
position nobody has, and ended, after which it never starts. `RaceSystem` maps the
first to `result`, and the second to `registration` and to `Admitted`, which is
`maxParticipants` of a race that is open for registration and 0 of any other.

### The roster: RosterService, RosterSystem

The two services are written alike, so `RosterService` has one action for a
statement of both: `status` is the status column of competitors and teams,
`membership` counts the rows of `team_members` for a team and a competitor and
says whether the last is active, `teamLock` and `membershipLock` are the rows
held `FOR UPDATE`, `rosterRequest` the slots.

| Code | Actions |
|---|---|
| `create` | `CreateCompetitor`, `CreateTeam`, `AuditParticipant` |
| `update`, `updateStatus` | `UpdateCompetitor`, `UpdateTeam`, `UpdateCompetitorStatus`, `UpdateTeamStatus`, then `LoadParticipant`, `WriteParticipant` (or `InsertParticipant`), `AuditParticipant` |
| `remove` | `RemoveCompetitor`, `RemoveTeam`, `CheckHistory`, then `DeleteParticipant`, or as update, `AuditParticipant` |
| `addMember` | `AddMember`, `FindCompetitor`, `CountMembers`, `JoinTeam` |
| `removeMember` | `RemoveMember`, `LeaveTeam` |

A team is loaded with its memberships and its save compares those too: a
membership that has been added since would be taken out of the team, which
`team_id NOT NULL` refuses (`orphans`, `NoRowTakenOut`), so such a save fails.

`RosterSystem` runs these beside `RegistrationsService.create`, whose
`ValidateEntry` becomes the reads of `validateIndividual` and `validateTeam`:
`ReadParticipant` (kind of race, status, active members), `CheckDuplicate`,
`ReadMemberships`, `CheckOverlap`; and the INSERT meets the participant's
foreign key (`InsertValidatedEntry`). `EntriesRefineRegistrations` states that each of
these steps is a step of `RegistrationsService`, so what is proved there of
entries holds here. Races do not change in this composition; `RaceSystem` has
that part.

### User profiles: UserProfiles

`status` is the table, `creations` and `trail` are the audit events of a
profile, `profileLock` its row lock. A request is provisioned first
(`FindProfile`, `CreateProfile` which the index on the subject may refuse,
`RecordCreation`, `RereadProfile`), then `/users/me` answers, a guarded handler
runs (`RunOperation`: of a handler of another service only its audit event
matters here), or `updateStatus` runs (`LockProfile`, `AuditChange`). Every event
needs a share of its actor's row, withheld while another transaction holds it
`FOR UPDATE`; `AbortDeadlocked` is PostgreSQL aborting one of a circle of
waiters, `Fail` any other failure.

### The browser: AccessPolicy, Pages, ClientSession, PageSession

`AccessPolicy` has the roles that each handler of each controller requires, the
guards and the handler behind each method of the browser's `ResourceApi`.
`Pages` has, for each page, the calls it makes, the operations it offers and the
links it shows for a user's roles and the status of the row. Neither has state.

`ClientSession` is one tab: `auth` (AuthContext), `token` and `refresh` (the
Keycloak adapter and the token request its callers share), `place` (the
router), `calls` (slots for calls in flight), and outside it `account`, which
changes at any time. `InitializeKeycloak` and `LoadSession` are the bootstrap;
`Destination` composes the five gates of `RootApplication` as they are nested;
`TokenKept`, `BeginExchange`, `TokenExchanged`, `TokenRefused` are
`getFreshAccessToken`; `Answer` is the backend's answer by `AccessPolicy`. Any
address may be typed, and every link of `Pages` followed.

`PageSession` is one of the six pages that change the row they show (race,
competitor, team, user, registration, result). `row` is the database's row with
a version; `cache` and `fetch` are React Query's view of it; `dialog`, `panel`,
`started` (`confirmStartedRef`) and `busy` (`isMutating` *as last rendered*) are the
component; `requests` are its mutations; `acknowledged` is a history variable.
Other users change the row, answers are lost before or after the service has
acted, the user leaves and returns. What the service makes of an operation is
`Verdict`: the statuses a row may have afterwards. A request is `sent`,
`answered`, then `refreshing` while its mutation awaits the invalidated query.

- Queries that fail are retried by React Query; the retries are folded into the
  failure of the last.
- A status that is selected and not yet applied is like a dialog still open.
- Other users, leaving and refetching wait until the page has rendered
  (`Rendered`): each commutes with rendering, so nothing is lost by the order.

### Lists and standings: ListQueries, ListPages, Standings

`ListQueries` translates, for each of the nine lists, `readQuery` (address to
query), `updateQuery` (query to address, with the values it omits), the options
of the controls and the DTO of the endpoint. `Standings` is the SQL of
StandingsService: points, aggregation, `DENSE_RANK`. `ListPages` is a list in use:
`Choose`, `Clear`, `ClearAll`, `Submit` (audit), `SwitchView` (standings), `Paginate`,
`TypeAddress`, the API's `Answer` (any order its ORDER BY allows), and `ChangeRows`
by others. `asked`, `moved` and `seen` are what the properties remember (`Follow`);
so is `asOf`, the number of changes the tables had seen when an answer was read. The
operators `@@` and `:>` are defined in `ListQueries` as the module `TLC` defines
them, because the proof system does not know those.

The lists are `useQuery` with the query in its key, so React Query keeps the answers
(`cache`; `Held` is what it has of every query, the one on the screen included).
`Ask` is the change of key: an answer that is held is shown at once, however old,
and a fetch that nothing waits for is aborted. An answer may then be shown
for any length of time, also after the tables have changed, and be read again
(`Answer`) or not: `staleTime` decides when a read is due, and the model leaves all
times possible. `gcTime` is `Collect`. Loading the application anew (`TypeAddress`)
empties the cache, the browser's history does not. The standings have two queries,
one for each view, of which only the visible one is enabled; what the other had
asked before the tab was switched still arrives (`AnswerBehind`). A call that fails
shows an error in place of rows, until it is repeated; as no property is about
that, the lists' calls do not fail here.

Rows are members of two samples per list, so that two of three rows tie in every
order; a search is the length of its text; a date is an instant in the DTO's
format or one only `Date` parses.

## 4. Properties that hold, and the runs that check them

| Run | Instance | Shows |
|---|---|---|
| `lifecycle` | all three services, one slot each, from an empty store | `TypeOK`, `NoCircularWait`, `ResultsOnlyDuringOrAfterRace`, `ImplementsStartingGrid` |
| `contention` | two registration and two result slots, from an open race (capacity 1 or 2) or a race in progress | `StartingPositionsUnique`, `ApprovedHavePosition`, `ApprovalWithinCapacity`, `GridIsStable`, `WinnerIsFastest`, `ValidatedOutcomeStands`, `ImplementsResultBook` |
| `organisers` | two organiser slots, one registration slot, three schedules | `NoOrphanRegistration`, `ScheduleConsistent` |
| `liveness` | one organiser, two registration and two result slots, one participant | `RequestsFinish` |
| `roster` | two competitors and two teams, two roster and two entry slots, an open MIXED race | `OneActiveTeam`, `TeamsWithinMaximum`, `HistoryKeepsItsRows`, `JoinsActiveTeam`, `EntriesDisjointAsRead`, `EntriesRefineRegistrations`, `TypeOK` |
| `profiles` | two users, one or both administrators, two requests, two changes of a profile | `ProvisionedOnce`, `TrailExplainsStatus`, `RequestsFinish` |
| `session` | any role or none, two calls, two events outside the tab | `LinksLeadToPages`, `ForbiddenIsNews`, `RedirectsSettle`, `CallsEnd` |
| `lists` | nine lists of three rows, pages of one or two, two books of results, one answer kept beside the one shown, one change by others | `AddressKeepsQuery`, `QueriesAccepted`, `WalkShowsAll`, `EmptyMeansNothingFits`, `PositionsAgree`, `ScoresDecide` |
| `pages` | six pages, one or two requests in flight, one or two changes of the row | `ConfirmedOnce`, `ReadYourWrites`, `RefusedOnlyIfOutdated`, `DoesWhatItSaid`, `BusyEnds`, `LeavesAfterRemoval` |

### Bounds, and why they are enough

*Race day.* Races never interact in any rule, so every run has one race. Two
participants and two positions are the least that make uniqueness, capacity and
ranking mean something, and two slots of a service are the least that overlap;
starting positions, final positions, times and penalties take the one or two
values needed to collide or differ. The clock has the values before and at the
registration deadline where a run needs both. Participants are interchangeable,
so the safety runs use them as a symmetry set. A run without all services leaves
out those that cannot act on what it asks about, and starts at a state `Spec`
reaches with nothing in flight (`BusySpec`: registration is open, or the race is
in progress with all approved).

*Roster.* `SmallSpec` starts with two active rows, one that is still to be created
and one that has been deleted, whichever they are. At most two requests overlap
(`TwoInFlight`; any two, of either service), one row at a time is not active
(`OneAway`), and a second entry is checked but not made (`OneEntry`): these are
state constraints, so the actions that lead just beyond them are still checked.
A team takes one member, so a second addition meets the maximum. `MaxStints` is 1;
audit events are left out of the fingerprint (`VIEW`), as nothing reads them.

*Profiles.* Two administrators are the least who change each other; two requests
the least that deadlock; two changes put a profile back where it was.

*Session.* Calls interact only through the token request, so two are enough; two
outside events reach, for instance, an expired token after a change of roles.

*Lists.* Three rows in pages of one need three pages; two rows of one sample tie.
An address holds one parameter at a time beside the page (`MaxChosen`), because each
is read and written on its own, and the cache makes every state one of pairs of
queries. One answer is held beside the one on the screen (`MaxCached`), which is
enough for a query to be left, outdated and asked again, and for two answers to
disagree. The table starts with one content and others are reached by a change;
typed addresses hold a page past the end, an unreadable size, a value of another
list, a search that is cut or a loose date. `MaxSize` is 3 in place of 100.

*Pages.* Two requests overlap where a page lets them (a dialog that is reopened
while its request is on its way); one suffices on the pages whose removal or
status change leaves nothing to ask twice. A change by another user and the
page's own need a second version of the row only where both can happen to rows
with two statuses; elsewhere the first change already outdates what is shown.

`TypeOK` of `ClientSession`, `ListPages`, `PageSession` and `UserProfiles` says what
their variables hold, for the reader; the runs check the properties above.

Deadlock is checked in `profiles` and `pages`. It is not in the others: an API
without a request to serve may stop, and with one race id, a bounded clock or
bounded outside events it does.

### What the properties say, in the terms of the code

- An approval and an entry take effect only in a race that is open *at the
  commit*, though organisers write the race without locking it: their UPDATE
  waits for the row lock the transaction holds.
- A stale `reject` or `cancel` never breaks the grid. It may restore an old
  status and an old position, but `save` writes both columns or the index of
  positions refuses, so approved entries keep one position of their own and
  pending ones have none.
- `remove` looks for registrations long before it deletes; it is the foreign
  key that keeps every registration's race.
- Two edits of a draft may leave a row that mixes their schedules; the CHECK of
  the migration keeps the mixture consistent.
- What a result request has validated is still true when it commits, so the
  unique index never refuses what the service accepted, and every sequence of
  results and corrections is a behaviour of `ResultBook`: one variable, one
  step per result, checked against the rivals of the moment.
- In the same sense the registrations are a `StartingGrid`, though two of the
  four operations open no transaction and organisers write races beside them: a
  stale save can rewrite an entry that has ended, even restore its position, and
  never makes it pending or approved again.
- Requests wait for one another's rows and never in a circle, although approve
  takes the registration before the race and a result the race before a share of
  its registration: the one registration is pending, the other is not
  (`NoCircularWait` forbids any chain of three waits, which a circle contains).
- A result is written only during or after its race. That none exists *before*
  its start is more than the code gives: a stale draft edit can put a race back
  to an earlier status (section 5) once results exist.
- One active membership is kept by the partial unique index and not by the
  check in `addMember`, because two teams have two locks. The maximum of a team
  is kept by its lock, and so is the rule that members join active teams:
  `updateStatus` takes no lock, but its UPDATE waits for `addMember`'s.
- A team and one of its members are not entered by two overlapping requests,
  because both hold the race row; what the validation has read of the roster may
  be stale at the commit (section 5), what it has read of entries is not.
- A second administrator's decision is made on what the first has left, so the
  events of a profile form a chain; without the lock they would not.
- A backend refuses a call of a page as forbidden only for what has changed
  since the session was read: pages, gates and controllers agree on the roles.
- A control never asks for more, or for something else, than the address
  carries; the only query a typed address makes the API refuse is an audit date
  that `Date` parses and the DTO does not (`QueriesAccepted` names it).
- In the standings two answers give a participant one position, whatever each was
  filtered, searched and sorted by, unless the results changed between them; and
  an answer places nobody before one who won no fewer points in any completed race
  and more in one, unless a change of the results has outdated it.
- A list answered from the cache may be older than a change by another user, empty
  or incomplete; `WalkShowsAll` and `EmptyMeansNothingFits` speak of walks whose
  answers are all of the tables as they are, wherever they came from. A walk that
  meets an outdated answer is lost, until page 1 is shown as the tables are.
- A detail page shows its own acknowledged change once nothing is on its way:
  invalidation takes the place of an older read.
- The dialog of a user takes its text from the profile on the screen and submits
  the status chosen before; when they differ, the service refuses, so nothing
  happens that the dialog did not say.

### Liveness and fairness

`RequestsFinish` (race day): whatever has begun ends. `Fairness` is strong
fairness of the next statement of each request: Node.js runs every callback
that is ready, and PostgreSQL queues the waiters of a row, so a request whose
lock is freed again and again gets it. Weak fairness would not do, because a
waiting statement is disabled whenever another transaction holds the row. No
fairness is given to clients (no request need be sent), to failures or to the
clock. The run has one participant, which is what makes all requests want the
same rows.

`RequestsFinish` (profiles): the same, and `AbortDeadlocked` is one of the steps,
because PostgreSQL ends every deadlock after its timeout.

`session`: weak fairness of the bootstrap, of React's redirections, of the token
request and of each call's answer (`fetch` resolves or rejects). Nobody has to
click. `RedirectsSettle` says the gates reach a page that stays, `CallsEnd` that no
waiter is forgotten.

`pages`: weak fairness of rendering, of the query and of each request's answer and
arrival; a request may always fail instead. `BusyEnds` and `LeavesAfterRemoval` then
hold though the query of a removed row fails or is cancelled.

## 5. Where the code does not do what a document says

Each of these runs checks one property that quotes a document, and TLC's
counterexample is a real schedule of requests, without any failure.

| Run | Property | Counterexample |
|---|---|---|
| `doc_capacity` | `CapacityRespected` | A draft edit that lowers `maxParticipants` is read, the race is opened and filled, the edit is saved. (Its approvals were within capacity: `ApprovalWithinCapacity` holds.) |
| `doc_completion` | `CompletedRaceHasAllResults` | A cancel begun before the race closes is saved after its participant has a result; the counts of `updateStatus` then agree while another approved participant has none. |
| `doc_double_entry` | `NobodyEntersTwice` | A competitor enters a race alone and then joins a team which has entered it, or enters it while the addition is in flight. |

The same stale saves have further consequences, visible in the actions named
here and left without a run of their own:

- Two status changes read one race and the later save wins, so a CANCELLED or
  COMPLETED race takes another status (`UpdateStatus`, `WriteRace`), although
  `docs/business-rules.md:96` calls these terminal.
- `cancel` decides on an open race and saves after it has closed
  (`CancelRegistration`, `WriteRegistration`), against `docs/business-rules.md:113`;
  and of `reject` and `cancel` on one registration the later save replaces the
  earlier terminal status, against line 120.
- RacesService, CompetitorsService and TeamsService record their event after
  the row has committed, in a transaction of its own, and a failure in between
  loses it (`Abandon...` before `Audit...`), against `docs/database-model.md:333`;
  `findOrProvision` likewise (`Fail` before `RecordCreation`).
- A correction copies its previous values before it waits for the race lock, so
  of two corrections the second records values it has not replaced
  (`ReadResultForCorrection`).
- A request whose guard has passed completes although its profile is disabled
  meanwhile (`RunOperation`, `AuditChange`); so two administrators can disable each
  other; only self-disabling is refused (`SelfDisable`).

No document contradicts this one: `save` of a race, competitor or team that another
request deleted meanwhile inserts it again (`InsertRace`, `InsertParticipant`).

## 6. Proofs

TLC's instances are small; these theorems hold for every set of races,
participants, positions, times and request slots. They assume
`StoreAssumption`: participants are finite in number, the numeric constants
are naturals in the ranges the DTOs accept, and request identifiers are
distinct from one another and from `Free`. Those of the roster add
`RosterAssumption` (a participant is a competitor or a team, a team takes one
member or more) and `RaceTypeAssumption`, those of the profiles need only
`UserProfilesAssumption`. In the browser, `ClientSessionAssumption` says that the
account's roles are roles of the application; `BoundsAssumption` and
`KindsAssumption` that slots are numbered and the kinds of rows are those of the
six pages; `ListQueriesAssumption` that the sizes on offer are within what the DTOs
accept and contain the default, and that there is a page 1; `ListPagesAssumption`
that a list has finitely many rows, each like one of its samples when the list is
opened, a book finitely many results, and those that are FINISHED a time. The bounds
among the constants (`MaxStints`, `MaxChanges`, `MaxRequests`, `MaxVersion`,
`MaxChosen`, `MaxCached`, `MaxEdits`, `LastPage`) are any numbers, so they bound
nothing here.

| Theorem | Module | States |
|---|---|---|
| `TypeCorrect` | `RaceSystemProofs` | `Spec => []TypeOK` |
| `LocksAlwaysHeld` | `RaceSystemProofs` | a request holds the locks of the part of its transaction it is in |
| `OutcomeStandsWhenSaved` | `RaceRulesProofs` | `Spec => []ValidatedOutcomeStands` |
| `ImplementsBook` | `RaceRulesProofs` | `Spec => ImplementsResultBook` |
| `LocksNeverLeak` | `RaceSystemProofs` | whoever holds a row is in the part of a transaction that took it |
| `BookStaysConsistent` | `RaceRulesProofs` | the abstract book always ranks consistently |
| `WinnerAlwaysFastest` | `RaceRulesProofs` | `Spec => []WinnerIsFastest` |
| `ApprovalsFit` | `RaceRulesProofs` | `Spec => ApprovalWithinCapacity` |
| `ApprovalsChecked` | `RaceRulesProofs` | `Spec => ApprovalFromPendingWhileOpen`, a guard of `StartingGrid` in the terms of the tables |
| `EntriesOnlyInOpenRaces` | `RaceRulesProofs` | `Spec => EntryOnlyWhileOpen`, likewise |
| `GridStaysStable` | `RaceRulesProofs` | `Spec => GridIsStable` |
| `ImplementsGrid` | `RaceRulesProofs` | `Spec => ImplementsStartingGrid` |
| `GridStaysConsistent` | `RaceRulesProofs` | on the abstract grid positions are unique and follow the status |
| `EndedNeverStarts` | `RaceRulesProofs` | `Spec => Grid!EndedForGood`: what was rejected or cancelled is never pending or approved again |
| `PositionsFollowStatus` | `RaceRulesProofs` | `Spec => []ApprovedHavePosition` |
| `PositionsNeverShared` | `RaceRulesProofs` | `Spec => []StartingPositionsUnique` |
| `RegistrationsKeepRaces` | `RaceRulesProofs` | `Spec => []NoOrphanRegistration` |
| `WaitsNeverCircular` | `RaceRulesProofs` | `Spec => []NoCircularWait` |
| `ResultsKeepToTheirRace` | `RaceRulesProofs` | `Spec => ResultsOnlyDuringOrAfterRace` |
| `SchedulesStayConsistent` | `RaceRulesProofs` | `Spec => []ScheduleConsistent` |
| `CompetitorsHaveOneTeam` | `RosterProofs` | `Spec => []OneActiveTeam` |
| `TeamsNeverOutgrowMaximum` | `RosterProofs` | `Spec => []TeamsWithinMaximum` |
| `HistoryIsNeverOrphaned` | `RosterProofs` | `Spec => []HistoryKeepsItsRows` |
| `OnlyActiveTeamsAreJoined` | `RosterProofs` | `Spec => JoinsActiveTeam` |
| `EntriesStayDisjoint` | `RosterProofs` | `Spec => EntriesDisjointAsRead` |
| `ValidationImplementsRegistrations` | `RosterProofs` | `Spec => EntriesRefineRegistrations` |
| `RosterTypeAlways` | `RosterProofs` | `Spec => []TypeOK`, of `RosterSystem` |
| `CreationsRecordedOnce` | `ProfileProofs` | `Spec => []ProvisionedOnce` |
| `TrailAlwaysExplains` | `ProfileProofs` | `Spec => []TrailExplainsStatus` |
| `LinksLeadToPagesAlways` | `ClientSessionProofs` | `Spec => []LinksLeadToPages` |
| `ForbiddenIsNewsAlways` | `ClientSessionProofs` | `Spec => ForbiddenIsNews` |
| `PageInvariant` | `PageSessionProofs` | the inductive invariant of a page that changes a row |
| `ConfirmedOnceAlways` | `PageSessionProofs` | `Spec => []ConfirmedOnce` |
| `ReadYourWritesAlways` | `PageSessionProofs` | `Spec => []ReadYourWrites` |
| `RefusedOnlyIfOutdatedAlways` | `PageSessionProofs` | `Spec => RefusedOnlyIfOutdated` |
| `DoesWhatItSaidAlways` | `PageSessionProofs` | `Spec => DoesWhatItSaid` |
| `AddressKeepsQueryAlways` | `ListPagesProofs` | `Spec => []AddressKeepsQuery` |
| `QueriesAcceptedAlways` | `ListPagesProofs` | `Spec => []QueriesAccepted` |
| `WalkShowsAllAlways` | `ListPagesProofs` | `Spec => []WalkShowsAll` |
| `EmptyMeansNothingFitsAlways` | `ListPagesProofs` | `Spec => []EmptyMeansNothingFits` |
| `PositionsAgreeAlways` | `ListPagesProofs` | `Spec => []PositionsAgree` |
| `MorePointsRankHigher` | `StandingsProofs` | who won no fewer points in any race, and more in one, has the better position |
| `ScoresDecideAlways` | `ListPagesProofs` | `Spec => []ScoresDecide` |

The argument, bottom up:

- **Types.** `TypeOK` is not inductive: a `save` of a registration that is not
  there would write half a row. `TypeInv` adds `SavesExist` (a request of
  approve, reject or cancel names a registration that exists), which is kept
  because registrations are never removed. A count is a number because a race
  has finitely many entries (`EntriesOfFinite`).
- **Locks.** `LockInv` adds `LocksHeld`: request `q` in the protected part of its
  transaction holds the row. It is inductive because a step takes a lock only
  when it is free and frees only its own (`LocksRespected`), so nobody else's
  claim is disturbed (`LocksHeldStep`), and the acting request ends up with what
  it claims. Failures are no exception: a rollback ends the claim with the lock.
- **Results.** `ResultInv` adds `SavesStand`: a request about to save has an
  outcome that is valid now. Only a commit changes results, and by `LocksHeld`
  two requests about to save are on different races (`SavesApart`), so a commit
  leaves the other's outcome valid. Then a commit is a `Put` of `ResultBook`
  (`CommitIsPut`), every other step leaves the book alone, and the refinement
  follows.
- **The winner.** In the book, ranking consistently is symmetric, so a row that
  ranks with its rivals when it is put keeps the whole race consistent
  (`RankingStep`); `WinnerIsFastest` follows through the refinement.
- **Registrations.** `RegistrationInv` adds `ChecksHold`: what a request has
  checked is still so. The race of an entry or an approval is open, the
  registration under approval is pending, and when an approval is about to
  commit there is room for it. It is inductive because a race that exists
  changes only while nobody holds its row (`RaceChanges`), and a registration
  only by one of three statements (`OnlyWritesWrite`), none of which touches
  what another request holds locked (`WriteSparesOthers`). `reject` and `cancel`
  lock nothing until they write; what saves the invariant there is its last
  part: their entity ends the registration, and if their `save` found no
  difference in the status then the row had ended already, so no stale save
  revives one. `RegistrationChanges` then says what one step can do to a
  registration, and each theorem reads it off. Capacity needs one count more: an
  approval adds one entry to a set that had room (`ApprovalTakesOnePlace`).
- **The grid.** `RegistrationChanges` and `NewPositionIsFree` are what a step of
  `StartingGrid` asks (`ChangeIsGridStep`); a step that changes no registration
  changes at most what races admit, which is `Organise` or a stutter (`GridStep`).
  On the grid itself two small arguments suffice: a position is taken only while
  nobody has it (`ConsistentStep`), and no action leaves `Ended`. So
  `PositionsFollowStatus`, `PositionsNeverShared` and `EndedNeverStarts` are proved of
  the grid and follow for the code by refinement.
- **Waiting.** `LocksInUse` is the converse of `LocksHeld`: who holds a row is in the
  transaction that took it. `Decided` adds that the registration a save of a
  result is about is approved or has ended, which `RegistrationChanges` keeps; so
  nobody holds that registration, because approve holds pending ones only, and the
  save never waits (`SavesNeverWait`). Hence a holder of a race waits for nobody
  (`RaceHoldersGoOn`), and who waits while being waited for is an approval that
  waits for its race (`WaitsWhileWaitedFor`): a chain ends after two waits.

- **The phase of a race.** `PhaseInv` adds to `ResultInv` that a request past its
  lock has the race in the phase it asked for, and that a correction has a result
  to correct. It stays, because a race with a lock does not change (`RaceChanges`)
  and a result is replaced, never removed (`ResultsNeverRemoved`).
- **The schedule.** `ScheduleInv` says of every race in the memory of a request
  what `ScheduleConsistent` says of the table. It is needed for `InsertRace`, which
  puts such a race back; an UPDATE of some of its columns is left to the CHECK.
- **The roster.** `RosterInv` joins the three guarantees with what makes them
  inductive: an addition holds its team and the team is active (`TeamHeld`), a
  place that was counted is still there (`HasRoom`), and what is about to be saved
  is a status of its kind, so a save never makes a row look deleted (`SavesLive`).
  A step that writes rows is judged by two facts (`RowStep`): it takes no team from
  another request, and it deletes no row with a history. `JoinKeeps` is the
  heart: the new member takes the place that was counted because two additions
  about to insert hold different teams, and the index keeps it the only active
  one. An entry adds history only of a participant that exists
  (`EntryKeepsRoster`).
- **Validated entries.** `EntryInv` says of each request what its reads of the race
  still tell it (`StillFresh`). Others write only to races they hold
  (`WritesOwnRace`), so its own race stays as read (`OthersStayFresh`); the roster
  may change, and nothing is claimed of it. `Accept` then is `ValidateEntry`, a
  refusal is a rollback, and the other reads change nothing that
  `RegistrationsService` has.
- **Profiles.** `ProfileInv`: whoever records a creation is the only one who does,
  and a change holds a profile that has another status. A status then changes
  only by its creation, which the index admits once, or under the lock, where it
  adds one link to the chain (`ChainGrows`).

- **Types of the roster.** `TypeOK` bounds the rows of a membership by `MaxStints`.
  `StintInv` adds to `RosterInv` that an addition under way still finds room for its
  row (`StintLeft`), which nobody else takes while it holds the team, and that the
  memberships a save has loaded were once those of the table (`LoadedWithin`).
- **The session.** A link may be followed and a call be made at one time and the
  question asked at another, so `SessionInv` remembers why each was possible: the
  page behind a link admits the user (`LinkVisible`), a call in flight needs one of
  the user's roles (`CallsPermitted`), and before the session is known there is
  neither (`NothingYet`). It is inductive because the tables agree: for each page,
  what it shows its visitors leads to pages that admit them and calls handlers that
  they may call (`PagesAgree`). That lemma is where the links of `Pages`, the
  gates of the router and the roles of the controllers meet, page by page. Who is
  refused then has other roles in the token than in the session, or a disabled
  profile.
- **A page that changes a row.** `PageInv` says, part by part, what holds across
  answers that come late or not at all. Each copy of the row the page holds is the
  database's unless that has changed since (`RowsAreGenuine`); an operation was
  offered for the status of the version it was chosen on (`ChosenAsOffered`) and its
  dialog spoke of every outcome on that version (`PromisesHold`), so the service, when
  it meets the same version, accepts it and does what was said. The cache is as new
  as what was acknowledged, or marked for another read, or being read
  (`WritesAreSeen`). The request of a dialog keeps `started` set, and was sent by
  the only confirmation there is (`ConfirmationGuards`). Every other action leaves
  the version alone or raises it, which makes those claims vacuous.
- **Lists.** The nine lists differ only in tables. `TablesAgree` says of these tables,
  list by list, that every value a control writes is one the page reads back, that an
  omitted value is the one the page takes by default, and that the DTO accepts what
  the page reads, but for `LooseDate`. From it follow, for all lists at once, that
  reading what was written gives the query back (`ReadWhatIsWritten`) and that a query
  in the page's form is accepted (`CanonicalAccepted`). `ListInv` keeps the query in
  that form and equal to what was asked.
- **The answers held.** An answer in the cache stays what it was while its key, the
  tables and the query on the screen change around it. `HeldSound` says of each that
  it is `Sound`: it is of a version of the tables there has been, and of the present
  version only if the API could give it now. A change of the rows makes the second
  part vacuous, and `AskKeeps` and `AnswerHeld` show that asking, answering and
  collecting keep both. So an answer shown again that is not outdated is as good as
  a fresh one, and two of one version agree on positions, because each carries the
  rank among all participants (`AnswersRank`).
- **Walking the pages.** While every answer shown is of the tables as they are, `Walk`
  says that what has been seen fits and contains everything before the current page,
  come from the API or from the cache. It needs that two
  answers agree on the rows' places although each is an arbitrary order that the
  ORDER BY allows: since the id breaks ties, a row's place is the number of rows that
  come before it (`PlaceOfRow`), so there is one order (`OneOrder`). Next is offered
  only while rows remain, and every control returns to page 1, so a page past the
  end is reached only by typing its address.
- **Points.** `Standings` sums points over a set by taking one member after another.
  What holds of the sum over any finite set is shown without induction, from a
  smallest set of which it would not hold (`SmallestSet`): the sum does not depend on
  who is taken first (`TotalRemoves`), so the points of a participant are the sum of
  the points of the races (`PointsAddUp`), and race by race comparison decides
  (`PointsDecide`, `MorePointsRankHigher`).

Only model-checked:

- Every liveness property (`RequestsFinish`, `RedirectsSettle`, `CallsEnd`, `BusyEnds`,
  `LeavesAfterRemoval`): liveness under fairness is out of the prover's reach.

Every other safety and action property that a passing run checks is also proved.

## 7. Not modelled

- Field validation of the forms, layout and wording of the pages. The pages'
  rules on what may be done are in `Pages`; what a user types is not followed
  further than filters and searches.
- Queries of a page that changes a row, other than that of this row: their age is
  bounded by React Query's `staleTime`. Neither they nor the lists have a clock here.
  What the lists hold is modelled for any age.
- The audit log of races, registrations, results and the roster as a sequence
  with `occurred_at`: only the newest event of a row is kept.
- Widths: columns are unbounded naturals, and so the sum of two times and the
  OFFSET of a very large page number do not overflow.
- PostgreSQL beyond what section 3 names: index lookups, serialization of the
  log, and deadlock detection in the race services (no circle of row locks is
  reachable in them, as `NoCircularWait` says; `UserProfiles` has it).
- The signature, issuer and audience checks of a token (one bit, `valid`), and
  Keycloak beyond its session and tokens.
- The demonstration seed (inserts run by hand before any request), the
  configuration parser, the error filter, and deployment: no state or protocol
  of the program.
