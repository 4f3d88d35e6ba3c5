------------------------------- MODULE ListPages -------------------------------
(***************************************************************************)
(* A list of the browser application while its user filters, sorts and     *)
(* pages through it, types an address, and others change its rows.  React  *)
(* Query keeps the answers of the queries asked before, and shows them     *)
(* again when they are asked again, whatever has changed since.            *)
(*                                                                         *)
(* Every row of a list's table is like one of two samples: rows of one     *)
(* sample tie in every order, and the id decides between them.  The two    *)
(* standings list the participants of a book of results instead.           *)
(***************************************************************************)
EXTENDS ListQueries, Standings

CONSTANTS
    Items,         \* the rows of the list's table, in the order of their ids
    Samples,       \* for each list, what its two samples hold in its columns
    Contents,      \* what the list's table holds when the list is opened
    Books,         \* books of results of the participants Items
    Addresses,     \* the addresses a user types, whatever they hold
    MaxChosen,     \* bound on the parameters an address holds at once
    MaxCached,     \* bound on the answers kept of queries not on the screen
    MaxEdits       \* bound on the changes other users make

ASSUME ListPagesAssumption ==
    /\ Items \subseteq Nat /\ IsFiniteSet(Items)
    /\ MaxChosen \in Nat /\ MaxCached \in Nat /\ MaxEdits \in Nat
    /\ Contents \subseteq [Items -> 0 .. 2]
    /\ \A b \in Books :
          IsFiniteSet(b) /\ \A r \in b : r.status = "FINISHED" => r.time \in Nat

VARIABLES
    list,      \* the list on the screen
    address,   \* the parameters in the address bar
    asked,     \* the query the last control or address asked for
    rows,      \* the server's table: each item's sample, 0 for no row
    book,      \* the server's results
    answer,    \* what the screen shows
    cache,     \* the answers kept of other queries
    moved,     \* the walk from page 1 is lost, or the rows have moved on it
    seen,      \* the items shown since page 1 was asked for
    edits      \* the changes other users made

vars == <<list, address, asked, rows, book, answer, cache, moved, seen, edits>>

-----------------------------------------------------------------------------
Standing == {"competitorStandings", "teamStandings"}

(* findAll, one per service: the columns of WHERE, and whether the query or  *)
(* the service chooses the order.                                            *)
RacesFindAll == [where |-> {"status", "type", "search"}, sorted |-> TRUE]
CompetitorsFindAll == [where |-> {"status", "type", "search"}, sorted |-> TRUE]
TeamsFindAll == [where |-> {"status", "search"}, sorted |-> TRUE]
UsersFindAll == [where |-> {"status", "search"}, sorted |-> TRUE]
RegistrationsFindAll == [where |-> {"status"}, sorted |-> FALSE]
ResultsFindAll == [where |-> {"status"}, sorted |-> FALSE]
AuditFindAll == [where |-> {"action", "entityType", "from", "to"}, sorted |-> FALSE]
GetCompetitors == [where |-> {"status", "type", "search"}, sorted |-> TRUE]
GetTeams == [where |-> {"status", "search"}, sorted |-> TRUE]

FindAllOf ==
    [races |-> RacesFindAll, competitors |-> CompetitorsFindAll, teams |-> TeamsFindAll,
     users |-> UsersFindAll, registrations |-> RegistrationsFindAll,
     results |-> ResultsFindAll, audit |-> AuditFindAll,
     competitorStandings |-> GetCompetitors, teamStandings |-> GetTeams]

(* What a row holds in a column against what the query asks of it.           *)
Fits(row, query, p) ==
    CASE p = "search" -> row.found
      [] p = "from" -> row.at >= query.from
      [] p = "to" -> row.at <= query.to
      [] OTHER -> row[p] = query[p]

Row(l, i) == Samples[l][rows[i]]

Present(l) ==
    {i \in Items : rows[i] # 0 /\ (l \in Standing => i \in Participants(book))}

Matching(l, params, query) ==
    {i \in Present(l) : \A p \in params \cap DOMAIN query : Fits(Row(l, i), query, p)}

(* ORDER BY.  What the query's field compares: the official position, or the *)
(* sample of the row.                                                        *)
Key(l, query, i) ==
    IF l \in Standing /\ query.sortBy = "position"
    THEN Ranked(book, Present(l))[i]
    ELSE rows[i]

Before(l, query, i, j) ==
    IF FindAllOf[l].sorted /\ query.sortOrder = "asc"
    THEN Key(l, query, i) < Key(l, query, j)
    ELSE Key(l, query, i) > Key(l, query, j)

(* Rows that tie come in any order, which may differ from answer to answer.  *)
TiesInAnyOrder(l, query, matching) ==
    {s \in [1 .. Cardinality(matching) -> matching] :
        \A m, n \in DOMAIN s : m < n => s[m] # s[n] /\ ~Before(l, query, s[n], s[m])}

(* A last criterion, the id, leaves one order (in the standings the official *)
(* position and the name come before it).                                    *)
Ordered(l, query, matching) ==
    {s \in TiesInAnyOrder(l, query, matching) :
        \A m, n \in DOMAIN s :
            m < n => Before(l, query, s[m], s[n]) \/ s[m] < s[n]}

CeilingOf(count, size) == (count + size - 1) \div size

(* skip and take. *)
PageOf(s, query) ==
    SubSeq(s, (query.page - 1) * query.limit + 1,
           Min({query.page * query.limit, Len(s)}))

(* The count of the standings comes with the rows: without one it is 0.      *)
TotalOf(l, items, matching) ==
    IF l \in Standing /\ items = <<>> THEN 0 ELSE Cardinality(matching)

Loading == [at |-> "loading"]

Refused == [at |-> "error"]

(* An answer, with the number of changes the tables had seen when the API    *)
(* read them.                                                                *)
Answered(l, query, items, matching) ==
    [at |-> "shown", items |-> items, page |-> query.page,
     totalPages |-> CeilingOf(TotalOf(l, items, matching), query.limit),
     position |-> IF l \in Standing THEN Ranked(book, matching) ELSE <<>>,
     asOf |-> edits]

Answers(l, query) ==
    IF ~Accepted(l, query) THEN {Refused}
    ELSE LET matching == Matching(l, FindAllOf[l].where, query)
         IN  {Answered(l, query, PageOf(s, query), matching) :
                 s \in Ordered(l, query, matching)}

Outdated(a) == a.at = "shown" /\ a.asOf # edits

-----------------------------------------------------------------------------
Query == Read(list, address)

(* useQuery, by the list and its query: the answers React Query holds.       *)
Held == (<<list, Query>> :> answer) @@ cache

(* The standings share search, order and paging.  The view behind the one on *)
(* the screen asks for nothing, but still waits for what it has asked.       *)
OtherView ==
    [competitorStandings |-> "teamStandings", teamStandings |-> "competitorStandings"]

OfBothViews(query) == Restrict(query, DOMAIN query \ {"status", "type"})

Behind(l, query) == {<<OtherView[v], OfBothViews(query)>> : v \in {l} \cap Standing}

TypeOK ==
    /\ list \in Lists
    /\ Cardinality(DOMAIN address \ {"page"}) <= MaxChosen
    /\ DOMAIN asked \subseteq DOMAIN ReadsOf[list].accepts \cup {"limit", "page"}
    /\ rows \in [Items -> 0 .. 2]
    /\ book \in Books
    /\ answer.at \in {"loading", "error", "shown"}
    /\ answer.at = "shown" =>
          Len(answer.items) <= asked.limit /\ answer.page = asked.page
    /\ Cardinality(DOMAIN cache) <= MaxCached
    /\ \A key \in DOMAIN cache :
          \/ cache[key].at = "shown" /\ cache[key].asOf \in 0 .. edits
          \/ key \in Behind(list, Query)
    /\ moved \in BOOLEAN
    /\ seen \subseteq Items
    /\ edits \in 0 .. MaxEdits

(* A list is opened from the sidebar.                                        *)
Init ==
    /\ list \in Lists
    /\ address = <<>>
    /\ asked = Read(list, <<>>)
    /\ rows \in Contents
    /\ book \in Books
    /\ list \notin Standing => book = CHOOSE b \in Books : TRUE
    /\ answer = Loading
    /\ cache = <<>>
    /\ moved = FALSE
    /\ seen = {}
    /\ edits = 0

-----------------------------------------------------------------------------
(* The query on the screen becomes another.  What it showed is kept, a fetch *)
(* nothing waits for is aborted, and a query whose answer is held shows it   *)
(* at once.                                                                  *)
Ask(l, query) ==
    LET key == <<l, query>>
        kept == {k \in DOMAIN Held \ {key} :
                    Held[k].at = "shown" \/ k \in Behind(l, query)}
    IN  /\ answer' = IF key \in DOMAIN Held THEN Held[key] ELSE Loading
        /\ cache' = Restrict(Held, kept)
        /\ Cardinality(DOMAIN cache') <= MaxCached

(* A walk through the pages begins with page 1, unless it was lost goes on   *)
(* with the next, and is lost by an answer older than the tables.            *)
Follow(lost, page, a) ==
    /\ moved' = ((page # 1 /\ lost) \/ Outdated(a))
    /\ seen' = IF moved' THEN {}
               ELSE (IF page = 1 THEN {} ELSE seen)
                    \cup (IF a.at = "shown" THEN Range(a.items) ELSE {})

(* A control asks for a query: its address is written, and the list shows    *)
(* what is held of the query it reads there, or waits for the answer.        *)
Navigate(l, query) ==
    /\ Cardinality(DOMAIN Write(l, query) \ {"page"}) <= MaxChosen
    /\ list' = l
    /\ asked' = query
    /\ address' = Write(l, query)
    /\ Ask(l, query)
    /\ Follow(moved, query.page, answer')
    /\ UNCHANGED <<rows, book, edits>>

(* The next query of a control.                                              *)
PatchedKeepingPage(query, patch) == patch @@ query

Patched(query, patch) == patch @@ [page |-> 1] @@ query

Choose ==
    \E p \in DOMAIN (ControlsOf[list] @@ CommonControls) :
        /\ list = "audit" => p = "limit"
        /\ \E v \in (ControlsOf[list] @@ CommonControls)[p] :
              Navigate(list, Patched(Query, p :> v))

Clear ==
    \E p \in Clearable \cap DOMAIN Query :
        Navigate(list, Patched(Restrict(Query, DOMAIN Query \ {p}), <<>>))

(* Limpiar: the address without parameters.                                  *)
ClearAll ==
    /\ list \in {"races", "competitors", "teams"}
    /\ Navigate(list, Read(list, <<>>))

(* The audit list's form: what its inputs hold replaces every filter.  A     *)
(* first date after the last is not submitted.                               *)
Submit ==
    /\ list = "audit"
    /\ LET Input(p) == {<<>>} \cup {p :> v : v \in AuditListControls[p]}
       IN  \E action \in Input("action"), entityType \in Input("entityType"),
             from \in Input("from"), to \in Input("to") :
              /\ from # <<>> /\ to # <<>> => from["from"] <= to["to"]
              /\ Navigate(list, action @@ entityType @@ from @@ to
                               @@ [limit |-> Query.limit, page |-> 1])

(* The tabs of the standings. *)
SwitchView ==
    /\ list \in Standing
    /\ Navigate(OtherView[list], Patched(OfBothViews(Query), <<>>))

(* Pagination: the buttons of a list that shows rows.                        *)
NextPage(a) == a.totalPages # 0 /\ a.page < Max({1, a.totalPages})

PreviousPage(a) == a.totalPages # 0 /\ a.page > 1

Paginated == answer.at = "shown" /\ answer.items # <<>>

Paginate ==
    /\ Paginated
    /\ \/ NextPage(answer) /\ answer.page < LastPage
             /\ Navigate(list, [page |-> answer.page + 1] @@ Query)
       \/ PreviousPage(answer) /\ Navigate(list, [page |-> answer.page - 1] @@ Query)

(* The API answers the query on the screen, and answers again when what was  *)
(* shown is older than staleTime: at any time, or never.                     *)
Answer ==
    /\ \E a \in Answers(list, Query) :
          answer' = a /\ Follow(moved, Query.page, a)
    /\ UNCHANGED <<list, address, asked, rows, book, cache, edits>>

(* What the view behind has asked is answered too.                           *)
AnswerBehind ==
    /\ \E key \in Behind(list, Query) \cap DOMAIN cache :
          \E a \in Answers(key[1], key[2]) : cache' = [cache EXCEPT ![key] = a]
    /\ UNCHANGED <<list, address, asked, rows, book, answer, moved, seen, edits>>

(* gcTime: an answer that no screen has shown for that long is dropped.      *)
Collect ==
    /\ \E key \in DOMAIN cache : cache' = Restrict(cache, DOMAIN cache \ {key})
    /\ UNCHANGED <<list, address, asked, rows, book, answer, moved, seen, edits>>

-----------------------------------------------------------------------------
(* An address that is typed loads the application anew; the browser's        *)
(* history also leads to it, and keeps what the application holds.           *)
TypeAddress ==
    /\ address' \in Addresses
    /\ asked' = Read(list, address')
    /\ \/ answer' = Loading /\ cache' = <<>>
       \/ Ask(list, asked')
    /\ Follow(TRUE, asked'.page, answer')
    /\ UNCHANGED <<list, rows, book, edits>>

(* Another user changes or removes a row, or a race is completed.  Who has   *)
(* results is not removed.                                                   *)
ChangeRows ==
    /\ edits < MaxEdits
    /\ edits' = edits + 1
    /\ \/ \E i \in Items, sample \in 0 .. 2 :
             /\ rows[i] \notin {0, sample}
             /\ list \in Standing => sample # 0
             /\ rows' = [rows EXCEPT ![i] = sample]
             /\ UNCHANGED book
       \/ /\ list \in Standing
          /\ book' \in Books \ {book}
          /\ UNCHANGED rows
    /\ moved' = TRUE /\ seen' = {}
    /\ UNCHANGED <<list, address, asked, answer, cache>>

Next ==
    \/ Choose \/ Clear \/ ClearAll \/ Submit \/ SwitchView \/ Paginate
    \/ Answer \/ AnswerBehind \/ Collect
    \/ TypeAddress
    \/ ChangeRows

Spec == Init /\ [][Next]_vars

-----------------------------------------------------------------------------
(* readQuery and updateQuery: what a control asks for is what the page reads *)
(* back from the address it wrote, whatever else the address holds, so no    *)
(* choice is lost and none is invented.                                      *)
AddressKeepsQuery == Query = asked

(* readQuery against the DTO of the endpoint: the one query the API refuses  *)
(* is an audit query with a typed date that Date parses and the DTO does not.*)
QueriesAccepted ==
    answer.at = "error" =>
        /\ list = "audit"
        /\ \E p \in {"from", "to"} \cap DOMAIN Query : Query[p] = LooseDate

(* What the controls above the list show, but for order and page.            *)
Filters == DOMAIN Query \ {"sortBy", "sortOrder", "page", "limit"}

(* Walking from page 1 to the last one shows every row that fits what the    *)
(* controls show, and no other, as long as every answer shown on the way is  *)
(* of the tables as they are, come from the API or from the cache: findAll   *)
(* orders rows that tie by their id.                                         *)
WalkShowsAll ==
    /\ ~moved /\ answer.at = "shown"
    /\ answer.items = <<>> \/ ~NextPage(answer)
    => seen = Matching(list, Filters, Query)

(* An empty list, which has no buttons to leave the page by, means that      *)
(* nothing fits the controls, unless a page was reached by an address or an  *)
(* answer shown since page 1 is older than a change of the rows: every       *)
(* control returns to page 1.                                                *)
EmptyMeansNothingFits ==
    ~moved /\ answer.at = "shown" /\ answer.items = <<>>
    => Matching(list, Filters, Query) = {}

(* Whatever is searched, filtered, sorted or paged, the answers the browser  *)
(* holds, on the screen or in its cache, give a participant one position,    *)
(* unless the results changed between them: runQuery ranks before it filters.*)
PositionsAgree ==
    \A key, other \in DOMAIN Held :
        LET a == Held[key]
            b == Held[other]
        IN  /\ key[1] = other[1] /\ key[1] \in Standing
            /\ a.at = "shown" /\ b.at = "shown" /\ a.asOf = b.asOf
            => \A i \in Range(a.items) \cap Range(b.items) :
                  a.position[i] = b.position[i]

(* The positions follow the races: who scored no less than another in each   *)
(* completed race, and more in one, stands before them, and a race that is   *)
(* not completed counts for nothing.  So says every answer that no change    *)
(* of the results has outdated, on whatever page and under whatever filter.  *)
Points(i, race) ==
    MapThenSumSet(PointsForResult,
                  {r \in book : r.of = i /\ r.race = race /\ r.completed})

ScoresDecide ==
    answer.at = "shown" /\ ~Outdated(answer) /\ list \in Standing =>
        LET Races == {r.race : r \in book}
        IN  \A i, j \in Range(answer.items) :
                /\ \A race \in Races : Points(i, race) >= Points(j, race)
                /\ \E race \in Races : Points(i, race) > Points(j, race)
                => answer.position[i] < answer.position[j]
=============================================================================
