----------------------------- MODULE ClientSession -----------------------------
(***************************************************************************)
(* One browser tab: AuthContext and the Keycloak adapter, the gates of the *)
(* router, and the API client whose calls share one token request.  Around *)
(* it, what the tab does not control: an administrator changes the user's  *)
(* roles or profile, the single sign-on session ends, tokens expire, calls *)
(* are answered late.                                                      *)
(***************************************************************************)
EXTENDS Pages, Naturals

CONSTANTS
    RoleSets,      \* the sets of roles the account may have
    Slots,         \* slots for the API calls of the tab
    MaxChanges     \* bound on the events outside the tab

ASSUME ClientSessionAssumption ==
    /\ RoleSets # {}
    /\ RoleSets \subseteq SUBSET AppRole
    /\ MaxChanges \in Nat

VARIABLES
    account,    \* outside: the user's roles and profile, the sign-on session
    changes,    \* how many outside events there have been
    token,      \* the access token of the adapter
    auth,       \* AuthContext: the session as the pages see it
    place,      \* the router: the page, how the user came, where to return
    refresh,    \* the token request the calls share
    calls       \* the API call of each slot

vars == <<account, changes, token, auth, place, refresh, calls>>

-----------------------------------------------------------------------------
(* The routes. *)
AdministratorPages ==
    {"/competitors/new", "/competitors/:id/edit", "/teams/new", "/teams/:id/edit",
     "/users", "/users/:id", "/audit", "/audit/:id"}

OrganizerPages ==
    {"/races/new", "/races/:id/edit", "/races/:raceId/registrations",
     "/results/:id/edit"}

OpenPages ==
    {"/", "/competitors", "/competitors/:id", "/teams", "/teams/:id", "/races",
     "/races/:id", "/races/:raceId/results", "/standings", "/profile"}

ApplicationPages == AdministratorPages \cup OrganizerPages \cup OpenPages \cup {"*"}

Routes == ApplicationPages \cup {"/login", "/access-denied", "/account-disabled"}

AdministratorPagesOnly(page) ==
    IF page \in AdministratorPages \cup OrganizerPages THEN Administrators ELSE AppRole

RequiredRole(page) ==
    IF page \in AdministratorPages THEN Administrators
    ELSE IF page \in OrganizerPages THEN Organizers
    ELSE AppRole

RaceStatuses == DOMAIN RaceStatusTransitions

(* The whole of a page over the data it may show.                            *)
ContentOf(page, roles) ==
    CASE page = "/" -> Dashboard(roles)
      [] page = "/races" -> Together({RaceList(roles, s) : s \in RaceStatuses})
      [] page = "/races/:id" -> Together({RaceDetail(roles, s) : s \in RaceStatuses})
      [] page = "/races/new" -> RaceCreateForm
      [] page = "/races/:id/edit" -> Together({RaceEditForm(s) : s \in RaceStatuses})
      [] page = "/races/:raceId/registrations" ->
             Together({RaceRegistrations(s) : s \in RaceStatuses})
      [] page = "/races/:raceId/results" ->
             Together({RaceResults(roles, s) : s \in RaceStatuses})
      [] page = "/results/:id/edit" -> Together({ResultEdit(s) : s \in RaceStatuses})
      [] page = "/competitors" -> CompetitorList(roles)
      [] page = "/competitors/:id" ->
             Together({CompetitorDetail(roles, s) : s \in DOMAIN CompetitorStatusTransitions})
      [] page = "/competitors/new" -> CompetitorCreateForm
      [] page = "/competitors/:id/edit" -> CompetitorEditForm
      [] page = "/teams" -> TeamList(roles)
      [] page = "/teams/:id" ->
             Together({TeamDetail(roles, s) : s \in {"ACTIVE", "INACTIVE"}})
      [] page = "/teams/new" -> TeamCreateForm
      [] page = "/teams/:id/edit" -> TeamEditForm
      [] page = "/standings" -> Standings
      [] page = "/profile" -> Profile
      [] page = "/users" -> UserList
      [] page = "/users/:id" ->
             Together({UserDetail(s, self) : s \in {"ACTIVE", "DISABLED"}, self \in BOOLEAN})
      [] page = "/audit" -> AuditList
      [] page = "/audit/:id" -> AuditDetail
      [] page = "*" -> NotFound

Content ==
    [page \in ApplicationPages |->
        [roles \in SUBSET AppRole |-> Together({Frame(roles), ContentOf(page, roles)})]]

-----------------------------------------------------------------------------
NoToken == [roles |-> {}, valid |-> FALSE, held |-> FALSE]

IssuedToken == [roles |-> account.roles, valid |-> TRUE, held |-> TRUE]

SignedOut(status) == [status |-> status, roles |-> {}, profile |-> "ACTIVE"]

Idle == [at |-> "idle"]

(* What a slot holds: the roles its endpoint requires, whether leaving the   *)
(* page aborts it, and, once it is sent, the token it carries.               *)
Call == [at : {"waiting"}, required : SUBSET AppRole, aborts : BOOLEAN]
        \cup [at : {"sent"}, required : SUBSET AppRole, aborts : BOOLEAN,
              bearer : [roles : RoleSets, valid : BOOLEAN, held : {TRUE}]]
        \cup [at : {"done", "forbidden", "unauthorized", "expired"}]

TypeOK ==
    /\ account \in [roles : RoleSets, profile : {"ACTIVE", "DISABLED"}, sso : BOOLEAN]
    /\ changes \in 0 .. MaxChanges
    /\ token \in [roles : RoleSets, valid : BOOLEAN, held : {TRUE}] \cup {NoToken}
    /\ auth \in [status : {"loading", "authenticated", "anonymous", "forbidden", "error"},
                 roles : SUBSET AppRole, profile : {"ACTIVE", "DISABLED"}]
    /\ place \in [page : Routes, came : {"typed", "link", "redirect"},
                  returnTo : Routes]
    /\ refresh \in {"none", "asked", "exchanging"}
    /\ calls \in [Slots -> Call \cup {Idle}]
    /\ refresh = "none" => \A c \in Slots : calls[c].at # "waiting"

Init ==
    /\ account \in [roles : RoleSets, profile : {"ACTIVE", "DISABLED"}, sso : BOOLEAN]
    /\ changes = 0
    /\ token = NoToken
    /\ auth = SignedOut("loading")
    /\ place \in [page : Routes, came : {"typed"}, returnTo : {"/"}]
    /\ refresh = "none"
    /\ calls = [c \in Slots |-> Idle]

(* The browser loads the application at a page: nothing of the tab remains.  *)
LoadAt(page) ==
    /\ token' = NoToken
    /\ auth' = SignedOut("loading")
    /\ place' = [page |-> page, came |-> "typed", returnTo |-> "/"]
    /\ refresh' = "none"
    /\ calls' = [c \in Slots |-> Idle]

-----------------------------------------------------------------------------
(* AuthContext.bootstrap: the adapter asks Keycloak for a session, then the  *)
(* backend is asked who the user is.                                         *)
InitializeKeycloak ==
    /\ auth.status = "loading" /\ ~token.held
    /\ IF account.sso
       THEN token' = IssuedToken /\ UNCHANGED auth
       ELSE auth' = SignedOut("anonymous") /\ UNCHANGED token
    /\ UNCHANGED <<account, changes, place, refresh, calls>>

LoadSession ==
    /\ auth.status = "loading" /\ token.held
    /\ LET status == OpeningStatus(token)
       IN  /\ auth' = CASE status = 200 ->
                              [status |-> "authenticated",
                               roles |-> ExtractRoles(token.roles),
                               profile |-> account.profile]
                        [] status = 401 -> SignedOut("anonymous")
                        [] status = 403 -> SignedOut("forbidden")
           /\ token' = IF status = 401 THEN NoToken ELSE token
    /\ UNCHANGED <<account, changes, place, refresh, calls>>

(* Keycloak or the backend cannot be reached.                                *)
BootstrapFails ==
    /\ auth.status = "loading"
    /\ auth' = SignedOut("error")
    /\ UNCHANGED <<account, changes, token, place, refresh, calls>>

-----------------------------------------------------------------------------
(* The gates: where each sends the browser instead of rendering its page.    *)
ProtectedRoute(page) ==
    CASE auth.status = "forbidden" -> "/access-denied"
      [] auth.status = "anonymous" -> "/login"
      [] OTHER -> page

AnonymousRoute(page) ==
    CASE auth.status = "forbidden" -> "/access-denied"
      [] auth.status = "authenticated" ->
             IF auth.profile = "DISABLED" THEN "/account-disabled" ELSE "/"
      [] OTHER -> page

DisabledProfileGateInverted(page) == IF auth.profile = "DISABLED" THEN "/" ELSE page

DisabledProfileGate(page) == IF auth.profile # "DISABLED" THEN "/" ELSE page

ActiveProfileGate(page) == IF auth.profile = "DISABLED" THEN "/account-disabled" ELSE page

RequiredRoleGate(page) ==
    IF auth.roles \cap RequiredRole(page) = {} THEN "/access-denied" ELSE page

(* RootApplication: the gates around each route, the outermost first.        *)
Destination(page) ==
    IF page = "/login" THEN AnonymousRoute(page)
    ELSE IF page = "/access-denied" THEN page
    ELSE IF auth.status # "authenticated" THEN ProtectedRoute(page)
    ELSE IF page = "/account-disabled" THEN DisabledProfileGate(page)
    ELSE IF ActiveProfileGate(page) # page THEN ActiveProfileGate(page)
    ELSE RequiredRoleGate(page)

Settled == Destination(place.page) = place.page

Shown == Settled /\ auth.status = "authenticated" /\ place.page \in ApplicationPages

Redirect ==
    /\ auth.status \notin {"loading", "error"}
    /\ ~Settled
    /\ place' = [page |-> Destination(place.page), came |-> "redirect",
                 returnTo |-> IF Destination(place.page) = "/login" THEN place.page ELSE "/"]
    /\ UNCHANGED <<account, changes, token, auth, refresh, calls>>

(* A link of the page, or of AccessDeniedPage.  A query that nobody observes *)
(* any more is aborted.                                                      *)
FollowLink ==
    /\ \E page \in IF Shown THEN Content[place.page][auth.roles].links
                   ELSE IF place.page = "/access-denied" /\ auth.status = "authenticated"
                        THEN {"/"} ELSE {} :
          place' = [page |-> page, came |-> "link", returnTo |-> "/"]
    /\ calls' = [c \in Slots |->
                    IF calls[c].at \in {"waiting", "sent"} /\ ~calls[c].aborts
                    THEN calls[c] ELSE Idle]
    /\ refresh' = IF \E c \in Slots : calls'[c].at = "waiting" THEN refresh
                  ELSE IF refresh = "asked" THEN "none" ELSE refresh
    /\ UNCHANGED <<account, changes, token, auth>>

(* The address bar, or the button of AuthUnavailablePage.                    *)
TypeAddress ==
    /\ changes < MaxChanges
    /\ changes' = changes + 1
    /\ \E page \in Routes : LoadAt(page)
    /\ UNCHANGED account

Login ==
    /\ place.page = "/login" /\ auth.status = "anonymous"
    /\ changes < MaxChanges
    /\ changes' = changes + 1
    /\ account' = [account EXCEPT !.sso = TRUE]
    /\ LoadAt(place.returnTo)

Logout ==
    /\ Shown \/ (Settled /\ place.page \in {"/access-denied", "/account-disabled"})
    /\ changes < MaxChanges
    /\ changes' = changes + 1
    /\ account' = [account EXCEPT !.sso = FALSE]
    /\ LoadAt("/login")

-----------------------------------------------------------------------------
(* createApiClient.request: a call first waits for the shared token request. *)
StartCall(c) ==
    /\ Shown
    /\ calls[c].at = "idle"
    /\ LET content == Content[place.page][auth.roles]
       IN  \/ \E call \in content.reads :
                 calls' = [calls EXCEPT ![c] =
                     [at |-> "waiting", required |-> RequiredRoles(call), aborts |-> TRUE]]
           \/ \E operation \in content.does :
                 calls' = [calls EXCEPT ![c] =
                     [at |-> "waiting", required |-> RequiredRoles(operation[1]),
                      aborts |-> FALSE]]
    /\ refresh' = IF refresh = "none" THEN "asked" ELSE refresh
    /\ UNCHANGED <<account, changes, token, auth, place>>

Sent(bearer) ==
    [c \in Slots |->
        IF calls[c].at = "waiting"
        THEN [at |-> "sent", required |-> calls[c].required, aborts |-> calls[c].aborts,
              bearer |-> bearer]
        ELSE calls[c]]

WaitersLeft == calls

(* The request for a token failed: so have the calls that waited for it.     *)
WaitersFail ==
    [c \in Slots |-> IF calls[c].at = "waiting" THEN [at |-> "expired"] ELSE calls[c]]

(* getFreshAccessToken: updateToken keeps a token that is valid for another  *)
(* 30 seconds and exchanges any other one, once, for all who wait.           *)
TokenKept ==
    /\ refresh = "asked" /\ token.held /\ token.valid
    /\ refresh' = "none"
    /\ calls' = Sent(token)
    /\ UNCHANGED <<account, changes, token, auth, place>>

BeginExchange ==
    /\ refresh = "asked" /\ token.held /\ ~token.valid
    /\ refresh' = "exchanging"
    /\ UNCHANGED <<account, changes, token, auth, place, calls>>

TokenExchanged ==
    /\ refresh = "exchanging" /\ account.sso
    /\ refresh' = "none"
    /\ token' = IssuedToken
    /\ calls' = Sent(IssuedToken)
    /\ UNCHANGED <<account, changes, auth, place>>

(* The status of the session is left as it is.                               *)
TokenRefused ==
    /\ \/ refresh = "exchanging" /\ ~account.sso
       \/ refresh = "asked" /\ ~token.held
    /\ refresh' = "none"
    /\ token' = NoToken
    /\ calls' = WaitersFail
    /\ UNCHANGED <<account, changes, auth, place>>

(* The answer of the backend; a 401 ends the session of the tab.             *)
Answer(c) ==
    /\ calls[c].at = "sent"
    /\ LET status == StatusOf(calls[c].required, calls[c].bearer, account.profile)
       IN  /\ calls' = [calls EXCEPT ![c] =
                           [at |-> CASE status = 200 -> "done"
                                     [] status = 401 -> "unauthorized"
                                     [] status = 403 -> "forbidden"]]
           /\ token' = IF status = 401 THEN NoToken ELSE token
           /\ auth' = IF status = 401 THEN SignedOut("anonymous") ELSE auth
    /\ UNCHANGED <<account, changes, place, refresh>>

Dismiss(c) ==
    /\ calls[c].at \in {"done", "forbidden", "unauthorized", "expired"}
    /\ calls' = [calls EXCEPT ![c] = Idle]
    /\ UNCHANGED <<account, changes, token, auth, place, refresh>>

-----------------------------------------------------------------------------
(* Outside the tab. *)
AccountChanges ==
    /\ changes < MaxChanges
    /\ changes' = changes + 1
    /\ \/ \E roles \in RoleSets : account' = [account EXCEPT !.roles = roles]
       \/ \E profile \in {"ACTIVE", "DISABLED"} :
             account' = [account EXCEPT !.profile = profile]
       \/ account' = [account EXCEPT !.sso = FALSE]
    /\ UNCHANGED <<token, auth, place, refresh, calls>>

(* Time: the token in the adapter and those on their way expire.             *)
TokensExpire ==
    /\ changes < MaxChanges
    /\ changes' = changes + 1
    /\ token' = [token EXCEPT !.valid = FALSE]
    /\ calls' = [c \in Slots |-> IF calls[c].at = "sent"
                                 THEN [calls[c] EXCEPT !.bearer.valid = FALSE]
                                 ELSE calls[c]]
    /\ UNCHANGED <<account, auth, place, refresh>>

Bootstrap == InitializeKeycloak \/ LoadSession

TokenRequest == TokenKept \/ BeginExchange \/ TokenExchanged \/ TokenRefused

Next ==
    \/ Bootstrap
    \/ BootstrapFails
    \/ Redirect
    \/ FollowLink
    \/ TypeAddress
    \/ Login
    \/ Logout
    \/ TokenRequest
    \/ \E c \in Slots : StartCall(c) \/ Answer(c) \/ Dismiss(c)
    \/ AccountChanges
    \/ TokensExpire

Spec == Init /\ [][Next]_vars

(* React renders, the token request and the backend answer; nobody has to    *)
(* click, to type or to change an account.                                   *)
Fairness ==
    /\ WF_vars(Bootstrap)
    /\ WF_vars(Redirect)
    /\ WF_vars(TokenRequest)
    /\ \A c \in Slots : WF_vars(Answer(c))

FairSpec == Spec /\ Fairness

-----------------------------------------------------------------------------
(* The pages and the controllers agree on who may do what: the backend       *)
(* forbids a call of a session only for what changed since the tab read the  *)
(* session, the roles in the token or the profile.                           *)
ForbiddenIsNews ==
    [][\A c \in Slots :
          calls[c].at = "sent" /\ calls'[c].at = "forbidden" =>
              \/ auth.status # "authenticated"
              \/ ExtractRoles(calls[c].bearer.roles) # auth.roles
              \/ account.profile = "DISABLED"]_vars

(* The links and the routes agree: a link a user of an active profile sees   *)
(* leads to a page of the application that its gates let them see, neither   *)
(* to a redirection nor to the page for unknown paths.                       *)
LinksLeadToPages ==
    place.came = "link" /\ auth.status = "authenticated" /\ auth.profile = "ACTIVE" =>
        Settled /\ place.page # "*"

(* The gates do not send the browser in circles: redirections come to an end *)
(* on a page that stays.                                                     *)
RedirectsSettle == ~Settled ~> Settled

(* No call is lost with the token request it shares: each one that has       *)
(* started ends, whatever becomes of the token, the session and the account. *)
CallsEnd == \A c \in Slots : calls[c].at \in {"waiting", "sent"} ~>
                                 calls[c].at \notin {"waiting", "sent"}
=============================================================================
