------------------------------ MODULE Session ------------------------------
(***************************************************************************)
(* The signed-in state of the web console: lib/api-client.ts in every tab, *)
(* the route handlers under app/api/auth, the guard of proxy.ts, the login *)
(* page and the mount of the dashboard layout.                             *)
(*                                                                         *)
(* Tabs share the cookies of one browser: cs_refresh, which only the auth  *)
(* routes see, and cs_session, which the guard and the scripts see.  The   *)
(* access token, the expiry and the refresh in flight live in the memory   *)
(* of a tab and are lost with its page.  The identity provider rotates a   *)
(* refresh token on every use (external; modelled from how the refresh     *)
(* route uses it).                                                         *)
(***************************************************************************)
EXTENDS Naturals, FiniteSets

CONSTANTS
  Tab,           \* browser tabs
  Call,          \* concurrent API calls of all tabs
  Owner,         \* the tab a call belongs to
  RefreshToken,  \* names for refresh tokens, reused once nobody holds them
  MaxFaults,     \* bound: lost requests, upstream errors, revocations
  MaxMoves,      \* bound: what users do: submit, open, follow a link, sign out
  MaxLogouts     \* bound: logout requests of one tab under way at once

ASSUME OwnerAssumption == Owner \in [Call -> Tab]
ASSUME BoundsAssumption == /\ RefreshToken \subseteq Nat \ {0}
                           /\ MaxFaults \in Nat
                           /\ MaxMoves \in Nat
                           /\ MaxLogouts \in Nat \ {0}

VARIABLES
  mock,     \* IS_MOCK_MODE of the build
  page,     \* what each tab shows: see Page
  token,    \* _token with _expiresAtMs: see Access
  tried,    \* _triedInitialRefresh
  refresh,  \* _refreshInFlight and where the request is
  form,     \* loading: the login page has a submit under way
  call,     \* apiGet and apiPost calls
  logouts,  \* fire-and-forget POST /api/auth/logout under way, per tab
  cookie,   \* cs_refresh, 0 when there is none
  flag,     \* cs_session
  live,     \* refresh tokens the identity provider accepts
  faults,   \* faults so far
  moves,    \* moves of users so far
  cause,    \* history: why a session may end by itself since the last login
  quiet     \* history: the tab was signed out with nothing in flight

memory == <<token, tried, refresh, form, call, logouts>>
jar == <<cookie, flag>>
history == <<cause, quiet>>
vars == <<mock, page, memory, jar, live, faults, moves, history>>

(* "leaving": window.location.href was assigned, the page still runs.      *)
Page == {"login", "loading", "console", "leaving"}
(* "stale": within 60 s of expiry or past it; "mock": that of mock mode.    *)
Access == {"none", "fresh", "stale", "mock"}
Request == [at : {"none", "sent", "granted", "refused", "failed"},
            cookie : RefreshToken \cup {0}]
Idle == [at |-> "none", cookie |-> 0]
NoCall == [pc |-> "idle", tok |-> "none"]
(* "lost": a fault; "reloaded": a document went away between a rotation    *)
(* and its answer; "raced": a sign-out, or two requests changing the       *)
(* cookie at once.  The stronger excuse replaces the weaker.               *)
Cause == {"none", "raced", "reloaded", "lost"}

SessionTypeOK ==
  /\ mock \in BOOLEAN
  /\ page \in [Tab -> Page]
  /\ token \in [Tab -> Access]
  /\ tried \in [Tab -> BOOLEAN]
  /\ refresh \in [Tab -> Request]
  /\ form \in [Tab -> BOOLEAN]
  /\ call \in [Call -> [pc : {"idle", "ensure", "sent", "renew", "resent"},
                        tok : Access]]
  /\ logouts \in [Tab -> 0..MaxLogouts]
  /\ cookie \in RefreshToken \cup {0}
  /\ flag \in BOOLEAN
  /\ live \subseteq RefreshToken
  /\ faults \in 0..MaxFaults
  /\ moves \in 0..MaxMoves
  /\ cause \in Cause
  /\ quiet \in [Tab -> BOOLEAN]

SessionInit ==
  /\ mock \in BOOLEAN
  /\ page = [t \in Tab |-> "login"]
  /\ token = [t \in Tab |-> "none"]
  /\ tried = [t \in Tab |-> FALSE]
  /\ refresh = [t \in Tab |-> Idle]
  /\ form = [t \in Tab |-> FALSE]
  /\ call = [c \in Call |-> NoCall]
  /\ logouts = [t \in Tab |-> 0]
  /\ cookie = 0
  /\ flag = FALSE
  /\ live = {}
  /\ faults = 0
  /\ moves = 0
  /\ cause = "none"
  /\ quiet = [t \in Tab |-> FALSE]

-----------------------------------------------------------------------------
(* Helpers                                                                 *)

Fault == /\ faults < MaxFaults
         /\ faults' = faults + 1
         /\ cause' = "lost"

Move == moves < MaxMoves /\ moves' = moves + 1

(* A request that will change cs_refresh is under way in a tab.            *)
Changing(t) == \/ refresh[t].at # "none"
               \/ form[t]
               \/ logouts[t] > 0

Raced == IF cause = "none" THEN "raced" ELSE cause

ClearTokenOfTheFlag(t) ==
  /\ UNCHANGED token
  /\ flag' = FALSE
  /\ logouts' = [logouts EXCEPT ![t] = IF @ < MaxLogouts THEN @ + 1 ELSE @]

(* clearToken(): the memory of tab t, the flag, and the logout request,    *)
(* whose answer nobody awaits.                                             *)
ClearToken(t) ==
  /\ token' = [token EXCEPT ![t] = "none"]
  /\ flag' = FALSE
  /\ logouts' = [logouts EXCEPT ![t] = IF @ < MaxLogouts THEN @ + 1 ELSE @]

(* handleUnauthorized(): clear and go to the login page, unless there.     *)
(* While a soft navigation loads, the path is still that of the login page. *)
HandleUnauthorized(t) ==
  /\ ClearToken(t)
  /\ page' = [page EXCEPT ![t] = IF @ = "console" THEN "leaving" ELSE @]

RefreshAccessTokenIfAny(t) ==
  /\ refresh' = [refresh EXCEPT ![t] = IF @.at # "none" \/ cookie = 0 THEN @
                                       ELSE [at |-> "sent", cookie |-> cookie]]
  /\ cause' = IF /\ refresh[t].at = "none"
                 /\ \E u \in Tab : Changing(u)
              THEN Raced ELSE cause

(* refreshAccessToken(): callers share the request in flight; a new one    *)
(* carries the cookie of the jar.  Starting one while another request      *)
(* changes the cookie is remembered as a race.                             *)
RefreshAccessToken(t) ==
  /\ refresh' = [refresh EXCEPT ![t] = IF @.at # "none" THEN @
                                       ELSE [at |-> "sent", cookie |-> cookie]]
  /\ cause' = IF /\ refresh[t].at = "none"
                 /\ \E u \in Tab : Changing(u)
              THEN Raced ELSE cause

(* ensureFreshToken() returns at once: the token is good for more than     *)
(* 60 s, or there is none and the refresh on load was begun before -- even *)
(* if that refresh is still in flight.                                     *)
NeedsNoRefresh(t) == \/ mock
                     \/ token[t] = "fresh"
                     \/ token[t] = "none" /\ tried[t]

WokenWithOldToken(t, renewed, tok) ==
  [c \in Call |->
     CASE Owner[c] = t /\ call[c].pc = "ensure" -> [pc |-> "sent", tok |-> tok]
       [] Owner[c] = t /\ call[c].pc = "renew" /\ renewed ->
            [pc |-> "resent", tok |-> token[t]]
       [] Owner[c] = t /\ call[c].pc = "renew" /\ ~renewed -> NoCall
       [] OTHER -> call[c]]

WokenWhenRenewed(t, renewed, tok) ==
  [c \in Call |->
     CASE Owner[c] = t /\ call[c].pc = "ensure" -> [pc |-> "sent", tok |-> tok]
       [] Owner[c] = t /\ call[c].pc = "renew" /\ renewed ->
            [pc |-> "resent", tok |-> tok]
       [] OTHER -> call[c]]

(* What the promise of a refresh does to the calls of tab t that await it: *)
(* a call that came from ensureFreshToken sends with the token there is; a *)
(* call answered 401 sends again if the promise gave a token, and gives up *)
(* otherwise.                                                              *)
Woken(t, renewed, tok) ==
  [c \in Call |->
     CASE Owner[c] = t /\ call[c].pc = "ensure" -> [pc |-> "sent", tok |-> tok]
       [] Owner[c] = t /\ call[c].pc = "renew" /\ renewed ->
            [pc |-> "resent", tok |-> tok]
       [] Owner[c] = t /\ call[c].pc = "renew" /\ ~renewed -> NoCall
       [] OTHER -> call[c]]

GivesUp(t) == \E c \in Call : Owner[c] = t /\ call[c].pc = "renew"

-----------------------------------------------------------------------------
(* API calls                                                               *)

(* A page calls apiGet or apiPost: ensureFreshToken, then send.            *)
CallStarts(c) == LET t == Owner[c] IN
  /\ page[t] = "console"
  /\ call[c].pc = "idle"
  /\ \/ /\ NeedsNoRefresh(t)
        /\ call' = [call EXCEPT ![c] = [pc |-> "sent", tok |-> token[t]]]
        /\ UNCHANGED <<tried, refresh, cause>>
     \/ /\ ~NeedsNoRefresh(t)
        /\ call' = [call EXCEPT ![c] = [pc |-> "ensure", tok |-> "none"]]
        /\ tried' = [tried EXCEPT ![t] = TRUE]
        /\ RefreshAccessToken(t)
  /\ UNCHANGED <<mock, moves, page, token, form, logouts, jar, live, faults, quiet>>

(* The backend refuses a token that is missing or expired, may refuse one  *)
(* that expires on the way, and refuses a good one only by a fault (its    *)
(* key set is out of date).                                                *)
Refuses(tok) == /\ ~mock
                /\ tok # "fresh"

(* 401 on the first send: one silent refresh, shared with other callers.   *)
CallIsRefused(c) == LET t == Owner[c] IN
  /\ call[c].pc = "sent"
  /\ Refuses(call[c].tok)
  /\ call' = [call EXCEPT ![c] = [pc |-> "renew", tok |-> "none"]]
  /\ RefreshAccessToken(t)
  /\ UNCHANGED <<mock, moves, page, token, tried, form, logouts, jar, live, faults, quiet>>

(* The same for a good token; RefreshAccessToken would only blame a race.  *)
CallIsWronglyRefused(c) == LET t == Owner[c] IN
  /\ ~mock
  /\ call[c] = [pc |-> "sent", tok |-> "fresh"]
  /\ Fault
  /\ call' = [call EXCEPT ![c] = [pc |-> "renew", tok |-> "none"]]
  /\ refresh' = [refresh EXCEPT ![t] = IF @.at # "none" THEN @
                                       ELSE [at |-> "sent", cookie |-> cookie]]
  /\ UNCHANGED <<mock, moves, page, token, tried, form, logouts, jar, live, quiet>>

(* 401 on the second send ends the session of the tab.                     *)
RetryIsRefused(c) == LET t == Owner[c] IN
  /\ call[c].pc = "resent"
  /\ \/ Refuses(call[c].tok) /\ UNCHANGED <<faults, cause>>
     \/ ~mock /\ Fault
  /\ call' = [call EXCEPT ![c] = NoCall]
  /\ HandleUnauthorized(t)
  /\ UNCHANGED <<mock, moves, tried, refresh, form, cookie, live, quiet>>

(* Data, an envelope without success, a status other than 401 or a network *)
(* error: the promise settles, the session is as it was.                   *)
CallSettles(c) ==
  /\ call[c].pc \in {"sent", "resent"}
  /\ call' = [call EXCEPT ![c] = NoCall]
  /\ UNCHANGED <<mock, moves, page, token, tried, refresh, form, logouts, jar, live, faults, history>>

ApiCall(c) == \/ CallStarts(c)
              \/ CallIsRefused(c)
              \/ CallIsWronglyRefused(c)
              \/ RetryIsRefused(c)
              \/ CallSettles(c)

-----------------------------------------------------------------------------
(* Refresh: the route handler and the landing of its answer                *)

(* Names nobody holds: they can be given to the next token.                *)
Held == {cookie} \cup {refresh[t].cookie : t \in Tab}

(* A token nobody holds any more can never be presented: it is forgotten. *)
ForgetOrphans == live' = live \cap Held'

Fresh(n) == /\ n \in RefreshToken \ Held
            /\ \A m \in RefreshToken \ Held : n <= m

(* POST /api/auth/refresh: no cookie is 401; a token the provider accepts  *)
(* is rotated; one it does not accept is 401 and deletes the cookie.  An   *)
(* answer of the provider that is not ok for another reason deletes the    *)
(* cookie too; an exception or a missing configuration is a 500.           *)
RefreshIsServed(t) ==
  /\ refresh[t].at = "sent"
  /\ \/ /\ refresh[t].cookie = 0
        /\ refresh' = [refresh EXCEPT ![t].at = "failed"]
        /\ UNCHANGED <<live, faults, cause>>
     \/ /\ refresh[t].cookie \in live
        /\ \E n \in RefreshToken :
             /\ Fresh(n)
             /\ live' = (live \ {refresh[t].cookie}) \cup {n}
             /\ refresh' = [refresh EXCEPT ![t] = [at |-> "granted", cookie |-> n]]
        /\ UNCHANGED <<faults, cause>>
     \/ /\ refresh[t].cookie \notin live \cup {0}
        /\ refresh' = [refresh EXCEPT ![t].at = "refused"]
        /\ UNCHANGED <<live, faults, cause>>
     \/ /\ refresh[t].cookie # 0
        /\ Fault
        /\ \E at \in {"refused", "failed"} : refresh' = [refresh EXCEPT ![t].at = at]
        /\ UNCHANGED live
  /\ UNCHANGED <<mock, moves, page, token, tried, form, call, logouts, jar, quiet>>

(* The promise of the refresh of tab t settles: the callers go on, and a   *)
(* call that gives up signs the tab out.  Callers run one after another,   *)
(* so that one from ensureFreshToken may send before or after that.        *)
Settle(t, renewed, tok) ==
  /\ refresh' = [refresh EXCEPT ![t] = Idle]
  /\ IF ~renewed /\ GivesUp(t)
       THEN /\ HandleUnauthorized(t)
            /\ \E left \in {tok, "none"} : call' = Woken(t, renewed, left)
       ELSE /\ token' = [token EXCEPT ![t] = tok]
            /\ call' = Woken(t, renewed, tok)
            /\ UNCHANGED <<flag, logouts, page>>

RefreshLandsWithoutCookie(t) ==
  /\ refresh[t].at \in {"granted", "refused", "failed"}
  /\ cookie' = IF refresh[t].at = "refused" THEN 0 ELSE cookie
  /\ Settle(t, refresh[t].at = "granted",
            IF refresh[t].at = "granted" THEN "fresh" ELSE "none")
  /\ UNCHANGED <<mock, moves, tried, form, faults, cause, quiet>>
  /\ ForgetOrphans

(* The answer arrives: the browser stores the cookie, the script the token *)
(* -- whatever the user has done in between.                               *)
RefreshLands(t) ==
  /\ refresh[t].at \in {"granted", "refused", "failed"}
  /\ cookie' = CASE refresh[t].at = "granted" -> refresh[t].cookie
                 [] refresh[t].at = "refused" -> 0
                 [] refresh[t].at = "failed" -> cookie
  /\ Settle(t, refresh[t].at = "granted",
            IF refresh[t].at = "granted" THEN "fresh" ELSE "none")
  /\ UNCHANGED <<mock, moves, tried, form, faults, cause, quiet>>
  /\ ForgetOrphans

(* fetch throws: the token stays what it was, the callers get null.        *)
RefreshIsLost(t) ==
  /\ refresh[t].at # "none"
  /\ Fault
  /\ Settle(t, FALSE, token[t])
  /\ UNCHANGED <<mock, moves, tried, form, cookie, quiet>>
  /\ ForgetOrphans

Refresh(t) == RefreshIsServed(t) \/ RefreshLands(t) \/ RefreshIsLost(t)

-----------------------------------------------------------------------------
(* Login page                                                              *)

(* The form; its button is disabled while a submit is under way.           *)
CanSubmit(t) == page[t] = "login" /\ ~form[t]

(* handleSubmit up to its fetch; mock mode accepts any credentials.        *)
Submit(t) ==
  /\ Move
  /\ CanSubmit(t)
  /\ \/ /\ mock
        /\ token' = [token EXCEPT ![t] = "mock"]
        /\ tried' = [tried EXCEPT ![t] = TRUE]
        /\ flag' = TRUE
        /\ page' = [page EXCEPT ![t] = "loading"]
        /\ quiet' = [u \in Tab |-> FALSE]
        /\ UNCHANGED <<form, cause>>
     \/ /\ ~mock
        /\ form' = [form EXCEPT ![t] = TRUE]
        /\ cause' = IF \E u \in Tab : Changing(u) THEN Raced ELSE cause
        /\ UNCHANGED <<token, tried, flag, page, quiet>>
  /\ UNCHANGED <<mock, refresh, call, logouts, cookie, live, faults>>

(* POST /api/auth/login gave a session and its answer arrives: cookie,     *)
(* token, flag and the way to the console.  A login that nothing overlaps  *)
(* opens a new account of what may end a session.                          *)
LoginLands(t) ==
  /\ form[t]
  /\ UNCHANGED <<mock, moves, refresh, call, logouts, faults>>
  /\ form' = [form EXCEPT ![t] = FALSE]
  /\ \E n \in RefreshToken :
       /\ Fresh(n)
       /\ cookie' = n
       /\ live' = (live \cap Held') \cup {n}
  /\ token' = [token EXCEPT ![t] = "fresh"]
  /\ tried' = [tried EXCEPT ![t] = TRUE]
  /\ flag' = TRUE
  /\ page' = [page EXCEPT ![t] = IF @ = "leaving" THEN @ ELSE "loading"]
  /\ quiet' = [u \in Tab |-> FALSE]
  /\ cause' = IF \E u \in Tab : Changing(u)' THEN cause ELSE "none"

(* An error status or no answer: a message under the form, which can be    *)
(* submitted again.                                                        *)
LoginFails(t) ==
  /\ form[t]
  /\ form' = [form EXCEPT ![t] = FALSE]
  /\ UNCHANGED <<mock, moves, page, token, tried, refresh, call, logouts, jar, live, faults, history>>

Login(t) == Submit(t) \/ LoginLands(t) \/ LoginFails(t)

-----------------------------------------------------------------------------
(* Navigation, sign-out and time                                           *)

Reloaded == IF cause = "lost" THEN cause ELSE "reloaded"

(* Nobody waits for the refresh of tab t any more.  That stops neither the *)
(* route handler nor the provider: a request on its way may still rotate   *)
(* the token, and the new one, like one that was granted, is dropped with  *)
(* the answer, while the jar keeps the spent one.  A rotation that comes   *)
(* later than here differs only if the token was spent before, and then it *)
(* fails and changes nothing.                                              *)
AbandonRefresh(t) ==
  \/ /\ refresh[t].at = "sent"
     /\ refresh[t].cookie \in live
     /\ live' = (live \ {refresh[t].cookie}) \cap Held'
     /\ cause' = Reloaded
  \/ /\ refresh[t].at = "granted"
     /\ ForgetOrphans
     /\ cause' = Reloaded
  \/ /\ refresh[t].at # "granted"
     /\ ForgetOrphans
     /\ UNCHANGED cause

(* A new document: the memory of the tab is gone and its requests are      *)
(* abandoned; the answers to a login or a logout are dropped whole.        *)
Forget(t) ==
  /\ token' = [token EXCEPT ![t] = "none"]
  /\ tried' = [tried EXCEPT ![t] = FALSE]
  /\ refresh' = [refresh EXCEPT ![t] = Idle]
  /\ form' = [form EXCEPT ![t] = FALSE]
  /\ call' = [c \in Call |-> IF Owner[c] = t THEN NoCall ELSE call[c]]
  /\ logouts' = [logouts EXCEPT ![t] = 0]
  /\ UNCHANGED jar
  /\ AbandonRefresh(t)

(* proxy.ts on /dashboard: cs_refresh is never sent there, its path is     *)
(* /api/auth, so that cs_session decides alone.                            *)
GuardPasses == flag

(* The user opens or reloads /dashboard.                                   *)
Open(t) ==
  /\ Move
  /\ page[t] # "leaving"
  /\ Forget(t)
  /\ page' = [page EXCEPT ![t] = IF GuardPasses THEN "loading" ELSE "login"]
  /\ UNCHANGED <<mock, faults, quiet>>

(* A link to /dashboard on the landing page keeps the memory.              *)
Navigate(t) ==
  /\ Move
  /\ page[t] = "login"
  /\ GuardPasses
  /\ page' = [page EXCEPT ![t] = "loading"]
  /\ UNCHANGED <<mock, memory, jar, live, faults, history>>

(* ensureAuth(): one refresh on load, however old the token is.            *)
EnsureAuth(t) ==
  \/ /\ mock \/ token[t] # "none" \/ tried[t]
     /\ UNCHANGED <<tried, refresh, cause>>
  \/ /\ ~mock /\ token[t] = "none" /\ ~tried[t]
     /\ tried' = [tried EXCEPT ![t] = TRUE]
     /\ RefreshAccessToken(t)

(* DashboardLayout mounts; the pages are on the screen while it waits.     *)
Mount(t) ==
  /\ page[t] = "loading"
  /\ page' = [page EXCEPT ![t] = "console"]
  /\ EnsureAuth(t)
  /\ UNCHANGED <<mock, moves, token, form, call, logouts, jar, live, faults, quiet>>

(* The navigation of handleUnauthorized completes.                         *)
Unload(t) ==
  /\ page[t] = "leaving"
  /\ Forget(t)
  /\ page' = [page EXCEPT ![t] = "login"]
  /\ UNCHANGED <<mock, moves, faults, quiet>>

(* Sign Out of the profile menu, and the two logout links of the sidebar:  *)
(* clearToken, then a soft navigation, which keeps the memory.             *)
SignOut(t) ==
  /\ Move
  /\ page[t] = "console"
  /\ ClearToken(t)
  /\ page' = [page EXCEPT ![t] = "login"]
  /\ cause' = Raced
  /\ quiet' = [quiet EXCEPT ![t] = /\ refresh[t].at = "none"
                                   /\ ~form[t]
                                   /\ \A c \in Call : Owner[c] = t => call[c] = NoCall]
  /\ UNCHANGED <<mock, tried, refresh, form, call, cookie, live, faults>>

LogoutLandsAgain(t) ==
  /\ logouts' = [logouts EXCEPT ![t] = @ - 1]
  /\ cookie' = 0
  /\ UNCHANGED <<mock, moves, page, token, tried, refresh, form, call, flag, faults, history>>
  /\ ForgetOrphans

(* POST /api/auth/logout deletes the cookie of whichever session it is.    *)
LogoutLands(t) ==
  /\ logouts[t] > 0
  /\ logouts' = [logouts EXCEPT ![t] = @ - 1]
  /\ cookie' = 0
  /\ UNCHANGED <<mock, moves, page, token, tried, refresh, form, call, flag, faults, history>>
  /\ ForgetOrphans

LogoutIsLost(t) ==
  /\ logouts[t] > 0
  /\ Fault
  /\ logouts' = [logouts EXCEPT ![t] = @ - 1]
  /\ UNCHANGED <<mock, moves, page, token, tried, refresh, form, call, jar, live, quiet>>

(* The access token of a tab nears its expiry.                             *)
TokenAges(t) ==
  /\ token[t] = "fresh"
  /\ token' = [token EXCEPT ![t] = "stale"]
  /\ UNCHANGED <<mock, moves, page, tried, refresh, form, call, logouts, jar, live, faults, history>>

(* The provider revokes the session (external).                            *)
Revoke ==
  /\ cookie \in live
  /\ Fault
  /\ live' = live \ {cookie}
  /\ UNCHANGED <<mock, moves, page, memory, jar, quiet>>

(* cs_session was set for 30 days at login and is not renewed since.       *)
FlagExpires ==
  /\ flag
  /\ flag' = FALSE
  /\ UNCHANGED <<mock, moves, page, memory, cookie, live, faults, history>>

TabStep(t) == \/ Refresh(t) \/ Login(t)
              \/ Open(t) \/ Navigate(t) \/ Mount(t) \/ Unload(t)
              \/ SignOut(t) \/ LogoutLands(t) \/ LogoutIsLost(t)
              \/ TokenAges(t)

SessionNext == \/ \E t \in Tab : TabStep(t)
               \/ \E c \in Call : ApiCall(c)
               \/ Revoke \/ FlagExpires

(* Requests are answered or fail in the end, by the route handlers, the    *)
(* backend and the browser; users and faults owe nothing.                  *)
SessionFairness ==
  /\ \A t \in Tab : WF_vars(RefreshIsServed(t) \/ RefreshLands(t))
  /\ \A c \in Call : WF_vars(CallSettles(c) \/ CallIsRefused(c) \/ RetryIsRefused(c))

SessionSpec == SessionInit /\ [][SessionNext]_vars /\ SessionFairness

-----------------------------------------------------------------------------
(* Properties                                                              *)

(* A call that awaits a refresh has one in flight in its own tab: no       *)
(* caller joins a promise that has settled, or awaits one that was reset.  *)
WaitersHaveARefresh ==
  \A c \in Call : call[c].pc \in {"ensure", "renew"} => refresh[Owner[c]].at # "none"

(* An answer that brought a new refresh token, or could have, did not      *)
(* arrive.                                                                 *)
AnswerWasLost == cause \in {"reloaded", "lost"}

(* The refresh cookie names a token the provider still accepts, unless the *)
(* rotation that replaced it is on its way, or its answer did not arrive   *)
(* (a fault, or a document that went away before it): with tabs that       *)
(* refresh, log in and sign out in any order, no spent token is ever       *)
(* stored over a newer one.                                                *)
CookieIsLive ==
  cookie # 0 /\ cookie \notin live =>
    AnswerWasLost \/ \E t \in Tab : refresh[t].at = "granted"

(* A tab that was signed out while it had no request in flight holds no    *)
(* token until somebody logs in: no page, timer or other tab brings its    *)
(* session back.                                                           *)
SignOutSticks == \A t \in Tab : quiet[t] => token[t] = "none"

(* A tab is signed out by a 401 only if, since the last login, something   *)
(* was lost or refused out of turn, a document went away between the       *)
(* rotation of the token and its answer, a user signed out, or two         *)
(* requests changed the cookie at once.  Expiry, callers that share or     *)
(* follow a refresh, and reloads while no refresh is in flight, or before  *)
(* it reached the provider, end no session.                                *)
EndedForACause ==
  [][\A t \in Tab : page[t] = "console" /\ page'[t] = "leaving" => cause' # "none"]_vars

(* "so a page reload doesn't drop an otherwise-valid session": no tab is   *)
(* signed out because a document went away while its refresh was under     *)
(* way.                                                                    *)
ReloadKeepsSession ==
  [][\A t \in Tab : page[t] = "console" /\ page'[t] = "leaving" => cause' # "reloaded"]_vars

(* Every API call settles: no caller is left waiting for a refresh.        *)
CallsSettle == \A c \in Call : call[c].pc # "idle" ~> call[c].pc = "idle"
=============================================================================
