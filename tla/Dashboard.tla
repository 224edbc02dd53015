----------------------------- MODULE Dashboard -----------------------------
(***************************************************************************)
(* app/dashboard/page.tsx: the page that holds the alerts, the graph, the  *)
(* incidents and the audit log, and the seven screens of its tabs.         *)
(*                                                                         *)
(* Every handler is an async function that awaits one request after        *)
(* another and sets React state in between; nothing cancels it when the    *)
(* tab or the page it was started from goes away.  A task below is one     *)
(* such function in progress.  A screen keeps its state only while its tab *)
(* is shown, the page only while its route is.                             *)
(***************************************************************************)
EXTENDS Naturals, FiniteSets, GridTwin

CONSTANTS
  Alert,      \* anomalies, and the incidents of the review queue
  None,       \* null
  Task,       \* bound: async functions in progress at once
  Hits,       \* mock mode: the alerts of the asset and reason of an incident
  Stores,     \* which anomalies the backend may have stored, all of them new
  Age,        \* place of an alert in the order by detected_at, 0 the newest
  PageLimit,  \* rows in an answer to a request that names no limit (50)
  MaxAsks,    \* bound: requests in flight for the details of one alert
  MaxClicks   \* bound: what the analyst does on this page, closing apart

ASSUME DashboardAssumption ==
  /\ None \notin Alert
  /\ IsFiniteSet(Task) /\ Task \subseteq Nat
  /\ Hits \in [Alert -> SUBSET Alert]
  /\ Stores \subseteq SUBSET Alert
  /\ Age \in [Alert -> Nat] /\ \A a, b \in Alert : Age[a] = Age[b] => a = b
  /\ PageLimit \in Nat \ {0}
  /\ MaxAsks \in Nat \ {0}
  /\ MaxClicks \in Nat

VARIABLES
  mock,      \* IS_MOCK_MODE of the build
  server,    \* status of every stored anomaly at the backend
  page,      \* state of DashboardPage
  screen,    \* activeTab and the state of its screen
  tasks,     \* async functions in progress
  clicks,    \* what the analyst has done
  earned,    \* history: alerts something contained for
  blurred,   \* history: why the page may lag behind the backend
  crossed,   \* history: a playbook ran while the dialog or selection changed
  overlap    \* history: details of two alerts were on their way at once

dashboardVars == <<mock, server, page, screen, tasks, clicks,
                   earned, blurred, crossed, overlap>>

Status == {"new", "acknowledged", "contained", "false_positive"}
Partial(T) == UNION {[S -> T] : S \in SUBSET Alert}
Nothing == [a \in {} |-> None]

DashboardTab == {"overview", "alerts", "topology", "twin", "incident", "audit",
                 "settings"}
Detail == {"intel", "narrative"}

(* What setState holds in DashboardPage.  "own": entries of the audit log  *)
(* the page added itself, for the alert they are about.                    *)
Page == [alerts : Partial(Status),
         graph : {"none", "empty", "backend", "fallback"},
         loading : BOOLEAN, error : BOOLEAN, node : BOOLEAN,
         logs : {"none", "backend", "sample"}, own : SUBSET Alert,
         logError : BOOLEAN,
         incidents : Partial({"pending", "approved", "dismissed"})]

PageStart ==
  [alerts |-> Nothing, graph |-> "none", loading |-> TRUE, error |-> FALSE,
   node |-> FALSE, logs |-> "none", own |-> {}, logError |-> FALSE,
   incidents |-> IF mock THEN [a \in Alert |-> "pending"] ELSE Nothing]

(* The screens, one for each tab.                                          *)
OverviewScreen == [tab : {"overview"}, at : {"data", "audit", "idle"},
                   alerts : SUBSET Alert, nodes : BOOLEAN, audit : BOOLEAN,
                   loading : BOOLEAN, error : BOOLEAN]
AlertsQueueScreen == [tab : {"alerts"},
                      of : Alert \cup {None}, status : Status,
                      shown : [Detail -> Alert \cup {None}],
                      busy : [Detail -> BOOLEAN],
                      asked : [Detail -> [Alert -> 0..MaxAsks]],
                      writing : Alert \cup {None},
                      open : BOOLEAN,
                      dialog : {"idle", "running", "success"}]
DigitalTwinScreen == [tab : {"twin"}, grid : Grid, gauges : Grid]
IncidentResponseScreen == [tab : {"incident"}, processing : Alert \cup {None}]
ProfileSettingsScreen == [tab : {"settings"}, identity : {"none", "claims"}]
(* "none": the page is not mounted.                                        *)
PlainScreen == [tab : {"topology", "audit", "none"}]

Screen == OverviewScreen \cup AlertsQueueScreen \cup DigitalTwinScreen
            \cup IncidentResponseScreen \cup ProfileSettingsScreen \cup PlainScreen

(* The identity is read from the token in memory when the screen mounts,   *)
(* which on a reload is before ensureAuth has restored it; the token of    *)
(* mock mode has no claims.                                                *)
ReadSessionIdentity == IF mock THEN {"none"} ELSE {"none", "claims"}

ScreenStarts(tab) ==
  CASE tab = "overview" ->
         {[tab |-> tab, at |-> "data", alerts |-> {}, nodes |-> FALSE,
           audit |-> FALSE, loading |-> TRUE, error |-> FALSE]}
    [] tab = "alerts" ->
         {[tab |-> tab, of |-> None, status |-> "new",
           shown |-> [d \in Detail |-> None], busy |-> [d \in Detail |-> FALSE],
           asked |-> [d \in Detail |-> [a \in Alert |-> 0]],
           writing |-> None, open |-> FALSE, dialog |-> "idle"]}
    [] tab = "twin" -> {[tab |-> tab, grid |-> "nominal", gauges |-> "nominal"]}
    [] tab = "incident" -> {[tab |-> tab, processing |-> None]}
    [] tab = "settings" -> {[tab |-> tab, identity |-> i] : i \in ReadSessionIdentity}
    [] OTHER -> {[tab |-> tab]}

(* "live": how much of what the task was started from is still mounted.    *)
(* "read": what the backend put into the answer that is on its way.        *)
TaskState == [run : {"idle", "load", "log", "approve", "dismiss", "soar"},
              at : {"idle", "data", "dataRead", "audit", "queue", "queueRead",
                    "post", "posted", "log"},
              of : Alert \cup {None},
              live : {"screen", "page", "gone"},
              read : Partial(Status)]
IdleTask == [run |-> "idle", at |-> "idle", of |-> None, live |-> "gone",
             read |-> Nothing]

DashboardTypeOK ==
  /\ mock \in BOOLEAN
  /\ server \in Partial(Status)
  /\ page \in Page
  /\ screen \in Screen
  /\ tasks \in [Task -> TaskState]
  /\ clicks \in 0..MaxClicks
  /\ earned \subseteq Alert
  /\ blurred \in BOOLEAN
  /\ crossed \in BOOLEAN
  /\ overlap \in [Detail -> BOOLEAN]

-----------------------------------------------------------------------------
(* Tasks                                                                   *)

Busy == {k \in Task : tasks[k].run # "idle"}
IsNext(k) == k \in Task \ Busy /\ \A j \in Task \ Busy : k <= j

Starting(run, at, of, live) ==
  [run |-> run, at |-> at, of |-> of, live |-> live, read |-> Nothing]

(* A function starts.  One that starts beside others may see, or leave,    *)
(* something out of date; a load that starts alone has a clear view.       *)
Begin(run, at, of, live) ==
  \E k \in Task :
    /\ IsNext(k)
    /\ tasks' = [tasks EXCEPT ![k] = Starting(run, at, of, live)]
    /\ blurred' = IF Busy # {} THEN TRUE
                  ELSE IF run = "load" THEN FALSE ELSE blurred

MovesTo(k, at) == tasks' = [tasks EXCEPT ![k].at = at, ![k].read = Nothing]
Ends(k) == tasks' = [tasks EXCEPT ![k] = IdleTask]
Click == clicks < MaxClicks /\ clicks' = clicks + 1

Loads == {"data", "dataRead", "audit", "queue", "queueRead"}
Mounted(k) == tasks[k].live # "gone"
OnScreen(k) == tasks[k].live = "screen"

-----------------------------------------------------------------------------
(* fetchData                                                               *)

FetchStarts(p) == [p EXCEPT !.loading = TRUE, !.error = FALSE]

(* list_items: the newest PageLimit rows of those asked for.  The page     *)
(* names no limit and asks for no second page; the mock route lists all.   *)
ListItems(S) ==
  IF mock THEN S
  ELSE {a \in S : Cardinality({b \in S : Age[b] < Age[a]}) < PageLimit}

NewAnomalies == {a \in DOMAIN server : server[a] = "new"}
Listed(S) == [a \in ListItems(S) |-> server[a]]

(* The backend answers GET /anomalies, or GET /review/queue?status=new,    *)
(* with what it has at that moment.                                        *)
ReadIsServed(k) ==
  /\ \/ /\ tasks[k].at = "data"
        /\ tasks' = [tasks EXCEPT ![k].at = "dataRead", ![k].read = Listed(DOMAIN server)]
     \/ /\ tasks[k].at = "queue"
        /\ tasks' = [tasks EXCEPT ![k].at = "queueRead", ![k].read = Listed(NewAnomalies)]
  /\ UNCHANGED <<mock, server, page, screen, clicks, earned, blurred, crossed, overlap>>

(* fetchData returns: alone it ends its task; after a decision of the      *)
(* analyst the audit log is read once more.                                *)
FetchReturns(k) == IF tasks[k].run = "load" THEN Ends(k) ELSE MovesTo(k, "log")

(* Both answers of the Promise.all are there and have the right shape.  An *)
(* empty graph stays empty in real mode.                                   *)
DataLands(k) ==
  /\ tasks[k].at = "dataRead"
  /\ \E hasGraph \in BOOLEAN :
       LET graph == IF hasGraph THEN "backend"
                    ELSE IF mock THEN "fallback" ELSE "empty"
           loaded == [page EXCEPT !.alerts = tasks[k].read, !.graph = graph]
       IN IF mock
            THEN /\ page' = [loaded EXCEPT
                       !.logs = IF @ = "none" /\ page.own = {} THEN "sample" ELSE @,
                       !.loading = FALSE]
                 /\ FetchReturns(k)
            ELSE /\ page' = loaded
                 /\ MovesTo(k, "audit")
  /\ UNCHANGED <<mock, server, screen, clicks, earned, blurred, crossed, overlap>>

DataFailsSilently(k) ==
  /\ tasks[k].at \in {"data", "dataRead"}
  /\ page' = [page EXCEPT !.loading = FALSE]
  /\ FetchReturns(k)
  /\ blurred' = TRUE
  /\ UNCHANGED <<mock, server, screen, clicks, earned, crossed, overlap>>

(* One of the two fails, or the shape is wrong: the catch of fetchData.    *)
(* If only the graph has the wrong shape the alerts were set before.       *)
DataFails(k) ==
  /\ tasks[k].at \in {"data", "dataRead"}
  /\ \E list \in {page.alerts,
                   IF tasks[k].at = "dataRead" THEN tasks[k].read ELSE page.alerts} :
       page' = [page EXCEPT !.alerts = list,
                            !.graph = IF mock THEN "fallback" ELSE "none",
                            !.error = TRUE, !.loading = FALSE]
  /\ FetchReturns(k)
  /\ blurred' = TRUE
  /\ UNCHANGED <<mock, server, screen, clicks, earned, crossed, overlap>>

(* GET /audit inside fetchData: a failure empties the log.                 *)
AuditLands(k) ==
  /\ tasks[k].at = "audit"
  /\ \/ page' = [page EXCEPT !.logs = "backend", !.own = {}, !.logError = FALSE]
     \/ page' = [page EXCEPT !.logs = "none", !.own = {}, !.logError = TRUE]
  /\ MovesTo(k, "queue")
  /\ UNCHANGED <<mock, server, screen, clicks, earned, blurred, crossed, overlap>>

(* mapQueueToIncidents: every row of the answer is new.                    *)
MapQueueToIncidents(read) == [a \in DOMAIN read |-> "pending"]

(* refreshReviewQueue, which swallows its failure, and the finally of      *)
(* fetchData.                                                              *)
RefreshReviewQueue(k) ==
  /\ \/ /\ tasks[k].at = "queueRead"
        /\ page' = [page EXCEPT !.incidents = MapQueueToIncidents(tasks[k].read),
                                !.loading = FALSE]
        /\ UNCHANGED blurred
     \/ /\ tasks[k].at \in {"queue", "queueRead"}
        /\ page' = [page EXCEPT !.loading = FALSE]
        /\ blurred' = TRUE
  /\ FetchReturns(k)
  /\ UNCHANGED <<mock, server, screen, clicks, earned, crossed, overlap>>

(* The finally of handleAction, if its screen is still there.              *)
AfterAction(k) ==
  IF OnScreen(k) /\ screen.tab = "incident"
    THEN [screen EXCEPT !.processing = None] ELSE screen

(* refreshAuditLogs: a failure leaves the log as it is.                    *)
RefreshAuditLogs(k) ==
  /\ tasks[k].at = "log"
  /\ \/ page' = [page EXCEPT !.logs = "backend", !.own = {}, !.logError = FALSE]
     \/ page' = [page EXCEPT !.logError = TRUE]
  /\ screen' = AfterAction(k)
  /\ Ends(k)
  /\ UNCHANGED <<mock, server, clicks, earned, blurred, crossed, overlap>>

Fetch(k) == \/ ReadIsServed(k) \/ DataLands(k) \/ DataFails(k)
            \/ AuditLands(k) \/ RefreshReviewQueue(k) \/ RefreshAuditLogs(k)


-----------------------------------------------------------------------------
(* Incident screen and handleResolveIncident                               *)

PendingIncidents == {a \in DOMAIN page.incidents : page.incidents[a] = "pending"}

Contain(list, as) == [a \in DOMAIN list |-> IF a \in as THEN "contained" ELSE list[a]]

AddAuditLog(p, a) == [p EXCEPT !.own = @ \cup {a}]

(* Mock mode: no request; approving contains every alert of the asset and  *)
(* reason of the incident.                                                 *)
ResolveIncident(a, action) ==
  LET resolved == AddAuditLog([page EXCEPT !.incidents[a] = action], a)
  IN /\ mock
     /\ IF action = "approved"
          THEN /\ page' = [resolved EXCEPT !.alerts = Contain(@, Hits[a])]
               /\ earned' = earned \cup Hits[a]
          ELSE /\ page' = resolved
               /\ UNCHANGED earned
     /\ UNCHANGED <<screen, tasks, blurred>>

(* Authorize and Dismiss.  The buttons of other incidents stay enabled     *)
(* while one is processed; handleAction refuses them.                      *)
HandleAction(a, action) ==
  /\ screen.tab = "incident"
  /\ a \in PendingIncidents
  /\ screen.processing = None
  /\ Click
  /\ \/ ResolveIncident(a, action)
     \/ /\ ~mock
        /\ screen' = [screen EXCEPT !.processing = a]
        /\ Begin(IF action = "approved" THEN "approve" ELSE "dismiss", "post", a, "screen")
        /\ UNCHANGED <<page, earned>>
  /\ UNCHANGED <<mock, server, crossed, overlap>>

(* The backend takes a decision, or runs a playbook; the review overwrites *)
(* whatever status the anomaly has, the playbook leaves it alone.          *)
PostIsServed(k) == LET a == tasks[k].of IN
  /\ tasks[k].at = "post"
  /\ server' = CASE tasks[k].run = "approve" -> [server EXCEPT ![a] = "acknowledged"]
                 [] tasks[k].run = "dismiss" -> [server EXCEPT ![a] = "false_positive"]
                 [] OTHER -> server
  /\ earned' = IF tasks[k].run = "soar" THEN earned \cup {a} ELSE earned
  /\ blurred' = (blurred \/ (~Mounted(k) /\ tasks[k].run # "soar"))
  /\ IF Mounted(k) THEN MovesTo(k, "posted") ELSE Ends(k)
  /\ UNCHANGED <<mock, page, screen, clicks, crossed, overlap>>

DecisionLandsUnread(k) ==
  /\ tasks[k].at = "posted"
  /\ tasks[k].run \in {"approve", "dismiss"}
  /\ MovesTo(k, "log")
  /\ UNCHANGED <<mock, server, page, screen, clicks, earned, blurred, crossed, overlap>>

(* A decision was taken: everything is read again.                         *)
DecisionLands(k) ==
  /\ tasks[k].at = "posted"
  /\ tasks[k].run \in {"approve", "dismiss"}
  /\ page' = FetchStarts(page)
  /\ MovesTo(k, "data")
  /\ UNCHANGED <<mock, server, screen, clicks, earned, blurred, crossed, overlap>>

PostFailsKeepingDialog(k) ==
  /\ tasks[k].at \in {"post", "posted"}
  /\ ~mock
  /\ screen' = IF tasks[k].run = "soar" THEN screen ELSE AfterAction(k)
  /\ blurred' = (blurred \/ (tasks[k].at = "posted" /\ tasks[k].run # "soar"))
  /\ Ends(k)
  /\ UNCHANGED <<mock, server, page, clicks, earned, crossed, overlap>>

(* apiPost throws, before or after the backend did its part: a toast, and  *)
(* nothing is read again.                                                  *)
PostFails(k) ==
  /\ tasks[k].at \in {"post", "posted"}
  /\ ~mock
  /\ screen' = IF tasks[k].run = "soar"
                 THEN IF OnScreen(k) THEN [screen EXCEPT !.dialog = "idle"] ELSE screen
                 ELSE AfterAction(k)
  /\ blurred' = (blurred \/ (tasks[k].at = "posted" /\ tasks[k].run # "soar"))
  /\ Ends(k)
  /\ UNCHANGED <<mock, server, page, clicks, earned, crossed, overlap>>

-----------------------------------------------------------------------------
(* Alerts screen: selection and details                                    *)

InFlight(d) == {a \in Alert : \/ screen.asked[d][a] > 0
                              \/ d = "narrative" /\ screen.writing = a}

(* A request for detail d of alert a leaves.  overlap remembers that the   *)
(* answers of two alerts may cross.                                        *)
CrossesWith(d, a) == IF InFlight(d) \ {a} # {} THEN TRUE
                     ELSE IF InFlight(d) = {} THEN FALSE ELSE overlap[d]

More(n) == IF n < MaxAsks THEN n + 1 ELSE n

(* The effect on selectedAlert: without one the details are cleared, with  *)
(* one both are asked for.  Nothing abandons the requests of the alert     *)
(* selected before.  Mock mode has no stored narrative.                    *)
Inspect(s) ==
  IF s.of = None THEN [s EXCEPT !.shown = [d \in Detail |-> None]]
  ELSE LET wanted == IF mock THEN {"intel"} ELSE Detail
       IN [s EXCEPT !.asked = [d \in Detail |->
                       IF d \in wanted THEN [s.asked[d] EXCEPT ![s.of] = More(@)]
                       ELSE s.asked[d]],
                    !.busy = [d \in Detail |-> d \in wanted \/ s.busy[d]],
                    !.shown.narrative = IF mock THEN None ELSE @]

InspectOverlaps(a) ==
  overlap' = [d \in Detail |-> IF mock /\ d = "narrative" THEN overlap[d]
                              ELSE CrossesWith(d, a)]

FilteredAlerts(status) ==
  {a \in DOMAIN page.alerts : status = "all" \/ page.alerts[a] = status}

PlaybookRuns == \E k \in Busy : tasks[k].run = "soar" /\ OnScreen(k)

(* A row of the table is clicked, under any filter.                        *)
SelectAlert(a) ==
  /\ screen.tab = "alerts"
  /\ ~screen.open
  /\ \E filter \in Status \cup {"all"} : a \in FilteredAlerts(filter)
  /\ Click
  /\ screen' = Inspect([screen EXCEPT !.of = a, !.status = page.alerts[a]])
  /\ InspectOverlaps(a)
  /\ crossed' = PlaybookRuns
  /\ UNCHANGED <<mock, server, page, tasks, earned, blurred>>

CloseAlert ==
  /\ screen.tab = "alerts"
  /\ ~screen.open
  /\ screen.of # None
  /\ screen' = Inspect([screen EXCEPT !.of = None, !.status = "new"])
  /\ crossed' = (crossed \/ PlaybookRuns)
  /\ UNCHANGED <<mock, server, page, tasks, clicks, earned, blurred, overlap>>

DetailAnswersOrStays(d, a) ==
  /\ screen.tab = "alerts"
  /\ screen.asked[d][a] > 0
  /\ \E found \in {a, screen.shown[d]} :
       screen' = [screen EXCEPT !.asked[d][a] = @ - 1, !.busy[d] = FALSE,
                                !.shown[d] = found]
  /\ UNCHANGED <<mock, server, page, tasks, clicks, earned, blurred, crossed, overlap>>

(* The answer to fetchIntel or fetchNarrative: what it found, or nothing,  *)
(* is shown whichever alert is selected by now.                            *)
DetailAnswers(d, a) ==
  /\ screen.tab = "alerts"
  /\ screen.asked[d][a] > 0
  /\ \E found \in {a, None} :
       screen' = [screen EXCEPT !.asked[d][a] = @ - 1, !.busy[d] = FALSE,
                                !.shown[d] = found]
  /\ UNCHANGED <<mock, server, page, tasks, clicks, earned, blurred, crossed, overlap>>

(* Generate Narrative, and the answer to its POST.                         *)
GenerateNarrative ==
  /\ screen.tab = "alerts"
  /\ ~screen.open
  /\ screen.of # None
  /\ screen.writing = None
  /\ Click
  /\ \/ /\ mock
        /\ screen' = [screen EXCEPT !.shown.narrative = screen.of]
        /\ UNCHANGED overlap
     \/ /\ ~mock
        /\ screen' = [screen EXCEPT !.writing = screen.of]
        /\ overlap' = [overlap EXCEPT
                          !["narrative"] = @ \/ InFlight("narrative") \ {screen.of} # {}]
  /\ UNCHANGED <<mock, server, page, tasks, earned, blurred, crossed>>

NarrativeIsWritten ==
  /\ screen.tab = "alerts"
  /\ screen.writing # None
  /\ \E shown \in {screen.writing, screen.shown.narrative} :
       screen' = [screen EXCEPT !.writing = None, !.shown.narrative = shown]
  /\ UNCHANGED <<mock, server, page, tasks, clicks, earned, blurred, crossed, overlap>>

(* The first tab of the panel: the alert, and under it the MITRE entry of  *)
(* whatever intelligence there is, also while the next one loads.          *)
InfoPanel == [of |-> screen.of, mitre |-> screen.shown["intel"]]

(* What the panel shows under Threat Intel and Narrative.                  *)
Panel(d) == IF screen.busy[d] THEN "loading" ELSE screen.shown[d]

-----------------------------------------------------------------------------
(* Alerts screen: the mitigation dialog                                    *)

Mitigate ==
  /\ screen.tab = "alerts"
  /\ ~screen.open
  /\ screen.of # None
  /\ screen.status # "contained"
  /\ Click
  /\ screen' = [screen EXCEPT !.open = TRUE, !.dialog = "idle"]
  /\ crossed' = (crossed \/ PlaybookRuns)
  /\ UNCHANGED <<mock, server, page, tasks, earned, blurred, overlap>>

(* Execute Playbook; mock mode waits 1.8 s instead of asking the backend.  *)
ExecutePlaybook ==
  /\ screen.tab = "alerts"
  /\ screen.open
  /\ screen.dialog = "idle"
  /\ Click
  /\ screen' = [screen EXCEPT !.dialog = "running"]
  /\ Begin("soar", IF mock THEN "posted" ELSE "post", screen.of, "screen")
  /\ earned' = IF mock THEN earned \cup {screen.of} ELSE earned
  /\ UNCHANGED <<mock, server, page, crossed, overlap>>

(* Cancel and Dismiss hide the dialog; a playbook goes on.                 *)
HideDialog ==
  /\ screen.tab = "alerts"
  /\ screen.open
  /\ screen' = [screen EXCEPT !.open = FALSE]
  /\ UNCHANGED <<mock, server, page, tasks, clicks, earned, blurred, crossed, overlap>>

PlaybookLandsOnSelection(k) ==
  LET a == IF OnScreen(k) /\ screen.of # None THEN screen.of ELSE tasks[k].of IN
  /\ tasks[k].run = "soar"
  /\ tasks[k].at = "posted"
  /\ page' = AddAuditLog([page EXCEPT !.alerts = Contain(@, {a})], a)
  /\ screen' = IF OnScreen(k) THEN [screen EXCEPT !.dialog = "success"] ELSE screen
  /\ IF mock THEN Ends(k) ELSE MovesTo(k, "log")
  /\ UNCHANGED <<mock, server, clicks, earned, blurred, crossed, overlap>>

(* finishSuccess: the alert it was started for is contained in the list;   *)
(* the dialog and the selection change whatever they are about by now, and *)
(* a changed selection asks for its details again.                         *)
PlaybookLands(k) == LET a == tasks[k].of IN
  /\ tasks[k].run = "soar"
  /\ tasks[k].at = "posted"
  /\ page' = AddAuditLog([page EXCEPT !.alerts = Contain(@, {a})], a)
  /\ IF ~OnScreen(k) THEN UNCHANGED <<screen, overlap>>
     ELSE LET done == [screen EXCEPT !.dialog = "success"]
          IN IF screen.of = None THEN screen' = done /\ UNCHANGED overlap
             ELSE /\ screen' = Inspect([done EXCEPT !.status = "contained"])
                  /\ InspectOverlaps(screen.of)
  /\ IF mock THEN Ends(k) ELSE MovesTo(k, "log")
  /\ UNCHANGED <<mock, server, clicks, earned, blurred, crossed>>

-----------------------------------------------------------------------------
(* Overview screen                                                         *)

OverviewData ==
  /\ screen.tab = "overview"
  /\ screen.at = "data"
  /\ \/ \E nodes \in BOOLEAN :
          LET read == [screen EXCEPT !.alerts = ListItems(DOMAIN server), !.nodes = nodes]
          IN screen' = IF mock THEN [read EXCEPT !.at = "idle", !.loading = FALSE]
                       ELSE [read EXCEPT !.at = "audit"]
     \/ screen' = [screen EXCEPT !.at = "idle", !.loading = FALSE, !.error = TRUE]
  /\ UNCHANGED <<mock, server, page, tasks, clicks, earned, blurred, crossed, overlap>>

OverviewAudit ==
  /\ screen.tab = "overview"
  /\ screen.at = "audit"
  /\ \E read \in BOOLEAN :
       screen' = [screen EXCEPT !.at = "idle", !.loading = FALSE, !.audit = read]
  /\ UNCHANGED <<mock, server, page, tasks, clicks, earned, blurred, crossed, overlap>>

(* Refresh, and Retry of the error card.                                   *)
OverviewRefresh ==
  /\ screen.tab = "overview"
  /\ ~screen.loading
  /\ Click
  /\ screen' = [screen EXCEPT !.at = "data", !.loading = TRUE, !.error = FALSE]
  /\ UNCHANGED <<mock, server, page, tasks, earned, blurred, crossed, overlap>>

-----------------------------------------------------------------------------
(* What a list screen, the topology and the audit log show                 *)

ListView(loading, error, rows) ==
  IF error THEN "error" ELSE IF loading THEN "loading"
  ELSE IF rows = {} THEN "empty" ELSE "rows"

OverviewView == ListView(screen.loading, screen.error, screen.alerts)
AlertsView == ListView(page.loading, page.error, DOMAIN page.alerts)
TopologyView ==
  IF page.loading THEN "loading" ELSE IF page.error THEN "error"
  ELSE IF page.graph \in {"none", "empty"} THEN "empty" ELSE "graph"
AuditView ==
  IF page.logError THEN "error"
  ELSE IF page.logs # "none" \/ page.own # {} THEN "rows"
  ELSE IF page.loading THEN "loading" ELSE "empty"

(* Retry of the alerts screen is enabled once loading is over, that of the *)
(* topology is only then shown.                                            *)
Retry ==
  /\ \/ screen.tab = "alerts" /\ AlertsView = "error" /\ ~page.loading /\ ~screen.open
     \/ screen.tab = "topology" /\ TopologyView = "error"
  /\ Click
  /\ page' = FetchStarts(page)
  /\ Begin("load", "data", None, "page")
  /\ UNCHANGED <<mock, server, screen, earned, crossed, overlap>>

(* Retry of the audit screen: does nothing in mock mode.                   *)
RetryAudit ==
  /\ screen.tab = "audit"
  /\ AuditView = "error"
  /\ ~page.loading
  /\ Click
  /\ Begin("log", "log", None, "page")
  /\ UNCHANGED <<mock, server, page, screen, earned, crossed, overlap>>

(* A node of the graph is clicked, or the selection cleared.               *)
SelectNode ==
  /\ screen.tab = "topology"
  /\ TopologyView = "graph"
  /\ Click
  /\ \E node \in BOOLEAN : page' = [page EXCEPT !.node = node]
  /\ UNCHANGED <<mock, server, screen, tasks, earned, blurred, crossed, overlap>>

-----------------------------------------------------------------------------
(* Digital twin                                                            *)

(* Inject, Authorize and Clear.                                            *)
TwinClick ==
  /\ screen.tab = "twin"
  /\ \E grid \in Grid : /\ <<screen.grid, grid>> \in TwinMoves
                        /\ screen' = [screen EXCEPT !.grid = grid]
  /\ UNCHANGED <<mock, server, page, tasks, clicks, earned, blurred, crossed, overlap>>

(* The timer of the current state sets the gauges.                         *)
TwinTicks ==
  /\ screen.tab = "twin"
  /\ screen' = [screen EXCEPT !.gauges = screen.grid]
  /\ UNCHANGED <<mock, server, page, tasks, clicks, earned, blurred, crossed, overlap>>

-----------------------------------------------------------------------------
(* Tabs and the page                                                       *)

(* Another tab: its screen starts afresh, tasks lose the screen they came  *)
(* from and go on.                                                         *)
ShowTab(tab) ==
  /\ screen.tab \notin {"none", tab}
  /\ screen.tab = "alerts" => ~screen.open
  /\ Click
  /\ screen' \in ScreenStarts(tab)
  /\ tasks' = [k \in Task |-> IF OnScreen(k) THEN [tasks[k] EXCEPT !.live = "page"]
                              ELSE tasks[k]]
  /\ crossed' = FALSE
  /\ overlap' = [d \in Detail |-> FALSE]
  /\ UNCHANGED <<mock, server, page, earned, blurred>>

(* The page mounts with the tab of its address and fetches.                *)
PageMounts(tab) ==
  /\ screen.tab = "none"
  /\ screen' \in ScreenStarts(tab)
  /\ Begin("load", "data", None, "page")
  /\ UNCHANGED <<mock, server, page, clicks, earned, crossed, overlap>>

(* The analyst leaves for another page: all state is lost; requests that   *)
(* change something at the backend are still served.                       *)
PageUnmounts ==
  /\ screen.tab # "none"
  /\ screen.tab = "alerts" => ~screen.open
  /\ Click
  /\ screen' = [tab |-> "none"]
  /\ page' = PageStart
  /\ tasks' = [k \in Task |-> IF tasks[k].at = "post"
                              THEN [tasks[k] EXCEPT !.live = "gone"] ELSE IdleTask]
  /\ crossed' = FALSE
  /\ overlap' = [d \in Detail |-> FALSE]
  /\ UNCHANGED <<mock, server, earned, blurred>>

DashboardInit ==
  /\ mock \in BOOLEAN
  /\ server \in IF mock THEN [Alert -> {"new", "contained"}]
                ELSE {[a \in S |-> "new"] : S \in Stores}
  /\ page = PageStart
  /\ screen = [tab |-> "none"]
  /\ tasks = [k \in Task |-> IdleTask]
  /\ clicks = 0
  /\ earned = {}
  /\ blurred = FALSE
  /\ crossed = FALSE
  /\ overlap = [d \in Detail |-> FALSE]

TaskStep(k) == \/ Fetch(k) \/ PostIsServed(k) \/ PostFails(k)
               \/ DecisionLands(k) \/ PlaybookLands(k)

DashboardNext ==
  \/ \E k \in Task : TaskStep(k)
  \/ \E a \in Alert, action \in {"approved", "dismissed"} : HandleAction(a, action)
  \/ \E a \in Alert : SelectAlert(a) \/ \E d \in Detail : DetailAnswers(d, a)
  \/ CloseAlert \/ GenerateNarrative \/ NarrativeIsWritten
  \/ Mitigate \/ ExecutePlaybook \/ HideDialog
  \/ OverviewData \/ OverviewAudit \/ OverviewRefresh
  \/ Retry \/ RetryAudit \/ SelectNode
  \/ TwinClick \/ TwinTicks
  \/ \E tab \in DashboardTab : ShowTab(tab) \/ PageMounts(tab)
  \/ PageUnmounts

DashboardSpec == DashboardInit /\ [][DashboardNext]_dashboardVars

-----------------------------------------------------------------------------
(* Properties                                                              *)

(* No alert is shown as contained that nothing contained: in the list a    *)
(* playbook or an approval stands behind it, or the backend says so; in    *)
(* the panel and in the dialog too, unless a playbook was running while    *)
(* the analyst turned to another alert or opened the dialog again.         *)
ContainedIsEarned ==
  LET Earned(a) == a \in earned \/ (a \in DOMAIN server /\ server[a] = "contained")
  IN /\ \A a \in DOMAIN page.alerts : page.alerts[a] = "contained" => Earned(a)
     /\ screen.tab = "alerts" /\ screen.of # None /\ ~crossed =>
          /\ screen.status = "contained" => Earned(screen.of)
          /\ screen.open /\ screen.dialog = "success" => Earned(screen.of)

(* Once nothing is on its way any more, the panel shows intelligence and   *)
(* the narrative of the selected alert or none, never those of an alert    *)
(* looked at before -- unless the answers of two alerts were on their way  *)
(* at once, which the page does not sort out.                              *)
DetailsBelongToSelection ==
  screen.tab = "alerts" /\ screen.of # None =>
    \A d \in Detail : InFlight(d) = {} /\ ~overlap[d] =>
      /\ Panel(d) \in {screen.of, None}
      /\ d = "intel" => InfoPanel.mitre \in {InfoPanel.of, None}

(* A page at rest mirrors the backend as far as it asks: when no function  *)
(* is in progress, the last load began alone and nothing failed since, the *)
(* list is the newest PageLimit anomalies, each with the status of the     *)
(* backend or contained by a playbook, and the review queue is the newest  *)
(* PageLimit of the new ones -- which the list need not contain.           *)
QuietIsCurrent ==
  ~mock /\ screen.tab # "none" /\ Busy = {} /\ ~blurred =>
    /\ DOMAIN page.alerts = ListItems(DOMAIN server)
    /\ \A a \in DOMAIN page.alerts : \/ page.alerts[a] = server[a]
                                    \/ /\ page.alerts[a] = "contained"
                                       /\ a \in earned
    /\ PendingIncidents = ListItems(NewAnomalies)

(* Whatever spins has a function at work behind it that will stop it: the  *)
(* page, the dialog, the incident being processed, the panel, the overview.*)
Works(run, at, on) ==
  \E k \in Task : tasks[k].run \in run /\ tasks[k].at \in at /\ tasks[k].live \in on
SpinnersAreHonest ==
  /\ screen.tab # "none" /\ page.loading =>
       Works({"load", "approve", "dismiss"}, Loads, {"page", "screen"})
  /\ screen.tab = "alerts" =>
       /\ screen.dialog = "running" => Works({"soar"}, {"post", "posted"}, {"screen"})
       /\ \A d \in Detail : screen.busy[d] => InFlight(d) # {}
  /\ screen.tab = "incident" /\ screen.processing # None =>
       Works({"approve", "dismiss"}, Loads \cup {"post", "posted", "log"}, {"screen"})
  /\ screen.tab = "overview" => (screen.loading <=> screen.at # "idle")

(* "Zero active threats detected" is shown only when the backend, asked,   *)
(* had none: never for a failed or unfinished load, in any overlap of      *)
(* loads and retries.                                                      *)
AllClearIsKnown ==
  /\ screen.tab = "alerts" /\ AlertsView = "empty" => DOMAIN server = {}
  /\ screen.tab = "overview" /\ OverviewView = "empty" => DOMAIN server = {}
=============================================================================
