# CyberShield NIC: TLA+ models and proofs

Models of this repository's concurrent and failure-prone parts, services and console, model-checked
with TLC and proved, where it matters most, with TLAPS. A module is a translation of the source, not
of its docs; `PROJECT.json` maps every definition to the lines it translates.

## 1. The system

| Component | Code | State it keeps | Operations |
|---|---|---|---|
| **A**, ingestion-detection | `ingestion_detection/main.py`, `supabase_store.py`, `correlation_forward.py` | table `signals` | scored ingest (two routes), list, preview, baseline build, user accounts |
| **B**, correlation-response | `correlation_response/main.py`, `supabase_store.py`, `audit.py`, `soar.py`, `narrative.py` | tables `anomalies`, `attributions`, `audit_logs`, `soar_actions` | correlate, narrative, decide, approve, reject, three SOAR actions, lists |
| Decision engine | `decision.py`, `correlate.py`, `label_to_mitre.json` | none (lazy caches) | attribution, blast radius, decision matrix |
| Attack graph | `graph/neo4j_loader.py`, `graph/builder.py` | `EXHIBITED` relationships in Neo4j | create, count connected assets, topology for the console |
| Backfill bridge | `replay_to_correlate.py` | none | fetch stored signals, correlate them again |
| Rate limiter | `shared/rate_limit.py` | a deque of stamps per key, one process | check, hit, reset |
| JWT verification | `shared/auth.py` | cached key set, time of fetch and of last forced fetch | verify a token, refetch on a key miss |
| Model and baseline | `predict.py`, `baseline/builder.py` | cached artifacts, two JSON files | score, build, load |
| Threat-intelligence corpus | `correlate.py` | two module globals filled lazily | lookup |
| Front-end session | `frontend/src/lib/api-client.ts`, `app/api/auth/*`, `proxy.ts`, login page, dashboard layout | per tab: access token, refresh in flight; per browser: two cookies | login, refresh, retry on 401, sign-out, guard of `/dashboard` |
| Dashboard | `app/dashboard/page.tsx` | alerts, graph, incidents, audit log of the page; the state of one of seven screens | load, retry, select, generate, approve, dismiss, mitigate |
| Threat monitor | `app/dashboard/threat-monitor/page.tsx` | one list, search, filters, order, page | load, refresh, page |
| Topology page | `app/dashboard/topology/page.tsx`, `GraphViewer.tsx` | graph, selection | load, select |
| Shell | `TopNavbar.tsx`, `Sidebar.tsx`, `app/page.tsx`, `app/dashboard/error.tsx` | route, theme, open menus, settings, landing demonstration | navigate, toggle, save, recover |

How they interact: the browser calls A and B with the user's token. A stores a signal, then calls
`POST /correlate` of B inside the ingest request, with a timeout, and reports the outcome without
ever failing the ingest. B writes four tables through PostgREST, one HTTP call per row and no
transaction, and the graph with best effort. The bridge reads A and posts to B. Both services run
handlers in a thread pool, in one or more worker processes that Gunicorn kills on timeout. The
console runs one event loop per tab: async functions that await one request after another, that nothing
cancels, over React state that comes and goes with pages and tabs.

What is hard, and where: interleaved handlers on one row (`_apply_human_review`, `save_narrative`),
multi-write operations without a transaction (`put`, SOAR actions), failures that are swallowed
(`log_action`, `_try_neo4j_update`) or turned into a default (`count_connected_assets`), answers lost
or late between A and B, duplicates from the bridge, clock readings taken outside a lock, caches with
a TTL, tabs that rotate one cookie, and answers that arrive after the user moved on. `PROJECT.json`
lists every hazard at its line.

What makes each component correct:

- **A and the handoff.** A stored signal is acknowledged whatever B does; a reported handoff exists;
  one signal makes one anomaly; an anomaly leads back to its signal; every ingest is answered.
- **B.** What is answered as correlated is durable; references hold within Postgres and from the
  graph to Postgres; handlers never undo each other; a status, a narrative and an action can be traced.
- **Decisions.** The recomputed decision agrees with the stored one, or is stricter.
- **Limiter.** Never more than the limit in a window; never a refusal without cause.
- **Key cache.** A withdrawn key expires with the TTL, a new one is accepted soon.
- **Session.** No stale refresh token over a newer one, no session back after a quiet sign-out,
  none ended without a cause (a reload over a refresh under way is one), no caller left waiting.
- **Console.** What is shown as contained, current, loading, all clear or complete is so; what is shown
  belongs to the selection.

## 2. Modules

| Module | Models | Used by |
|---|---|---|
| `Decision` | `correlate_detection`, `get_blast_radius_static`, `count_connected_assets`, `compute_decision` as operators | `Response` (EXTENDS) |
| `Response` | every handler of B that writes, the two paginated lists with totals, failures and dead workers | `StoreRefinement`, `Pipeline` (INSTANCE) |
| `AlertStore` | abstract: what B promises of its anomalies, with no handlers, tables or failures | `StoreRefinement` (INSTANCE ... WITH) |
| `StoreRefinement` | the mapping from the state of `Response` to the cases of `AlertStore` | `MCResponse` |
| `Pipeline` | A's ingest and handoff, the bridge, composed with B | `MCPipeline` |
| `WorkerClock` | `time.monotonic()` of a worker | the next two (EXTENDS) |
| `RateLimiter` | `SlidingWindowRateLimiter` | `Worker`, `MCRateLimiter` |
| `JwksCache` | `_JwksCache` and the key lookup of `_decode_token`, with the provider | `Worker` |
| `Worker` | what one worker process keeps for all requests: limiter and key cache, one followed per behaviour | `MCWorker` |
| `Session` | `api-client.ts` in every tab, the auth routes, guard, login page and layout; the provider from how the routes use it | `MCSession` |
| `Dashboard` | every async function of the dashboard page against its screens | `Console` (EXTENDS) |
| `ThreatMonitor`, `Topology`, `Shell` | the other pages and what surrounds them | `Console` (EXTENDS) |
| `Figures`, `GridTwin`, `MockRoutes` | summary figures; the digital twin's states; the mock routes' answers and the path map | the pages |
| `Console` | the four parts of the console, one followed per behaviour | `MCConsole` |
| `ResponseProofs`, `TracingProofs`, `RateLimiterProofs`, `JwksProofs`, `SessionProofs`, `DashboardProofs`, `ScreensProofs`, `PipelineProofs` | theorems | |

**Response.** A request is a record: its operation, program counter, and the values the handler
carries from one call to the next (`prev` is `previous_status`, `attr` the attribution it read, `dec`
the decision). One action is one call to the database, the graph or the corpus, with the code up to the
next one. `Begin` is the entry of a handler up to its first call or early answer. A write ends in one of
three ways: *ok*, *refused*, *unacknowledged* (applied, answer lost); `After` is the code that raises,
`Answer` and `Goto` the code that swallows. Foreign keys are in `Accepted`. The tables are functions from
identifiers to rows, `anomaly_id` being UNIQUE; `audit` and `soar` are sets of rows tagged with the request
that wrote them. Identifiers of `uuid4` are fresh; `StrayIds` are those a client sends that were never
issued. Handlers that read one row or one page and answer it are left out: they change nothing and no
property is about their answers.

| Action | Code |
|---|---|
| `Correlate`, `InsertAnomaly`, `InsertAttribution`, `UpdateGraph`, `Enrich` | `main.correlate`, `put`, `_try_neo4j_update` |
| `Review`, `UpdateStatus`, `Reread`, `LogAction` | `_apply_human_review`, `update_status` |
| `Decide`, `ReadAttribution`, `Compute`, `LogAction` | `decide_endpoint` |
| `Narrate`, `ReadAttribution`, `LogAction`, `SaveNarrative` | `generate_narrative_endpoint`, `generate_narrative`, `save_narrative` |
| `Soar`, `RecordSoar`, `LogAction` | `soar_isolate`, `soar_block`, `soar_revoke`, `soar.py` |
| `ListPage`, `CountRows` | `list_anomalies`, `list_attributions` |
| `ReadFails`, `Crash` | `StoreUnavailableError`, the corpus, Gunicorn |

**AlertStore.** An identifier stands for a case that is stored with its decision, then attributed, then
perhaps linked into the graph, may be judged and told any number of times, and may be promised to its client
once both rows are there; nothing ever goes back. `StoreRefinement` puts a case together from the row, the
attribution, the edges and the answers under its identifier: each of B's steps, in whichever handler, is one
step of one case or none.

**Pipeline.** `ing[i]` is one ingest request: scoring (any outcome, ids included), `Enqueue`, alignment,
the handoff. B is `INSTANCE Response` with its own variables, restricted to correlations; a call is one
of B's requests, and the caller may give up on it at any time while B goes on. `fill[f]` is one run of
the bridge.

**RateLimiter.** A call is two steps: reading the clock, and everything under the lock. `MaxDelay`
bounds the ticks between them. `granted` is a history variable: the times of the grants of a key since
its reset.

**JwksCache.** `call` is the verification under way: the dependencies are coroutines that do not await, so
a worker has one at a time. A fetch is three steps, its start, the provider's answer and its arrival, so that keys
change while it runs; a forced one has set `_last_force` before any of them. `Expired` and `MayForce` are the two
conditions of `get`. `changed`, `previous` and `failedAt` are history variables: when a key was last published or
withdrawn, when the fetch before the cached one began, when one failed last. Two assumptions relate the
constants as the code's do (10 s, 30 s and 600 s): `MaxFetch < MinForce <= Ttl`. The timeout of `httpx` is per phase
of a request, so that `MaxFetch` is an assumption about the provider too.

**Worker.** Limiter and key cache share the clock of their process and nothing else, so a behaviour follows one of them
and leaves the other as it starts; the run checks the properties of both.

**Session.** Per tab: `page`, `token` (with its expiry, as fresh or stale), `tried`, `refresh` (the shared
promise and where its request is), `form`, and the logout requests nobody awaits; per browser: `cookie` and
`flag`; at the provider: `live`, the refresh tokens it accepts, each good for one use. A refresh is four
steps: sent with the cookie of that moment, served by the provider, landed in the browser with the cookie
it sets or deletes, and the callers woken. A page that goes away abandons its refresh (`AbandonRefresh`), which stops neither the route
handler nor the provider: the token is rotated, or already was, and the new one is dropped with the answer, or the request
never left and nothing happened. A call is `ensureAuth`, the send, the silent renewal after a 401 and
the one resend. Pages load, navigate and unload at any time: memory and answers go, cookies stay. `cause` and
`quiet` are history variables the properties read. Token names are reused once no cookie, request or
provider holds them, so that behaviours are unbounded in time.

**Dashboard.** A *task* is one async function in progress: `load`, an approval or dismissal with the load
behind it, a SOAR playbook, a log entry. `at` is what it awaits, `read` what the backend put into the
answer on its way, `live` how much of what it was started from is still mounted. `page` is the state of
`DashboardPage`, `screen` that of the one tab shown; both are lost when they unmount, the
requests are not. Details of an alert (intelligence, narrative) are counted in `asked`, per alert, since their
answers come in any order. `server` is the status of every anomaly at the backend, which in this module only the
console changes: no anomaly arrives while a page is open. `ListItems` is what one request lists, the newest
`PageLimit` rows: the page names no limit and asks for no second page, the backend's default is 50 (`main.py` 258 and 669). So
the list of alerts and the review queue are two lists, of all anomalies and of the new ones, and neither need contain the other; the
threat monitor and the overview work on the fetched list only. `Age` orders anomalies by `detected_at`. `"investigating"` is folded into `"new"`, which the page treats alike, and the audit log is seen under its
filter *all*. `earned`, `blurred`, `crossed` and `overlap` are history variables.

**ThreatMonitor, Topology, Shell.** One list cut into pages (`Place` is the index of a row after filter and
stable sort); one graph, its fallback and the selection; route, theme, menus, settings. The pages share no
state, so each behaviour of `Console` follows one `part`. The error boundary of Next.js keeps its message while the
path stays the same (external).

## 3. Runs

| Run | Instance | States | Shows |
|---|---|---|---|
| `response` | 3 requests, any operation; 2 anomalies and a stray id; DDoS 95, Bot 90, BENIGN; 1 failure | 170 k | the invariants of B |
| `response_graph` | 3 requests that correlate, decide, narrate or review; 3 assets exhibit T1498 already; 2 failures | 460 k | `DecideNeverRelaxes`, `ImplementsStore` |
| `graph_down` | the same operations, 4 requests, 1 failure | | violated: `UnavailableGraphFallsBack` |
| `soar_unrecorded` | `response` without failures | | violated: `SoarActionsAreRecorded` |
| `pipeline` | 2 ingests, client id or minted ones, 2 requests of B, 1 failure, handoff on | 235 k | the properties of the handoff, liveness |
| `backfill` | 1 ingest, 2 runs of the bridge, 3 requests of B, 1 failure | 20 k | `BackfillIsBounded` |
| `backfill_dangling` | 1 ingest, 1 run, no failure, handoff off | | violated: `AnomalyRefersToSignal` |
| `worker` | limiter: 3 threads, 1 key, 2 hits in 3 ticks, lock wait 1; cache: 2 keys, TTL 3, forced fetches 2 apart, fetches of 1; 7 ticks | 2.1 M | the bounds of the limiter; staleness, acceptance and spread of fetches |
| `late_stamps` | 2 threads | | violated: the limit stated exactly |
| `session` | 2 tabs, 2 calls of the first, 4 token names, 1 fault, 3 user moves, 1 logout at a time | 374 k | the session's invariants, `EndedForACause`, `CallsSettle` |
| `reload_ends` | 1 tab, 1 call, 3 token names, no fault, 3 moves | | violated: `ReloadKeepsSession` |
| `console` | 3 alerts of which an answer lists 2 (or 1 stored, or none), 2 tasks, 1 request per detail and alert, 4 clicks; lists of 0 to 3 rows in pages of 2 | 2.2 M | what the pages show |

*Why the bounds are enough.* Three requests are the smallest number that has two handlers racing on a row a
third one made; requests that touch other rows do not share state but for totals and the graph. The
detections are one per band that static estimates reach at high confidence, and the skipped class; the
graph run starts one asset below the threshold of 3, so that the runs cross it. One failure suffices
for every property stated under "unless a failure hit the service", and for the others each failure
is followed by any continuation; the graph run allows two, since a case can be hit both in `put` and in a
later handler. Two ingests and one client id are the smallest resend. The limiter's clock outlasts two windows, that of the key
cache two lives of a key set; the tick of a fetch lets a key change behind its back. Two tabs are what it takes to
race for a cookie, two calls of one tab what it takes to share a refresh, four token names let each tab hold one
while a third is on its way and a fourth is spent. Two tasks are the smallest overlap; three alerts
in answers of two are the smallest case in which list and queue differ, and include the two of a wrong selection; a list of three
rows in pages of two has a full page, a partial one and one past the end. The theorems of section 4 hold for
every value of these bounds but the two liveness properties and the properties named there.

*Symmetry* is used on requests, keys, threads, bridge runs and, in `backfill`, identifiers; not on alerts, whose `Age` tells them apart; never in a run
with a liveness property. Deadlock is checked but in `session` and `console`, where users may stop for good when
their moves are used up; elsewhere `Quiet` is the only step of a system that has nothing left to serve.

*Fairness.* In `Pipeline`, of A's own steps: the worker thread keeps running the handler, and
`httpx` gives up after `correlation_forward_timeout_sec`. Scoring is not forced to begin, and of B nothing is
assumed: `IngestIsAnswered` holds although B may never answer. In `Session`, of requests sent: the auth route, the
backend or the browser answers them or fails them in the end. Users, faults and expiry owe nothing. `Console`
and B assume none: no property of theirs needs it.

### What the properties except

A property is weaker than its name where the code leaves a hole. These are the exceptions, so that nobody reads more into a passing run:

- `StatusIsAccounted`, `ReviewTrail`, `NarrativeIsTraced` and `SoarIsTraced` promise a complete trail only of runs without a failure. A status
  whose read-back failed after the update (`supabase_store.py:231`) and an audit insert that failed silently (`audit.py:76`) are excused.
- `OneAnomalyPerSignal` and `AnomalyRefersToSignal` are about one id: a resend without an id is two signals, and a stored signal
  that was never handed on stays without an anomaly until a bridge runs.
- `DecideNeverRelaxes` is about the handlers, which only add to the graph. The seeding script with `--clear` deletes the techniques and with
  them their relationships (`neo4j_loader.py` 38-51, 166-171): after it a recomputed decision can be laxer.
- `SignOutSticks` is about the sign-out and what timers, calls and tabs do after it. The browser's *Back*, which shows a page of
  the router's cache without a token, is not a step of the model.
- `ContainedIsEarned` excepts, in panel and dialog, a playbook that ran while the selection changed or the dialog was opened again (`crossed`):
  there the code does mark the wrong alert (`page.tsx:1358`). `DetailsBelongToSelection` excepts answers for two alerts under way at once
  (`overlap`), which the page mixes up (`page.tsx:752`). Both are faults of the code that no doc denies; the properties bound them.
- `QuietIsCurrent` and `AllClearIsKnown` are about a backend that gains no anomalies while the page is open; the page does not poll, so that
  its age is all that could be said of new ones. "Current" means the newest `PageLimit` rows, not all.
- `PagesShowEverything` is about the fetched list, and excepts a page past the end of one that shrank.

### What the runs found

1. `graph_down`: with Neo4j configured and unreachable, `count_connected_assets` answers 0, so the
   documented fall-back to the static estimate never happens, and a decision that needs a human
   (DDoS, 10 assets) becomes `auto_execute`.
2. `soar_unrecorded`: a SOAR action on an unknown anomaly is answered 200 and recorded nowhere.
3. `backfill_dangling`: the bridge correlates the stored detection, whose `signal_id` was aligned with
   the row only in the copy that was handed on.
4. `late_stamps`: the limiter stamps a hit before it has the lock, so that the limit holds for windows
   shorter by the wait. `GrantsAreSpread` is the exact guarantee.
5. `reload_ends`: a page that is reloaded while its refresh is under way loses the session. The route handler rotates the
   token all the same, the cookie it sets is dropped with the answer nobody awaits, and the refresh on load presents the spent
   one: 401, cookie deleted, login page. `layout.tsx` (15-16) and `api-client.ts` (55-57, 463-466) say a reload keeps a valid session;
   that holds while no refresh is under way, which is what `EndedForACause` says. A provider that accepts a spent token
   again for a short while would hide this; the repository configures none.

Without the bridge `AnomalyRefersToSignal` holds (run `pipeline`): alignment before the live handoff does
what its comment says.

The properties of the console are stated with the exceptions the code forces on them. What modelling it showed,
where no doc of the repository promises otherwise:

- *Session.* The refresh route deletes the cookie on any answer that is not ok, an outage of the provider
  included, and a network failure of the refresh ends the session; two tabs that refresh with one cookie can sign each
  other out (`"lost"` and `"raced"` in `EndedForACause`; `"reloaded"` is finding 5). Sign-out deletes the cookie and revokes nothing; a
  refresh answered after it signs the tab in again (`quiet` in `SignOutSticks`), and an older refresh that fails after
  a new login deletes the new cookie. `cs_refresh` never reaches the guard, its path being that of the auth routes.
- *Dashboard.* A playbook's answer marks whichever alert is selected when it arrives (line 1358); cancelling and
  opening the dialog again can run it twice; the backend never stores the *contained* the dialog announces (line 1422), so
  that the next load takes it back. A failure of `/graph` or `/anomalies` leaves the review queue as it was
  (lines 248-269), and the queue says it is clear while it loads or after a swallowed failure (lines 1866-1876).
  The panel shows the MITRE details of the alert selected before until the answer is there. Audit entries are numbered
  from the length the closure saw (line 299), so that two can share a number.
- *Other pages.* The threat monitor's posture is *Guarded* while it loads or after a failure; a refresh that
  shrinks the list leaves the user on a page past the end, with *Next* still to press (line 440). The topology page shows its
  sample when the backend has no nodes. The settings screen reads the identity before a reload has restored
  the session. Two mock incidents refer to no mock alert. At an address without a tab the sidebar marks *Alerts* (`Sidebar.tsx:29`)
  while the page shows the overview (`page.tsx:168`); no property is about marks.

## 4. Proofs

Constants are arbitrary: the only assumptions are those stated by `ASSUME` in the modules (`ResponseAssumption`,
`PipelineAssumption`, `RateLimiterAssumption`, `JwksCacheAssumption`, `OwnerAssumption`, `BoundsAssumption`,
`DashboardAssumption`, `MonitorAssumption`, `TopologyAssumption`), which TLC evaluates in the runs.

**`ResponseProofs`.** `Spec => []TypeOK`, `[]ReferencesExist`, `[]CorrelateIsDurable`, the action property
`RowsEvolve`, and the refinement `StoreImplemented == Spec => ImplementsStore`. None of the invariants is inductive:
`CorrelateIsDurable` of an answered request needs to know that
its rows were there one call earlier, and that no other correlation writes under its identifier. So

    IInv == TypeOK /\ ReferencesExist /\ Unshared /\ \A r \in Requests : Sound(r)

where `Unshared` says that two correlations never have one identifier, and `Sound(r)` what the program
counter of `r` implies (past `insert_anomaly` the row exists with its decision, past
`insert_attribution` the attribution too, an update has a row to update, ...). Each action has a lemma
that it keeps `IInv`; `Frame` and `OthersStaySound` show once that a step of one request leaves the others
sound. For the refinement, `Unanswered` adds that no request has an answer before its end, and each action
has a lemma that it is one step of the case it works on, or a stutter.

**`TracingProofs`.** The rest of B's invariants. `TraceInv` strengthens the four tracing properties, each with what it
says of handlers under way: a review past its update left its row outside the queue (`ReviewsDecide`), the one that found it *new*
says so or will (`FirstReviewIsTold`), a handler about to save a narrative has audited it (`NarrativesAreAnnounced`) and the attribution
it read is still the row's (`AttributionsLast`), and without failures a SOAR action has both records or, on an identifier nobody
issued, neither (`ActionsAreCounted`). `PagesFit` is `PageWithinTotal` while the total is still to be counted. `DecideInv` compares
each stored decision with the one that would be made now (`Agrees`): the same without a graph, no laxer with one; `HumanStays` (a larger
radius never takes a human out) and `RadiusGrows` (relationships are only added) keep it.

**`RateLimiterProofs`.** `LimiterTypeOK`, `BucketBound`, `BucketFollowsGrants`, `GrantsAreSpread` and the action
property `RefusalIsJustified`. `IInv` adds `OnTime` (no caller waits for the lock longer than `MaxDelay`).
The heart of it is `Follows`: a bucket corresponds, stamp by stamp, to the end of the sequence of grants;
lemmas state that pruning (`FollowsKept`) and granting (`FollowsAppended`, `SpreadAppended`) keep it.

**`JwksProofs`.** `CacheTypeOK` and the three properties of the key cache. Each is about one step, and needs what
earlier steps left: `CacheIsCurrent` and `AnswerIsCurrent` say that a key on which the cache, or an answer under way,
differs from the provider changed since that fetch began; `ForceIsCounted` that the last forced fetch is
in the cache, failed, or is under way, so that the limit on forced fetches never hides a key for longer; `CacheIsSpread` and
`FetchIsSpread` that of two fetches in a row the second was forced or the first had expired.

**`SessionProofs`.** The four invariants of the session and `EndedForACause`, for any number of tabs, calls and tokens.
`QuietInv` says that a quietly signed-out tab is at the login page with no token, no hint that a session exists, and no
refresh or call of its own in flight, so that nothing can store a token again; `CookieInv` that granted tokens on their way
to a browser differ from one another and from the cookie, and are accepted unless an answer was lost or abandoned; `CauseInv` that without a cause at most one
request at a time changes the cookie, that it does so with a cookie the provider accepts, and that whoever is past the login page is signed in.

**`PipelineProofs`.** The six safety invariants of the signal path, for any number of ingests, runs of the bridge and
correlations. B's proofs are used, not repeated: `BP` is the instance of `TracingProofs` with the values `Pipeline` gives B, and a
few lemmas (`SameStep`, `SameCorrelate`, `SameInit`, ...) say that `B` and `BP` are the same service operator by operator. Seen
from B every step of the path begins a correlation, is a step of B or is none (`BSees`), so that B's invariant, its promises (`PromisesOfB`)
and the store it implements (`PathImplementsStore`: `Spec => BP!ImplementsStore`) carry over. The path's own invariant is

    IInv == TypeOK /\ BInv /\ IngestInv /\ NamesInv /\ SentAreStored /\ ChargeInv
            /\ (Backfills = {} => HandoffsOnly)

`BInv` adds to B's invariant that it serves only correlations and that every row comes from one. `IngestInv` says what stands behind
each ingest (its row, and the call it made, which is nobody else's). `NamesInv` says that ids are apart: a row goes by two
names, its own id and the id of the detection stored with it, which differ when each was minted on its own, and no other row or pending
ingest goes by either. `ChargeInv` is what bounds the duplicates: the correlations of a row can be charged, each to another one, to the
handoff or to a run of the bridge that no longer has the row to send; `BackfillIsBounded` follows by counting the injection.
`AnomalyRefersToSignal` and `OneAnomalyPerSignal` are proved under `Backfills = {}` (`HandoffsOnly`: every correlation is the call of an
ingest): with the bridge an anomaly may refer to an id no row has (the run `backfill_dangling` shows it), and a signal may
have an anomaly for every run that replays it, which is what `BackfillIsBounded` bounds.

**`DashboardProofs`.** The type invariant of `Dashboard`, which is itself a claim about the code: a
function that outlives its screen never writes into the state of another one. It needs that a playbook in
progress has an alert. Then `ContainedIsEarned`, `SpinnersAreHonest` and `AllClearIsKnown`, from what every
task in progress has read and is about to show (`RowsInv`, `OverviewInv`, `WorkInv`, `EarnedInv`, and `MountInv`: what a
task believes mounted is). `DetailsBelongToSelection` says something only once nothing is on its way; `DetailInv` says what holds before:
unless answers of two alerts crossed, whatever is on its way is for the selected alert. `QuietIsCurrent` is about a page at rest, and
becomes inductive by saying how a page that is not at rest may lag: as long as nothing blurs it at most one function is in hand, it has
not been cut off from its screen, what it has read is the backend as it is, and the list or queue it has shown already is current (`QuietInv`). For that it needs to know that statuses only change for rows that stay stored, so that which
rows an answer lists never changes while its page is open (`ListingStays`).

**`ScreensProofs`.** `PagesShowEverything` (a page is an interval of places, and places are a
bijection of the filtered rows), agreement of theme in the shell, and of inspector and drawing in the topology. A step of
`Console` is a step of the page that is followed and leaves the others alone (`ConsoleFollows`), so that the console
keeps its types (`ConsoleTypeCorrect`) and the eight promises of its pages (`ConsoleKeepsPromises`).

**Only model-checked:** the liveness properties `IngestIsAnswered` and `CallsSettle`, since fairness and `ENABLED` are out of TLAPS'
reach. Every safety invariant and action property of a passing run is proved. The pure operators of `Decision` are not
proved against a second definition: they are the tables of the source.

## 5. Not modelled, and why

- Text: prompts, templates, reasons, titles, envelopes, log lines. Titles are only used to look labels up, and
  `ATTACK_TITLES` is one-to-one; a client of `/correlate` that sends a title of another class is left out. With the text
  goes the narrative that a language model answers empty.
- The classifier and the z-score (floating point): any class with any listed confidence.
- The corpus and the race of its lazy load: in `Response` it is a lookup that may raise; which documents an answer lacks is text.
- The save of the baseline by two plain writes: what a reader of half a file sees is an exception of the scorer, one of `Pipeline`'s kinds.
- Tenancy: one tenant. Row-level security is evaluated by Postgres.
- Admins, whose reads are not restricted by policies but by the same `user_id` filter.
- `fetch`-before-`UPDATE` inside `update_status` and `save_narrative`: no code deletes a row, so it finds it; its failure has
  the effect of a refused update.
- Signatures, claims, roles, tokens signed with the shared secret and tokens that name no key: nothing there
  depends on a state that changes. A fetch that finds the key set expired is not limited in rate when it fails;
  `FetchesAreSpread` is about those that succeed.
- The seeding of techniques (`neo4j_loader.py`), `--clear` included, and the model's graph therefore only grows.
- The router's history: *Back* and *Forward* are not steps.
- Growth of the limiter's dictionary, and the number of worker processes: one process is modelled.
- Of the console: layout, coordinates, animation, formatting, charts and the vendored `components/ui`. Mock alerts are generated once per
  process and then fixed. The page behind *Back to overview* keeps its message when the path does not change.
- Training, preprocessing, replay and evaluation scripts: sequential numeric code.

## 6. What a further extension would add

1. `Corpus`, the lazily filled globals read by several threads, and `Baseline`, the two-file save and its readers.
2. The topology builder of `/graph` over pages of different length.
3. A dashboard beside other writers: `Dashboard` composed with `Response` in place of `server`, with anomalies that arrive while a page is open.
