-------------------------- MODULE DashboardProofs --------------------------
(***************************************************************************)
(* The dashboard, for any alerts and any number of functions in progress:  *)
(* types, honest spinners, no alert shown as contained that nothing        *)
(* contained, no all-clear that the backend did not give, the details of   *)
(* the selected alert only, and a page at rest that mirrors the backend.   *)
(***************************************************************************)
EXTENDS Dashboard, TLAPS, FiniteSetTheorems

-----------------------------------------------------------------------------
(* Partial functions                                                       *)

LEMMA PartialIntro ==
  ASSUME NEW T, NEW S \in SUBSET Alert, NEW f \in [S -> T]
  PROVE  f \in Partial(T)
  BY DEF Partial

LEMMA PartialElim ==
  ASSUME NEW T, NEW f \in Partial(T)
  PROVE  DOMAIN f \in SUBSET Alert /\ f \in [DOMAIN f -> T]
  BY DEF Partial

LEMMA NothingIsPartial == ASSUME NEW T PROVE Nothing \in Partial(T) /\ DOMAIN Nothing = {}
  <1>1. Nothing \in [{} -> T] /\ {} \in SUBSET Alert /\ DOMAIN Nothing = {}
    BY DEF Nothing
  <1> QED
    BY <1>1, PartialIntro

LEMMA ExceptIsPartial ==
  ASSUME NEW T, NEW f \in Partial(T), NEW a, NEW v \in T
  PROVE  [f EXCEPT ![a] = v] \in Partial(T) /\ DOMAIN [f EXCEPT ![a] = v] = DOMAIN f
  <1>1. DOMAIN f \in SUBSET Alert /\ f \in [DOMAIN f -> T]
    BY PartialElim
  <1>2. [f EXCEPT ![a] = v] \in [DOMAIN f -> T]
    BY <1>1
  <1> QED
    BY <1>1, <1>2, PartialIntro

LEMMA ContainIsPartial ==
  ASSUME NEW list \in Partial(Status), NEW as
  PROVE  /\ Contain(list, as) \in Partial(Status)
         /\ DOMAIN Contain(list, as) = DOMAIN list
         /\ \A a \in DOMAIN list :
              Contain(list, as)[a] = IF a \in as THEN "contained" ELSE list[a]
  <1>1. DOMAIN list \in SUBSET Alert /\ list \in [DOMAIN list -> Status]
    BY PartialElim
  <1>2. Contain(list, as) \in [DOMAIN list -> Status]
    BY <1>1 DEF Contain, Status
  <1> QED
    BY <1>1, <1>2, PartialIntro DEF Contain

Verdicts == {"pending", "approved", "dismissed"}

LEMMA QueueIsPartial ==
  ASSUME NEW read \in Partial(Status)
  PROVE  MapQueueToIncidents(read) \in Partial(Verdicts)
  <1>1. DOMAIN read \in SUBSET Alert
    BY PartialElim
  <1>2. MapQueueToIncidents(read) \in [DOMAIN read -> Verdicts]
    BY DEF MapQueueToIncidents, Verdicts
  <1> QED
    BY <1>1, <1>2, PartialIntro

-----------------------------------------------------------------------------
(* What the backend lists                                                  *)

LEMMA ListItemsAsked == ASSUME NEW S PROVE ListItems(S) \subseteq S
  BY DEF ListItems

LEMMA NewAnomaliesStored == NewAnomalies \subseteq DOMAIN server
  BY DEF NewAnomalies

LEMMA ListedIsPartial ==
  ASSUME server \in Partial(Status), NEW S \in SUBSET DOMAIN server
  PROVE  /\ Listed(S) \in Partial(Status)
         /\ DOMAIN Listed(S) = ListItems(S)
         /\ \A a \in DOMAIN Listed(S) : a \in DOMAIN server /\ Listed(S)[a] = server[a]
  <1>1. DOMAIN server \in SUBSET Alert /\ server \in [DOMAIN server -> Status]
    BY PartialElim
  <1>2. ListItems(S) \subseteq DOMAIN server
    BY ListItemsAsked
  <1>3. DOMAIN Listed(S) = ListItems(S) /\ Listed(S) \in [ListItems(S) -> Status]
    BY <1>1, <1>2 DEF Listed
  <1> QED
    BY <1>1, <1>2, <1>3, PartialIntro DEF Listed

(* Every set of naturals has a least one: that of its initial segments     *)
(* which contains no other.                                                *)
LEMMA LeastOf ==
  ASSUME NEW N \in SUBSET Nat, N # {}
  PROVE  \E n \in N : \A m \in N : ~(m < n)
  <1> DEFINE R == StrictSubsetOrdering(Nat)
             T == {0..n : n \in N}
  <1>1. IsWellFoundedOn(R, FiniteSubsetsOf(Nat))
    BY FS_StrictSubsetOrderingWellFounded
  <1>2. T \subseteq FiniteSubsetsOf(Nat)
    <2>1. ASSUME NEW n \in N PROVE IsFiniteSet(0..n) /\ 0..n \in SUBSET Nat
      BY FS_Interval
    <2> QED
      BY <2>1 DEF FiniteSubsetsOf
  <1>3. T # {}
    OBVIOUS
  <1>4. \A m, n \in N : m < n => <<0..m, 0..n>> \in R
    <2> SUFFICES ASSUME NEW m \in N, NEW n \in N, m < n PROVE <<0..m, 0..n>> \in R
      OBVIOUS
    <2>1. 0..m \subseteq 0..n /\ n \in 0..n /\ n \notin 0..m
      OBVIOUS
    <2>2. 0..m \in SUBSET Nat /\ 0..n \in SUBSET Nat
      OBVIOUS
    <2> QED
      BY <2>1, <2>2 DEF StrictSubsetOrdering
  <1>5. PICK t \in T : \A u \in T : ~(<<u, t>> \in R)
    <2> HIDE DEF R, T
    <2> QED
      BY <1>1, <1>2, <1>3, WFMin
  <1>6. PICK n \in N : t = 0..n
    BY <1>5
  <1>7. \A m \in N : 0..m \in T
    OBVIOUS
  <1> HIDE DEF R, T
  <1> QED
    BY <1>4, <1>5, <1>6, <1>7

(* A list is empty only when there is nothing to list: whatever the limit, *)
(* the newest row is in it.                                                *)
LEMMA ListEmpty ==
  ASSUME NEW S \in SUBSET Alert, ListItems(S) = {}
  PROVE  S = {}
  <1>1. SUFFICES ASSUME S # {} PROVE \E a \in S : a \in ListItems(S)
    OBVIOUS
  <1>2. Age \in [Alert -> Nat] /\ PageLimit \in Nat \ {0}
    BY DashboardAssumption
  <1>3. PICK a \in S : \A b \in S : ~(Age[b] < Age[a])
    <2> DEFINE N == {Age[b] : b \in S}
    <2>1. N \in SUBSET Nat /\ N # {}
      BY <1>1, <1>2
    <2> HIDE DEF N
    <2>2. PICK n \in N : \A m \in N : ~(m < n)
      BY <2>1, LeastOf
    <2> QED
      BY <2>2 DEF N
  <1>4. {b \in S : Age[b] < Age[a]} = {}
    BY <1>3
  <1>5. Cardinality({b \in S : Age[b] < Age[a]}) < PageLimit
    BY <1>2, <1>4, FS_EmptySet
  <1> QED
    BY <1>3, <1>5 DEF ListItems

-----------------------------------------------------------------------------
(* Screens                                                                 *)

Owners == Alert \cup {None}

LEMMA ScreenKinds ==
  ASSUME NEW s \in Screen
  PROVE  /\ s.tab = "overview" => s \in OverviewScreen
         /\ s.tab = "alerts" => s \in AlertsQueueScreen
         /\ s.tab = "twin" => s \in DigitalTwinScreen
         /\ s.tab = "incident" => s \in IncidentResponseScreen
         /\ s.tab \in DashboardTab \cup {"none"}
  BY DEF Screen, OverviewScreen, AlertsQueueScreen, DigitalTwinScreen,
         IncidentResponseScreen, ProfileSettingsScreen, PlainScreen, DashboardTab

LEMMA ScreensAreScreens ==
  /\ OverviewScreen \subseteq Screen /\ AlertsQueueScreen \subseteq Screen
  /\ DigitalTwinScreen \subseteq Screen /\ IncidentResponseScreen \subseteq Screen
  /\ ProfileSettingsScreen \subseteq Screen /\ PlainScreen \subseteq Screen
  BY DEF Screen

LEMMA ScreensStart ==
  ASSUME NEW tab \in DashboardTab, NEW s \in ScreenStarts(tab)
  PROVE  s \in Screen /\ s.tab = tab
  <1>1. CASE tab = "overview"
    <2>1. s = [tab |-> tab, at |-> "data", alerts |-> {}, nodes |-> FALSE,
               audit |-> FALSE, loading |-> TRUE, error |-> FALSE]
      BY <1>1 DEF ScreenStarts
    <2>2. s \in OverviewScreen /\ s.tab = tab
      BY <1>1, <2>1 DEF OverviewScreen
    <2> QED
      BY <2>2, ScreensAreScreens
  <1>2. CASE tab = "alerts"
    <2> DEFINE shown == [d \in Detail |-> None]
               busy == [d \in Detail |-> FALSE]
               asked == [d \in Detail |-> [a \in Alert |-> 0]]
    <2>1. s = [tab |-> tab, of |-> None, status |-> "new", shown |-> shown,
               busy |-> busy, asked |-> asked, writing |-> None,
               open |-> FALSE, dialog |-> "idle"]
      BY <1>2 DEF ScreenStarts
    <2>2. 0 \in 0..MaxAsks
      BY DashboardAssumption
    <2>3. /\ shown \in [Detail -> Alert \cup {None}]
          /\ busy \in [Detail -> BOOLEAN]
          /\ asked \in [Detail -> [Alert -> 0..MaxAsks]]
      BY <2>2
    <2> HIDE DEF shown, busy, asked
    <2>4. s \in AlertsQueueScreen /\ s.tab = tab
      BY <1>2, <2>1, <2>3 DEF AlertsQueueScreen, Status
    <2> QED
      BY <2>4, ScreensAreScreens
  <1>3. CASE tab = "twin"
    BY <1>3, ScreensAreScreens DEF ScreenStarts, DigitalTwinScreen, Grid
  <1>4. CASE tab = "incident"
    BY <1>4, ScreensAreScreens DEF ScreenStarts, IncidentResponseScreen
  <1>5. CASE tab = "settings"
    <2>1. s \in ProfileSettingsScreen /\ s.tab = tab
      BY <1>5 DEF ScreenStarts, ProfileSettingsScreen, ReadSessionIdentity
    <2> QED
      BY <2>1, ScreensAreScreens
  <1>6. CASE tab \in {"topology", "audit"}
    BY <1>6, ScreensAreScreens DEF ScreenStarts, PlainScreen
  <1> QED
    BY <1>1, <1>2, <1>3, <1>4, <1>5, <1>6 DEF DashboardTab

LEMMA InspectTypes ==
  ASSUME NEW s \in AlertsQueueScreen
  PROVE  /\ Inspect(s) \in AlertsQueueScreen
         /\ Inspect(s).of = s.of /\ Inspect(s).status = s.status
         /\ Inspect(s).open = s.open /\ Inspect(s).dialog = s.dialog
  <1>0. MaxAsks \in Nat \ {0}
    BY DashboardAssumption
  <1>1. CASE s.of = None
    BY <1>1 DEF Inspect, AlertsQueueScreen
  <1>2. CASE s.of # None
    <2>1. s.of \in Alert
      BY <1>2 DEF AlertsQueueScreen
    <2> DEFINE wanted == IF mock THEN {"intel"} ELSE Detail
               asked == [d \in Detail |->
                           IF d \in wanted THEN [s.asked[d] EXCEPT ![s.of] = More(@)]
                           ELSE s.asked[d]]
               busy == [d \in Detail |-> d \in wanted \/ s.busy[d]]
               shown == [s.shown EXCEPT !["narrative"] = IF mock THEN None ELSE @]
    <2>2. asked \in [Detail -> [Alert -> 0..MaxAsks]]
      <3>1. \A n \in 0..MaxAsks : More(n) \in 0..MaxAsks
        BY <1>0 DEF More
      <3>2. \A d \in Detail : s.asked[d] \in [Alert -> 0..MaxAsks]
        BY DEF AlertsQueueScreen
      <3> QED
        BY <2>1, <3>1, <3>2
    <2>3. busy \in [Detail -> BOOLEAN]
      BY DEF AlertsQueueScreen
    <2>4. shown \in [Detail -> Owners]
      BY DEF AlertsQueueScreen, Owners, Detail
    <2> HIDE DEF asked, busy, shown
    <2>5. Inspect(s) = [s EXCEPT !.asked = asked, !.busy = busy, !.shown = shown]
      BY <1>2 DEF Inspect, asked, busy, shown, AlertsQueueScreen
    <2> QED
      BY <2>2, <2>3, <2>4, <2>5 DEF AlertsQueueScreen, Owners
  <1> QED
    BY <1>1, <1>2

LEMMA CrossingTypes ==
  ASSUME NEW d \in Detail, NEW a, overlap \in [Detail -> BOOLEAN]
  PROVE  CrossesWith(d, a) \in BOOLEAN
  BY DEF CrossesWith

LEMMA AlertsScreen ==
  ASSUME DashboardTypeOK, screen.tab = "alerts"
  PROVE  screen \in AlertsQueueScreen
  BY ScreenKinds DEF DashboardTypeOK

-----------------------------------------------------------------------------
(* Tasks                                                                   *)

Runs == {"load", "log", "approve", "dismiss", "soar"}
Ats == {"data", "dataRead", "audit", "queue", "queueRead", "post", "posted", "log"}

(* Every other task is what it was.                                        *)
Others(k) == \A j \in Task \ {k} : tasks'[j] = tasks[j]

LEMMA BeginBegins ==
  ASSUME DashboardTypeOK, NEW run \in Runs, NEW at \in Ats, NEW of \in Owners,
         NEW live \in {"screen", "page"}, Begin(run, at, of, live)
  PROVE  /\ tasks' \in [Task -> TaskState]
         /\ blurred' \in BOOLEAN
         /\ \E k \in Task : /\ tasks[k].run = "idle"
                            /\ tasks'[k] = Starting(run, at, of, live)
                            /\ Others(k)
  <1>1. tasks \in [Task -> TaskState] /\ blurred \in BOOLEAN
    BY DEF DashboardTypeOK
  <1>2. PICK k \in Task : /\ IsNext(k)
                          /\ tasks' = [tasks EXCEPT ![k] = Starting(run, at, of, live)]
                          /\ blurred' = IF Busy # {} THEN TRUE
                                        ELSE IF run = "load" THEN FALSE ELSE blurred
    BY DEF Begin
  <1>3. Starting(run, at, of, live) \in TaskState
    BY NothingIsPartial DEF Starting, TaskState, Runs, Ats, Owners
  <1>4. tasks' \in [Task -> TaskState]
    BY <1>1, <1>2, <1>3
  <1>5. blurred' \in BOOLEAN
    BY <1>1, <1>2
  <1>6. tasks[k].run = "idle"
    BY <1>2 DEF IsNext, Busy
  <1>7. tasks'[k] = Starting(run, at, of, live) /\ Others(k)
    BY <1>1, <1>2 DEF Others
  <1> QED
    BY <1>4, <1>5, <1>6, <1>7

LEMMA MoveMoves ==
  ASSUME DashboardTypeOK, NEW k \in Task, NEW at \in Ats, MovesTo(k, at)
  PROVE  /\ tasks' \in [Task -> TaskState]
         /\ Others(k)
         /\ tasks'[k].run = tasks[k].run /\ tasks'[k].of = tasks[k].of
         /\ tasks'[k].live = tasks[k].live
         /\ tasks'[k].at = at /\ tasks'[k].read = Nothing
  <1>1. tasks \in [Task -> TaskState] /\ tasks[k] \in TaskState
    BY DEF DashboardTypeOK
  <1> DEFINE moved == [tasks[k] EXCEPT !.at = at, !.read = Nothing]
  <1>2. /\ moved \in TaskState /\ moved.run = tasks[k].run /\ moved.of = tasks[k].of
        /\ moved.live = tasks[k].live /\ moved.at = at /\ moved.read = Nothing
    BY <1>1, NothingIsPartial DEF TaskState, Ats
  <1>3. tasks' = [tasks EXCEPT ![k] = moved]
    BY DEF MovesTo
  <1> HIDE DEF moved
  <1>4. tasks' \in [Task -> TaskState] /\ tasks'[k] = moved /\ Others(k)
    BY <1>1, <1>2, <1>3 DEF Others
  <1> QED
    BY <1>2, <1>4

LEMMA EndEnds ==
  ASSUME DashboardTypeOK, NEW k \in Task, Ends(k)
  PROVE  /\ tasks' \in [Task -> TaskState]
         /\ Others(k)
         /\ tasks'[k] = IdleTask
  <1>1. tasks \in [Task -> TaskState]
    BY DEF DashboardTypeOK
  <1>2. IdleTask \in TaskState
    BY NothingIsPartial DEF IdleTask, TaskState
  <1>3. tasks' = [tasks EXCEPT ![k] = IdleTask]
    BY DEF Ends
  <1> QED
    BY <1>1, <1>2, <1>3 DEF Others

(* What a step of a function that goes on leaves of it.                    *)
Continues(k, at) ==
  /\ tasks'[k].run = tasks[k].run /\ tasks'[k].of = tasks[k].of
  /\ tasks'[k].live = tasks[k].live
  /\ tasks'[k].at = at /\ tasks'[k].read = Nothing

LEMMA ReturnReturns ==
  ASSUME DashboardTypeOK, NEW k \in Task, FetchReturns(k)
  PROVE  /\ tasks' \in [Task -> TaskState]
         /\ Others(k)
         /\ \/ tasks[k].run = "load" /\ tasks'[k] = IdleTask
            \/ tasks[k].run # "load" /\ Continues(k, "log")
  <1>1. CASE tasks[k].run = "load"
    BY <1>1, EndEnds DEF FetchReturns
  <1>2. CASE tasks[k].run # "load"
    BY <1>2, MoveMoves DEF FetchReturns, Ats, Continues
  <1> QED
    BY <1>1, <1>2

(* The answer to what the function has asked for.                          *)
Wanted(k) == IF tasks[k].at = "data" THEN Listed(DOMAIN server) ELSE Listed(NewAnomalies)

LEMMA ServedIsRead ==
  ASSUME DashboardTypeOK, NEW k \in Task, ReadIsServed(k)
  PROVE  /\ tasks' \in [Task -> TaskState]
         /\ Others(k)
         /\ tasks'[k].run = tasks[k].run /\ tasks'[k].of = tasks[k].of
         /\ tasks'[k].live = tasks[k].live
         /\ tasks'[k].at = IF tasks[k].at = "data" THEN "dataRead" ELSE "queueRead"
         /\ tasks'[k].read = Wanted(k)
         /\ \A a \in DOMAIN Wanted(k) : a \in DOMAIN server /\ Wanted(k)[a] = server[a]
  <1>1. tasks \in [Task -> TaskState] /\ tasks[k] \in TaskState /\ server \in Partial(Status)
    BY DEF DashboardTypeOK
  <1>0. /\ Wanted(k) \in Partial(Status)
        /\ \A a \in DOMAIN Wanted(k) : a \in DOMAIN server /\ Wanted(k)[a] = server[a]
    BY <1>1, ListedIsPartial, NewAnomaliesStored DEF Wanted
  <1> DEFINE at == IF tasks[k].at = "data" THEN "dataRead" ELSE "queueRead"
             moved == [tasks[k] EXCEPT !.at = at, !.read = Wanted(k)]
  <1>2. /\ moved \in TaskState /\ moved.run = tasks[k].run /\ moved.of = tasks[k].of
        /\ moved.live = tasks[k].live /\ moved.at = at /\ moved.read = Wanted(k)
    BY <1>0, <1>1 DEF TaskState
  <1>3. tasks' = [tasks EXCEPT ![k] = moved]
    BY <1>1 DEF ReadIsServed, Wanted
  <1> HIDE DEF moved
  <1>4. tasks' \in [Task -> TaskState] /\ tasks'[k] = moved /\ Others(k)
    BY <1>1, <1>2, <1>3 DEF Others
  <1> QED
    BY <1>0, <1>2, <1>4

-----------------------------------------------------------------------------
(* Types.  A playbook belongs to the alerts screen as long as it is on     *)
(* screen, and was started for an alert.                                   *)

PlaybooksHaveAlerts ==
  \A k \in Task : tasks[k].run = "soar" =>
    /\ tasks[k].of \in Alert
    /\ tasks[k].live = "screen" => screen.tab = "alerts"
DialogHasAlert == screen.tab = "alerts" /\ screen.open => screen.of # None

TypeInv == DashboardTypeOK /\ PlaybooksHaveAlerts /\ DialogHasAlert

(* The steps that change nothing but the screen.                           *)
ScreenStep ==
  \/ \E a \in Alert : SelectAlert(a) \/ \E d \in Detail : DetailAnswers(d, a)
  \/ CloseAlert \/ GenerateNarrative \/ NarrativeIsWritten
  \/ Mitigate \/ HideDialog
  \/ OverviewData \/ OverviewAudit \/ OverviewRefresh
  \/ TwinClick \/ TwinTicks

LEMMA ClickCounts ==
  ASSUME DashboardTypeOK, Click
  PROVE  clicks' \in 0..MaxClicks
  BY DashboardAssumption DEF DashboardTypeOK, Click

LEMMA PlaybookRunsIsBoolean == PlaybookRuns \in BOOLEAN
  BY DEF PlaybookRuns

LEMMA InspectOverlapsTypes ==
  ASSUME DashboardTypeOK, NEW a, InspectOverlaps(a)
  PROVE  overlap' \in [Detail -> BOOLEAN]
  <1>1. overlap \in [Detail -> BOOLEAN]
    BY DEF DashboardTypeOK
  <1>2. \A d \in Detail : CrossesWith(d, a) \in BOOLEAN
    BY <1>1, CrossingTypes
  <1> QED
    BY <1>1, <1>2 DEF InspectOverlaps

LEMMA SelectAlertTypes ==
  ASSUME TypeInv, NEW a \in Alert, SelectAlert(a)
  PROVE  /\ screen' \in AlertsQueueScreen /\ overlap' \in [Detail -> BOOLEAN]
         /\ screen'.of = a /\ screen'.status = page.alerts[a] /\ ~screen'.open
         /\ screen'.dialog = screen.dialog
         /\ a \in DOMAIN page.alerts
  <1>1. screen \in AlertsQueueScreen /\ ~screen.open
    BY AlertsScreen DEF SelectAlert, TypeInv
  <1>2. a \in DOMAIN page.alerts
    BY DEF SelectAlert, FilteredAlerts
  <1>3. page.alerts \in Partial(Status)
    BY DEF TypeInv, DashboardTypeOK, Page
  <1>4. page.alerts[a] \in Status
    BY <1>2, <1>3, PartialElim
  <1> DEFINE s == [screen EXCEPT !.of = a, !.status = page.alerts[a]]
  <1>5. /\ s \in AlertsQueueScreen /\ s.of = a /\ s.status = page.alerts[a]
        /\ s.open = screen.open /\ s.dialog = screen.dialog
    BY <1>1, <1>4 DEF AlertsQueueScreen
  <1>6. screen' = Inspect(s)
    BY DEF SelectAlert
  <1>7. overlap' \in [Detail -> BOOLEAN]
    BY InspectOverlapsTypes DEF SelectAlert, TypeInv
  <1> HIDE DEF s
  <1> QED
    BY <1>1, <1>2, <1>5, <1>6, <1>7, InspectTypes

LEMMA CloseAlertTypes ==
  ASSUME TypeInv, CloseAlert
  PROVE  /\ screen' \in AlertsQueueScreen
         /\ screen'.of = None /\ ~screen'.open
         /\ screen'.dialog = screen.dialog
  <1>1. screen \in AlertsQueueScreen /\ ~screen.open
    BY AlertsScreen DEF CloseAlert, TypeInv
  <1> DEFINE s == [screen EXCEPT !.of = None, !.status = "new"]
  <1>2. /\ s \in AlertsQueueScreen /\ s.of = None /\ s.open = screen.open
        /\ s.dialog = screen.dialog
    BY <1>1 DEF AlertsQueueScreen, Status
  <1>3. screen' = Inspect(s)
    BY DEF CloseAlert
  <1> HIDE DEF s
  <1> QED
    BY <1>1, <1>2, <1>3, InspectTypes

LEMMA DetailAnswersTypes ==
  ASSUME TypeInv, NEW a \in Alert, NEW d \in Detail, DetailAnswers(d, a)
  PROVE  /\ screen' \in AlertsQueueScreen
         /\ screen'.of = screen.of /\ screen'.status = screen.status
         /\ screen'.open = screen.open /\ screen'.dialog = screen.dialog
         /\ ~screen'.busy[d]
         /\ \A e \in Detail \ {d} : /\ screen'.busy[e] = screen.busy[e]
                                    /\ screen'.asked[e] = screen.asked[e]
  <1>1. screen \in AlertsQueueScreen
    BY AlertsScreen DEF DetailAnswers, TypeInv
  <1>2. PICK found \in {a, None} :
          screen' = [screen EXCEPT !.asked[d][a] = @ - 1, !.busy[d] = FALSE,
                                   !.shown[d] = found]
    BY DEF DetailAnswers
  <1> DEFINE asked == [screen.asked EXCEPT ![d][a] = @ - 1]
             busy == [screen.busy EXCEPT ![d] = FALSE]
             shown == [screen.shown EXCEPT ![d] = found]
  <1>3. MaxAsks \in Nat
    BY DashboardAssumption
  <1>4. screen.asked[d] \in [Alert -> 0..MaxAsks] /\ screen.asked[d][a] > 0
    BY <1>1 DEF AlertsQueueScreen, DetailAnswers
  <1>5. screen.asked[d][a] - 1 \in 0..MaxAsks
    BY <1>3, <1>4
  <1>6. [screen.asked[d] EXCEPT ![a] = @ - 1] \in [Alert -> 0..MaxAsks]
    BY <1>4, <1>5
  <1>7. /\ asked \in [Detail -> [Alert -> 0..MaxAsks]]
        /\ \A e \in Detail \ {d} : asked[e] = screen.asked[e]
    BY <1>1, <1>6 DEF AlertsQueueScreen
  <1>8. /\ busy \in [Detail -> BOOLEAN] /\ ~busy[d]
        /\ \A e \in Detail \ {d} : busy[e] = screen.busy[e]
    BY <1>1 DEF AlertsQueueScreen
  <1>9. shown \in [Detail -> Alert \cup {None}]
    BY <1>1 DEF AlertsQueueScreen
  <1>10. screen' = [screen EXCEPT !.asked = asked, !.busy = busy, !.shown = shown]
    BY <1>1, <1>2 DEF AlertsQueueScreen
  <1> HIDE DEF asked, busy, shown
  <1>11. screen' \in AlertsQueueScreen
    BY <1>1, <1>7, <1>8, <1>9, <1>10 DEF AlertsQueueScreen
  <1>12. /\ screen'.asked = asked /\ screen'.busy = busy
         /\ screen'.of = screen.of /\ screen'.status = screen.status
         /\ screen'.open = screen.open /\ screen'.dialog = screen.dialog
    BY <1>1, <1>10 DEF AlertsQueueScreen
  <1> QED
    BY <1>7, <1>8, <1>11, <1>12

(* Where the narrative is written, everything else of the screen stays.    *)
LEMMA NarrativeTypes ==
  ASSUME TypeInv, GenerateNarrative \/ NarrativeIsWritten
  PROVE  /\ screen' \in AlertsQueueScreen
         /\ screen'.of = screen.of /\ screen'.status = screen.status
         /\ screen'.open = screen.open /\ screen'.dialog = screen.dialog
         /\ screen'.busy = screen.busy /\ screen'.asked = screen.asked
  <1>1. screen \in AlertsQueueScreen
    BY AlertsScreen DEF GenerateNarrative, NarrativeIsWritten, TypeInv
  <1>2. \A v \in Alert \cup {None} :
          [screen.shown EXCEPT !.narrative = v] \in [Detail -> Alert \cup {None}]
    BY <1>1 DEF AlertsQueueScreen, Detail
  <1>3. PICK writing \in Alert \cup {None}, shown \in [Detail -> Alert \cup {None}] :
          screen' = [screen EXCEPT !.writing = writing, !.shown = shown]
    <2>0. /\ screen.of \in Alert \cup {None} /\ screen.writing \in Alert \cup {None}
          /\ screen.shown.narrative \in Alert \cup {None}
          /\ screen.shown \in [Detail -> Alert \cup {None}]
      BY <1>1 DEF AlertsQueueScreen, Detail
    <2>1. CASE GenerateNarrative /\ mock
      <3>1. screen' = [screen EXCEPT !.shown.narrative = screen.of]
        BY <2>1 DEF GenerateNarrative
      <3>2. screen' = [screen EXCEPT !.writing = screen.writing,
                                     !.shown = [screen.shown EXCEPT !.narrative = screen.of]]
        BY <1>1, <3>1 DEF AlertsQueueScreen
      <3> QED
        BY <1>2, <2>0, <3>2
    <2>2. CASE GenerateNarrative /\ ~mock
      <3>1. screen' = [screen EXCEPT !.writing = screen.of]
        BY <2>2 DEF GenerateNarrative
      <3>2. screen' = [screen EXCEPT !.writing = screen.of, !.shown = screen.shown]
        BY <1>1, <3>1 DEF AlertsQueueScreen
      <3> QED
        BY <2>0, <3>2
    <2>3. CASE NarrativeIsWritten
      <3>1. PICK v \in {screen.writing, screen.shown.narrative} :
              screen' = [screen EXCEPT !.writing = None, !.shown.narrative = v]
        BY <2>3 DEF NarrativeIsWritten
      <3>2. screen' = [screen EXCEPT !.writing = None,
                                     !.shown = [screen.shown EXCEPT !.narrative = v]]
        BY <1>1, <3>1 DEF AlertsQueueScreen
      <3> QED
        BY <1>2, <2>0, <3>2
    <2> QED
      BY <2>1, <2>2, <2>3 DEF GenerateNarrative
  <1> QED
    BY <1>1, <1>3 DEF AlertsQueueScreen

LEMMA DialogTypes ==
  ASSUME TypeInv, Mitigate \/ HideDialog
  PROVE  /\ screen' \in AlertsQueueScreen
         /\ screen'.of = screen.of /\ screen'.status = screen.status
         /\ screen'.busy = screen.busy /\ screen'.asked = screen.asked
         /\ Mitigate => screen'.open /\ screen'.dialog = "idle" /\ screen.of # None
         /\ HideDialog => ~screen'.open /\ screen'.dialog = screen.dialog
  <1>1. screen \in AlertsQueueScreen
    BY AlertsScreen DEF Mitigate, HideDialog, TypeInv
  <1>2. CASE Mitigate
    <2>1. ~screen.open /\ screen.of # None
          /\ screen' = [screen EXCEPT !.open = TRUE, !.dialog = "idle"]
      BY <1>2 DEF Mitigate
    <2>2. ~HideDialog
      BY <2>1 DEF HideDialog
    <2> QED
      BY <1>1, <2>1, <2>2 DEF AlertsQueueScreen
  <1>3. CASE HideDialog
    <2>1. screen.open /\ screen' = [screen EXCEPT !.open = FALSE]
      BY <1>3 DEF HideDialog
    <2>2. ~Mitigate
      BY <2>1 DEF Mitigate
    <2> QED
      BY <1>1, <2>1, <2>2 DEF AlertsQueueScreen
  <1> QED
    BY <1>2, <1>3

OverviewStep == OverviewData \/ OverviewAudit \/ OverviewRefresh

LEMMA OverviewTypes ==
  ASSUME TypeInv, OverviewStep
  PROVE  screen \in OverviewScreen /\ screen' \in OverviewScreen
  <1>1. screen \in OverviewScreen
    BY ScreenKinds DEF OverviewStep, OverviewData, OverviewAudit, OverviewRefresh,
                       TypeInv, DashboardTypeOK
  <1>2. ListItems(DOMAIN server) \in SUBSET Alert
    BY PartialElim, ListItemsAsked DEF TypeInv, DashboardTypeOK
  <1>3. CASE OverviewData
    BY ZenonT(60), <1>1, <1>2, <1>3 DEF OverviewData, OverviewScreen
  <1>4. CASE OverviewAudit
    BY <1>1, <1>4 DEF OverviewAudit, OverviewScreen
  <1>5. CASE OverviewRefresh
    BY <1>1, <1>5 DEF OverviewRefresh, OverviewScreen
  <1> QED
    BY <1>1, <1>3, <1>4, <1>5 DEF OverviewStep

LEMMA TwinTypes ==
  ASSUME TypeInv, TwinClick \/ TwinTicks
  PROVE  screen' \in DigitalTwinScreen
  <1>1. screen \in DigitalTwinScreen
    BY ScreenKinds DEF TwinClick, TwinTicks, TypeInv, DashboardTypeOK
  <1> QED
    BY <1>1 DEF TwinClick, TwinTicks, DigitalTwinScreen

AlertsStep ==
  \/ \E a \in Alert : SelectAlert(a) \/ \E d \in Detail : DetailAnswers(d, a)
  \/ CloseAlert \/ GenerateNarrative \/ NarrativeIsWritten
  \/ Mitigate \/ HideDialog

LEMMA AlertsStepTypes ==
  ASSUME TypeInv, AlertsStep
  PROVE  screen.tab = "alerts" /\ screen' \in AlertsQueueScreen /\ DialogHasAlert'
  <1>1. screen.tab = "alerts"
    BY ZenonT(60) DEF AlertsStep, SelectAlert, DetailAnswers, CloseAlert, GenerateNarrative,
           NarrativeIsWritten, Mitigate, HideDialog
  <1>2. screen.open => screen.of # None
    BY <1>1 DEF TypeInv, DialogHasAlert
  <1>3. screen' \in AlertsQueueScreen /\ (screen'.open => screen'.of # None)
    BY <1>2, SelectAlertTypes, DetailAnswersTypes, CloseAlertTypes, NarrativeTypes,
       DialogTypes DEF AlertsStep
  <1> QED
    BY <1>1, <1>3 DEF DialogHasAlert

LEMMA ScreenStepFrame ==
  ASSUME TypeInv, ScreenStep
  PROVE  /\ UNCHANGED <<mock, server, page, tasks, earned, blurred>>
         /\ screen.tab # "none" /\ screen'.tab = screen.tab
         /\ screen' \in Screen /\ clicks' \in 0..MaxClicks
         /\ crossed' \in BOOLEAN /\ overlap' \in [Detail -> BOOLEAN]
         /\ DialogHasAlert'
  <1>0. /\ DashboardTypeOK
        /\ clicks \in 0..MaxClicks /\ crossed \in BOOLEAN /\ overlap \in [Detail -> BOOLEAN]
    BY DEF TypeInv, DashboardTypeOK
  <1>1. CASE AlertsStep
    <2>1. UNCHANGED <<mock, server, page, tasks, earned, blurred>>
      BY ZenonT(60), <1>1 DEF AlertsStep, SelectAlert, DetailAnswers, CloseAlert,
                  GenerateNarrative, NarrativeIsWritten, Mitigate, HideDialog
    <2>2. clicks' \in 0..MaxClicks
      BY ZenonT(60), <1>0, <1>1, ClickCounts
         DEF AlertsStep, SelectAlert, DetailAnswers, CloseAlert,
             GenerateNarrative, NarrativeIsWritten, Mitigate, HideDialog
    <2>3. crossed' \in BOOLEAN
      BY ZenonT(60), <1>0, <1>1, PlaybookRunsIsBoolean
         DEF AlertsStep, SelectAlert, DetailAnswers, CloseAlert,
             GenerateNarrative, NarrativeIsWritten, Mitigate, HideDialog
    <2>4. overlap' \in [Detail -> BOOLEAN]
      <3>1. CASE \E a \in Alert : SelectAlert(a)
        BY <3>1, SelectAlertTypes
      <3>2. CASE GenerateNarrative
        <4>1. \/ overlap' = overlap
              \/ overlap' = [overlap EXCEPT !["narrative"] =
                               @ \/ InFlight("narrative") \ {screen.of} # {}]
          BY <3>2 DEF GenerateNarrative
        <4> QED
          BY <1>0, <4>1
      <3> QED
        BY <1>0, <1>1, <3>1, <3>2
           DEF AlertsStep, DetailAnswers, CloseAlert,
               NarrativeIsWritten, Mitigate, HideDialog
    <2>5. screen' \in Screen /\ screen.tab = "alerts" /\ screen'.tab = "alerts"
          /\ DialogHasAlert'
      BY <1>1, AlertsStepTypes, ScreensAreScreens DEF AlertsQueueScreen
    <2> QED
      BY <2>1, <2>2, <2>3, <2>4, <2>5
  <1>2. CASE OverviewStep
    <2>1. screen.tab = "overview" /\ screen' \in Screen /\ screen'.tab = "overview"
      BY <1>2, OverviewTypes, ScreensAreScreens DEF OverviewScreen
    <2>2. clicks' \in 0..MaxClicks
      BY <1>0, <1>2, ClickCounts DEF OverviewStep, OverviewData, OverviewAudit, OverviewRefresh
    <2> QED
      BY <1>0, <1>2, <2>1, <2>2
         DEF OverviewStep, OverviewData, OverviewAudit, OverviewRefresh, DialogHasAlert
  <1>3. CASE TwinClick \/ TwinTicks
    <2>1. screen.tab = "twin" /\ screen' \in Screen /\ screen'.tab = "twin"
      BY <1>3, TwinTypes, ScreensAreScreens DEF DigitalTwinScreen, TwinClick, TwinTicks
    <2> QED
      BY <1>0, <1>3, <2>1 DEF TwinClick, TwinTicks, DialogHasAlert
  <1> QED
    BY <1>1, <1>2, <1>3 DEF ScreenStep, AlertsStep, OverviewStep

-----------------------------------------------------------------------------
(* What the steps of a function leave of the page                          *)

LEMMA TaskTypes ==
  ASSUME DashboardTypeOK, NEW k \in Task
  PROVE  /\ tasks[k].run \in Runs \cup {"idle"} /\ tasks[k].at \in Ats \cup {"idle"}
         /\ tasks[k].of \in Owners /\ tasks[k].live \in {"screen", "page", "gone"}
         /\ tasks[k].read \in Partial(Status)
  BY DEF DashboardTypeOK, TaskState, Runs, Ats, Owners

(* fetchData returned: the spinner is off, and the function ended or reads *)
(* the audit log.                                                          *)
Returned(k) ==
  /\ ~page'.loading
  /\ \/ tasks[k].run = "load" /\ tasks'[k] = IdleTask
     \/ tasks[k].run # "load" /\ Continues(k, "log")

LEMMA DataLandsTypes ==
  ASSUME DashboardTypeOK, NEW k \in Task, DataLands(k)
  PROVE  /\ page' \in Page /\ tasks' \in [Task -> TaskState] /\ Others(k)
         /\ page'.alerts = tasks[k].read /\ page'.error = page.error
         /\ mock => Returned(k)
         /\ ~mock => page'.loading = page.loading /\ Continues(k, "audit")
  <1>1. page \in Page /\ tasks[k].read \in Partial(Status)
    BY TaskTypes DEF DashboardTypeOK
  <1>2. PICK graph \in {"none", "empty", "backend", "fallback"} :
          LET loaded == [page EXCEPT !.alerts = tasks[k].read, !.graph = graph]
          IN IF mock
               THEN /\ page' = [loaded EXCEPT
                          !.logs = IF @ = "none" /\ page.own = {} THEN "sample" ELSE @,
                          !.loading = FALSE]
                    /\ FetchReturns(k)
               ELSE page' = loaded /\ MovesTo(k, "audit")
    BY DEF DataLands
  <1>3. CASE mock
    <2> DEFINE logs == IF page.logs = "none" /\ page.own = {} THEN "sample" ELSE page.logs
    <2>0. logs \in {"none", "backend", "sample"}
      BY <1>1 DEF Page
    <2>4. page' = [page EXCEPT !.alerts = tasks[k].read, !.graph = graph,
                               !.logs = logs, !.loading = FALSE]
      BY <1>1, <1>2, <1>3 DEF Page
    <2> HIDE DEF logs
    <2>1. page' \in Page /\ page'.alerts = tasks[k].read /\ page'.error = page.error
          /\ ~page'.loading
      BY <1>1, <1>2, <2>0, <2>4 DEF Page
    <2>2. FetchReturns(k)
      BY <1>2, <1>3
    <2> QED
      BY <1>3, <2>1, <2>2, ReturnReturns DEF Returned
  <1>4. CASE ~mock
    <2>1. page' \in Page /\ page'.alerts = tasks[k].read /\ page'.error = page.error
          /\ page'.loading = page.loading
      BY <1>1, <1>2, <1>4 DEF Page
    <2>2. MovesTo(k, "audit")
      BY <1>2, <1>4
    <2> QED
      BY <1>4, <2>1, <2>2, MoveMoves DEF Continues, Ats
  <1> QED
    BY <1>3, <1>4

LEMMA DataFailsTypes ==
  ASSUME DashboardTypeOK, NEW k \in Task, DataFails(k)
  PROVE  /\ page' \in Page /\ tasks' \in [Task -> TaskState] /\ Others(k)
         /\ \/ page'.alerts = page.alerts
            \/ tasks[k].at = "dataRead" /\ page'.alerts = tasks[k].read
         /\ page'.error /\ Returned(k)
  <1>1. page \in Page /\ tasks[k].read \in Partial(Status)
    BY TaskTypes DEF DashboardTypeOK
  <1>2. PICK list : /\ \/ list = page.alerts
                       \/ tasks[k].at = "dataRead" /\ list = tasks[k].read
                    /\ page' = [page EXCEPT !.alerts = list,
                                            !.graph = IF mock THEN "fallback" ELSE "none",
                                            !.error = TRUE, !.loading = FALSE]
    BY DEF DataFails
  <1>3. list \in Partial(Status)
    BY <1>1, <1>2 DEF Page
  <1>4. page' \in Page /\ page'.alerts = list /\ page'.error /\ ~page'.loading
    BY <1>1, <1>2, <1>3 DEF Page
  <1>5. FetchReturns(k)
    BY DEF DataFails
  <1> QED
    BY <1>2, <1>4, <1>5, ReturnReturns DEF Returned

LEMMA AuditLandsTypes ==
  ASSUME DashboardTypeOK, NEW k \in Task, AuditLands(k)
  PROVE  /\ page' \in Page /\ tasks' \in [Task -> TaskState] /\ Others(k)
         /\ page'.alerts = page.alerts /\ page'.error = page.error
         /\ page'.loading = page.loading /\ Continues(k, "queue")
  <1>1. page \in Page
    BY DEF DashboardTypeOK
  <1>2. page' \in Page /\ page'.alerts = page.alerts /\ page'.error = page.error
        /\ page'.loading = page.loading
    BY <1>1 DEF AuditLands, Page
  <1>3. MovesTo(k, "queue")
    BY DEF AuditLands
  <1> QED
    BY <1>2, <1>3, MoveMoves DEF Continues, Ats

LEMMA RefreshReviewQueueTypes ==
  ASSUME DashboardTypeOK, NEW k \in Task, RefreshReviewQueue(k)
  PROVE  /\ page' \in Page /\ tasks' \in [Task -> TaskState] /\ Others(k)
         /\ page'.alerts = page.alerts /\ page'.error = page.error /\ Returned(k)
  <1>1. page \in Page /\ tasks[k].read \in Partial(Status)
    BY TaskTypes DEF DashboardTypeOK
  <1>2. MapQueueToIncidents(tasks[k].read) \in Partial({"pending", "approved", "dismissed"})
    BY <1>1, QueueIsPartial DEF Verdicts
  <1>3. page' \in Page /\ page'.alerts = page.alerts /\ page'.error = page.error
        /\ ~page'.loading
    <2>1. CASE page' = [page EXCEPT !.incidents = MapQueueToIncidents(tasks[k].read),
                                    !.loading = FALSE]
      BY <1>1, <1>2, <2>1 DEF Page
    <2>2. CASE page' = [page EXCEPT !.loading = FALSE]
      BY <1>1, <2>2 DEF Page
    <2> QED
      BY <2>1, <2>2 DEF RefreshReviewQueue
  <1>4. FetchReturns(k)
    BY DEF RefreshReviewQueue
  <1> QED
    BY <1>3, <1>4, ReturnReturns DEF Returned

(* The finally of handleAction.                                            *)
LEMMA AfterActionTypes ==
  ASSUME DashboardTypeOK, NEW k \in Task
  PROVE  /\ AfterAction(k) \in Screen /\ AfterAction(k).tab = screen.tab
         /\ \/ AfterAction(k) = screen /\ ~(OnScreen(k) /\ screen.tab = "incident")
            \/ /\ OnScreen(k) /\ screen.tab = "incident"
               /\ AfterAction(k).processing = None
  <1>1. CASE OnScreen(k) /\ screen.tab = "incident"
    <2>1. screen \in IncidentResponseScreen
      BY <1>1, ScreenKinds DEF DashboardTypeOK
    <2>2. AfterAction(k) = [screen EXCEPT !.processing = None]
      BY <1>1 DEF AfterAction
    <2>3. AfterAction(k) \in IncidentResponseScreen /\ AfterAction(k).processing = None
      BY <2>1, <2>2 DEF IncidentResponseScreen
    <2> QED
      BY <1>1, <2>1, <2>3, ScreensAreScreens DEF IncidentResponseScreen
  <1>2. CASE ~(OnScreen(k) /\ screen.tab = "incident")
    BY <1>2 DEF AfterAction, DashboardTypeOK
  <1> QED
    BY <1>1, <1>2

LEMMA RefreshAuditLogsTypes ==
  ASSUME DashboardTypeOK, NEW k \in Task, RefreshAuditLogs(k)
  PROVE  /\ page' \in Page /\ tasks' \in [Task -> TaskState] /\ Others(k)
         /\ page'.alerts = page.alerts /\ page'.error = page.error
         /\ page'.loading = page.loading /\ tasks'[k] = IdleTask
         /\ screen' = AfterAction(k)
  <1>1. page \in Page
    BY DEF DashboardTypeOK
  <1>2. page' \in Page /\ page'.alerts = page.alerts /\ page'.error = page.error
        /\ page'.loading = page.loading
    BY <1>1 DEF RefreshAuditLogs, Page
  <1> QED
    BY <1>2, EndEnds DEF RefreshAuditLogs

LEMMA PostIsServedTypes ==
  ASSUME DashboardTypeOK, PlaybooksHaveAlerts, NEW k \in Task, PostIsServed(k)
  PROVE  /\ server' \in Partial(Status) /\ DOMAIN server' = DOMAIN server
         /\ \/ server' = server
            \/ \E v \in {"acknowledged", "false_positive"} :
                 server' = [server EXCEPT ![tasks[k].of] = v]
         /\ tasks[k].run = "soar" => server' = server
         /\ earned' \subseteq Alert /\ earned \subseteq earned'
         /\ tasks[k].run = "soar" => tasks[k].of \in earned'
         /\ tasks' \in [Task -> TaskState] /\ Others(k)
         /\ \/ Mounted(k) /\ Continues(k, "posted")
            \/ ~Mounted(k) /\ tasks'[k] = IdleTask
         /\ blurred' \in BOOLEAN
  <1>1. server \in Partial(Status) /\ earned \subseteq Alert /\ blurred \in BOOLEAN
    BY DEF DashboardTypeOK
  <1>2. \/ server' = server
        \/ \E v \in {"acknowledged", "false_positive"} :
             server' = [server EXCEPT ![tasks[k].of] = v]
    BY DEF PostIsServed
  <1>3. server' \in Partial(Status) /\ DOMAIN server' = DOMAIN server
    BY <1>1, <1>2, ExceptIsPartial DEF Status
  <1>4. tasks[k].run = "soar" => server' = server
    BY DEF PostIsServed
  <1>5. /\ earned' \subseteq Alert /\ earned \subseteq earned'
        /\ tasks[k].run = "soar" => tasks[k].of \in earned'
    BY <1>1 DEF PostIsServed, PlaybooksHaveAlerts
  <1>6. blurred' \in BOOLEAN
    BY <1>1 DEF PostIsServed
  <1>7. CASE Mounted(k)
    <2>1. MovesTo(k, "posted")
      BY <1>7 DEF PostIsServed
    <2>2. tasks' \in [Task -> TaskState] /\ Others(k) /\ Continues(k, "posted")
      BY <2>1, MoveMoves DEF Ats, Continues
    <2> QED
      BY <1>2, <1>3, <1>4, <1>5, <1>6, <1>7, <2>2
  <1>8. CASE ~Mounted(k)
    <2>1. Ends(k)
      BY <1>8 DEF PostIsServed
    <2>2. tasks' \in [Task -> TaskState] /\ Others(k) /\ tasks'[k] = IdleTask
      BY <2>1, EndEnds
    <2> QED
      BY <1>2, <1>3, <1>4, <1>5, <1>6, <1>8, <2>2
  <1> QED
    BY <1>7, <1>8

LEMMA PostFailsTypes ==
  ASSUME DashboardTypeOK, PlaybooksHaveAlerts, NEW k \in Task, PostFails(k)
  PROVE  /\ tasks' \in [Task -> TaskState] /\ Others(k) /\ tasks'[k] = IdleTask
         /\ blurred' \in BOOLEAN
         /\ screen' \in Screen /\ screen'.tab = screen.tab
         /\ tasks[k].run # "soar" => screen' = AfterAction(k)
         /\ tasks[k].run = "soar" /\ ~OnScreen(k) => screen' = screen
         /\ tasks[k].run = "soar" /\ OnScreen(k) =>
              /\ screen.tab = "alerts" /\ screen.dialog \in {"idle", "running", "success"}
              /\ screen' = [screen EXCEPT !.dialog = "idle"]
  <1>1. tasks' \in [Task -> TaskState] /\ Others(k) /\ tasks'[k] = IdleTask
    BY EndEnds DEF PostFails
  <1>2. blurred' \in BOOLEAN
    BY DEF DashboardTypeOK, PostFails
  <1>3. CASE tasks[k].run # "soar"
    BY <1>1, <1>2, <1>3, AfterActionTypes DEF PostFails
  <1>4. CASE tasks[k].run = "soar" /\ ~OnScreen(k)
    BY <1>1, <1>2, <1>4 DEF PostFails, DashboardTypeOK
  <1>5. CASE tasks[k].run = "soar" /\ OnScreen(k)
    <2>1. screen.tab = "alerts" /\ screen \in AlertsQueueScreen
      BY <1>5, AlertsScreen DEF PlaybooksHaveAlerts, OnScreen
    <2>2. screen' = [screen EXCEPT !.dialog = "idle"]
      BY <1>5 DEF PostFails
    <2>3. screen' \in AlertsQueueScreen /\ screen'.tab = screen.tab
          /\ screen.dialog \in {"idle", "running", "success"}
      BY <2>1, <2>2 DEF AlertsQueueScreen
    <2> QED
      BY <1>1, <1>2, <1>5, <2>1, <2>2, <2>3, ScreensAreScreens
  <1> QED
    BY <1>3, <1>4, <1>5

LEMMA DecisionLandsTypes ==
  ASSUME DashboardTypeOK, NEW k \in Task, DecisionLands(k)
  PROVE  /\ page' \in Page /\ tasks' \in [Task -> TaskState] /\ Others(k)
         /\ page'.alerts = page.alerts /\ page'.loading /\ ~page'.error
         /\ Continues(k, "data")
  <1>1. page \in Page
    BY DEF DashboardTypeOK
  <1>2. page' \in Page /\ page'.alerts = page.alerts /\ page'.loading /\ ~page'.error
    BY <1>1 DEF DecisionLands, FetchStarts, Page
  <1>3. MovesTo(k, "data")
    BY DEF DecisionLands
  <1> QED
    BY <1>2, <1>3, MoveMoves DEF Continues, Ats

LEMMA ContainingTypes ==
  ASSUME page \in Page, NEW a \in Alert
  PROVE  LET p == AddAuditLog([page EXCEPT !.alerts = Contain(@, {a})], a)
         IN p \in Page /\ p.alerts = Contain(page.alerts, {a})
            /\ p.loading = page.loading /\ p.error = page.error
  <1>1. Contain(page.alerts, {a}) \in Partial(Status)
    BY ContainIsPartial DEF Page
  <1> DEFINE q == [page EXCEPT !.alerts = Contain(@, {a})]
  <1>2. /\ q \in Page /\ q.alerts = Contain(page.alerts, {a})
        /\ q.loading = page.loading /\ q.error = page.error
    BY <1>1 DEF Page
  <1> HIDE DEF q
  <1>3. /\ AddAuditLog(q, a) \in Page /\ AddAuditLog(q, a).alerts = q.alerts
        /\ AddAuditLog(q, a).loading = q.loading /\ AddAuditLog(q, a).error = q.error
    BY <1>2 DEF AddAuditLog, Page
  <1> QED
    BY <1>2, <1>3 DEF q

LEMMA PlaybookLandsTypes ==
  ASSUME TypeInv, NEW k \in Task, PlaybookLands(k)
  PROVE  /\ page' \in Page /\ tasks' \in [Task -> TaskState] /\ Others(k)
         /\ page'.alerts = Contain(page.alerts, {tasks[k].of})
         /\ page'.loading = page.loading /\ page'.error = page.error
         /\ tasks'[k] = IdleTask \/ Continues(k, "log")
         /\ overlap' \in [Detail -> BOOLEAN]
         /\ \/ ~OnScreen(k) /\ screen' = screen
            \/ /\ OnScreen(k) /\ screen.tab = "alerts" /\ screen' \in AlertsQueueScreen
               /\ screen'.of = screen.of /\ screen'.open = screen.open
               /\ screen'.dialog = "success"
               /\ screen.of # None => screen'.status = "contained"
  <1>0. DashboardTypeOK /\ page \in Page /\ overlap \in [Detail -> BOOLEAN]
    BY DEF TypeInv, DashboardTypeOK
  <1>1. tasks[k].run = "soar" /\ tasks[k].of \in Alert
    BY DEF PlaybookLands, TypeInv, PlaybooksHaveAlerts
  <1>2. /\ page' \in Page /\ page'.alerts = Contain(page.alerts, {tasks[k].of})
        /\ page'.loading = page.loading /\ page'.error = page.error
    BY <1>0, <1>1, ContainingTypes DEF PlaybookLands
  <1>3. /\ tasks' \in [Task -> TaskState] /\ Others(k)
        /\ tasks'[k] = IdleTask \/ Continues(k, "log")
    <2>1. Ends(k) \/ MovesTo(k, "log")
      BY DEF PlaybookLands
    <2> QED
      BY <1>0, <2>1, EndEnds, MoveMoves DEF Ats, Continues
  <1>4. CASE ~OnScreen(k)
    BY <1>0, <1>2, <1>3, <1>4 DEF PlaybookLands
  <1>5. CASE OnScreen(k)
    <2>1. screen.tab = "alerts" /\ screen \in AlertsQueueScreen
      BY <1>0, <1>1, <1>5, AlertsScreen DEF TypeInv, PlaybooksHaveAlerts, OnScreen
    <2> DEFINE done == [screen EXCEPT !.dialog = "success"]
               seen == [done EXCEPT !.status = "contained"]
    <2>2. /\ done \in AlertsQueueScreen /\ done.of = screen.of
          /\ done.open = screen.open /\ done.dialog = "success"
      BY <2>1 DEF AlertsQueueScreen
    <2>3. /\ seen \in AlertsQueueScreen /\ seen.of = screen.of
          /\ seen.open = screen.open /\ seen.dialog = "success" /\ seen.status = "contained"
      BY <2>1 DEF AlertsQueueScreen, Status
    <2>4. \/ screen.of = None /\ screen' = done /\ overlap' = overlap
          \/ screen.of # None /\ screen' = Inspect(seen) /\ InspectOverlaps(screen.of)
      BY <1>5 DEF PlaybookLands
    <2> HIDE DEF done, seen
    <2>5. overlap' \in [Detail -> BOOLEAN]
      BY <1>0, <2>4, InspectOverlapsTypes
    <2>6. /\ screen' \in AlertsQueueScreen /\ screen'.of = screen.of
          /\ screen'.open = screen.open /\ screen'.dialog = "success"
          /\ screen.of # None => screen'.status = "contained"
      BY <2>2, <2>3, <2>4, InspectTypes
    <2> QED
      BY <1>2, <1>3, <1>5, <2>1, <2>5, <2>6
  <1> QED
    BY <1>4, <1>5

LEMMA HitsContainTypes ==
  ASSUME DashboardTypeOK, NEW a \in Alert, NEW action \in {"approved", "dismissed"},
         ResolveIncident(a, action)
  PROVE  /\ page' \in Page
         /\ page'.loading = page.loading /\ page'.error = page.error
         /\ earned' \subseteq Alert /\ earned \subseteq earned'
         /\ \/ page'.alerts = page.alerts
            \/ /\ page'.alerts = Contain(page.alerts, Hits[a])
               /\ Hits[a] \subseteq earned'
  <1>1. page \in Page /\ earned \subseteq Alert /\ Hits[a] \subseteq Alert
    BY DashboardAssumption DEF DashboardTypeOK
  <1> DEFINE incidents == [page.incidents EXCEPT ![a] = action]
             q == [page EXCEPT !.incidents = incidents]
             r == AddAuditLog(q, a)
             list == Contain(page.alerts, Hits[a])
  <1>2. incidents \in Partial({"pending", "approved", "dismissed"})
    BY <1>1, ExceptIsPartial DEF Page
  <1> HIDE DEF incidents
  <1>3. /\ q \in Page /\ q.alerts = page.alerts /\ q.loading = page.loading
        /\ q.error = page.error
    BY <1>1, <1>2 DEF Page
  <1>4. q = [page EXCEPT !.incidents[a] = action]
    BY <1>1 DEF Page, incidents
  <1> HIDE DEF q
  <1>5. /\ r \in Page /\ r.alerts = page.alerts /\ r.loading = page.loading
        /\ r.error = page.error
    BY <1>3 DEF AddAuditLog, Page
  <1>6. IF action = "approved"
          THEN page' = [r EXCEPT !.alerts = Contain(@, Hits[a])] /\ earned' = earned \cup Hits[a]
          ELSE page' = r /\ earned' = earned
    BY <1>4 DEF ResolveIncident
  <1>7. list \in Partial(Status)
    BY <1>1, ContainIsPartial DEF Page
  <1> HIDE DEF r, list
  <1>8. CASE action = "approved"
    <2>1. page' = [r EXCEPT !.alerts = list]
      BY <1>5, <1>6, <1>8 DEF Page, list
    <2>2. /\ page' \in Page /\ page'.loading = page.loading /\ page'.error = page.error
          /\ page'.alerts = list
      BY <1>5, <1>7, <2>1 DEF Page
    <2> QED
      BY <1>1, <1>6, <1>8, <2>2 DEF list
  <1>9. CASE action # "approved"
    BY <1>1, <1>5, <1>6, <1>9
  <1> QED
    BY <1>8, <1>9

LEMMA HandleActionTypes ==
  ASSUME DashboardTypeOK, NEW a \in Alert, NEW action \in {"approved", "dismissed"},
         HandleAction(a, action)
  PROVE  /\ clicks' \in 0..MaxClicks /\ screen.tab = "incident"
         /\ \/ ResolveIncident(a, action)
            \/ /\ ~mock
               /\ screen' \in IncidentResponseScreen /\ screen'.processing = a
               /\ Begin(IF action = "approved" THEN "approve" ELSE "dismiss", "post", a, "screen")
               /\ UNCHANGED <<page, earned>>
  <1>1. screen.tab = "incident" /\ screen \in IncidentResponseScreen
    BY ScreenKinds DEF HandleAction, DashboardTypeOK
  <1>2. [screen EXCEPT !.processing = a] \in IncidentResponseScreen
        /\ [screen EXCEPT !.processing = a].processing = a
    BY <1>1 DEF IncidentResponseScreen
  <1>3. clicks' \in 0..MaxClicks
    BY ClickCounts DEF HandleAction
  <1> QED
    BY <1>1, <1>2, <1>3 DEF HandleAction

LEMMA ExecutePlaybookTypes ==
  ASSUME TypeInv, ExecutePlaybook
  PROVE  /\ clicks' \in 0..MaxClicks
         /\ screen.tab = "alerts" /\ screen.open /\ screen.of \in Alert
         /\ screen' \in AlertsQueueScreen /\ screen'.of = screen.of
         /\ screen'.status = screen.status /\ screen'.open /\ screen'.dialog = "running"
         /\ screen'.busy = screen.busy /\ screen'.asked = screen.asked
         /\ earned' \subseteq Alert /\ earned \subseteq earned'
         /\ mock => screen.of \in earned'
  <1>1. screen.tab = "alerts" /\ screen.open /\ screen \in AlertsQueueScreen
    BY AlertsScreen DEF ExecutePlaybook, TypeInv
  <1>2. screen.of \in Alert
    BY <1>1 DEF TypeInv, DialogHasAlert, AlertsQueueScreen
  <1>3. screen' = [screen EXCEPT !.dialog = "running"]
    BY DEF ExecutePlaybook
  <1>4. /\ screen' \in AlertsQueueScreen /\ screen'.of = screen.of
        /\ screen'.status = screen.status /\ screen'.open /\ screen'.dialog = "running"
        /\ screen'.busy = screen.busy /\ screen'.asked = screen.asked
    BY <1>1, <1>3 DEF AlertsQueueScreen
  <1>5. clicks' \in 0..MaxClicks
    BY ClickCounts DEF ExecutePlaybook, TypeInv
  <1>6. /\ earned' \subseteq Alert /\ earned \subseteq earned'
        /\ mock => screen.of \in earned'
    BY <1>2 DEF ExecutePlaybook, TypeInv, DashboardTypeOK
  <1> QED
    BY <1>1, <1>2, <1>4, <1>5, <1>6

LEMMA RetryTypes ==
  ASSUME DashboardTypeOK, Retry
  PROVE  /\ page' \in Page /\ page'.alerts = page.alerts
         /\ page'.loading /\ ~page'.error /\ clicks' \in 0..MaxClicks
  <1>1. page \in Page
    BY DEF DashboardTypeOK
  <1>2. page' = [page EXCEPT !.loading = TRUE, !.error = FALSE] /\ Click
    BY DEF Retry, FetchStarts
  <1> QED
    BY <1>1, <1>2, ClickCounts DEF Page

LEMMA SelectNodeTypes ==
  ASSUME DashboardTypeOK, SelectNode
  PROVE  /\ page' \in Page /\ page'.alerts = page.alerts
         /\ page'.loading = page.loading /\ page'.error = page.error
         /\ clicks' \in 0..MaxClicks
  <1>1. page \in Page /\ clicks' \in 0..MaxClicks
    BY ClickCounts DEF DashboardTypeOK, SelectNode
  <1>2. PICK node \in BOOLEAN : page' = [page EXCEPT !.node = node]
    BY DEF SelectNode
  <1> QED
    BY <1>1, <1>2 DEF Page

LEMMA PageStarts ==
  /\ PageStart \in Page
  /\ PageStart.alerts = Nothing /\ PageStart.loading /\ ~PageStart.error
  <1>1. [a \in Alert |-> "pending"] \in Partial({"pending", "approved", "dismissed"})
    <2>1. [a \in Alert |-> "pending"] \in [Alert -> {"pending", "approved", "dismissed"}]
      OBVIOUS
    <2> QED
      BY <2>1, PartialIntro
  <1>2. Nothing \in Partial({"pending", "approved", "dismissed"})
    BY NothingIsPartial
  <1>3. Nothing \in Partial(Status)
    BY NothingIsPartial
  <1> DEFINE incidents == IF mock THEN [a \in Alert |-> "pending"] ELSE Nothing
  <1>4. incidents \in Partial({"pending", "approved", "dismissed"})
    BY <1>1, <1>2
  <1>5. PageStart = [alerts |-> Nothing, graph |-> "none", loading |-> TRUE,
                     error |-> FALSE, node |-> FALSE, logs |-> "none", own |-> {},
                     logError |-> FALSE, incidents |-> incidents]
    BY DEF PageStart
  <1> HIDE DEF incidents
  <1> QED
    BY <1>3, <1>4, <1>5 DEF Page

(* A tab is changed: every function stays what it is, but for the screen   *)
(* it loses.                                                               *)
LEMMA ShowTabTypes ==
  ASSUME DashboardTypeOK, NEW tab \in DashboardTab, ShowTab(tab)
  PROVE  /\ tasks' \in [Task -> TaskState]
         /\ \A k \in Task :
              /\ tasks'[k].run = tasks[k].run /\ tasks'[k].at = tasks[k].at
              /\ tasks'[k].of = tasks[k].of /\ tasks'[k].read = tasks[k].read
              /\ tasks'[k].live # "screen"
              /\ tasks'[k].live = "gone" <=> tasks[k].live = "gone"
         /\ clicks' \in 0..MaxClicks
         /\ screen' \in ScreenStarts(tab) /\ screen.tab # "none"
         /\ overlap' \in [Detail -> BOOLEAN]
  <1>1. tasks \in [Task -> TaskState]
    BY DEF DashboardTypeOK
  <1>2. \A k \in Task : /\ [tasks[k] EXCEPT !.live = "page"] \in TaskState
                        /\ [tasks[k] EXCEPT !.live = "page"].live = "page"
                        /\ [tasks[k] EXCEPT !.live = "page"].run = tasks[k].run
                        /\ [tasks[k] EXCEPT !.live = "page"].at = tasks[k].at
                        /\ [tasks[k] EXCEPT !.live = "page"].of = tasks[k].of
                        /\ [tasks[k] EXCEPT !.live = "page"].read = tasks[k].read
    BY <1>1 DEF TaskState
  <1>3. \A k \in Task : tasks'[k] = IF tasks[k].live = "screen"
                                      THEN [tasks[k] EXCEPT !.live = "page"] ELSE tasks[k]
    BY DEF ShowTab, OnScreen
  <1>4. tasks' \in [Task -> TaskState]
    BY <1>1, <1>2 DEF ShowTab, OnScreen
  <1>5. clicks' \in 0..MaxClicks
    BY ClickCounts DEF ShowTab
  <1> QED
    BY <1>2, <1>3, <1>4, <1>5 DEF ShowTab

LEMMA PageUnmountsTypes ==
  ASSUME DashboardTypeOK, PageUnmounts
  PROVE  /\ tasks' \in [Task -> TaskState]
         /\ \A k \in Task :
              \/ tasks'[k] = IdleTask
              \/ /\ tasks[k].at = "post" /\ tasks'[k].at = "post"
                 /\ tasks'[k].run = tasks[k].run /\ tasks'[k].of = tasks[k].of
                 /\ tasks'[k].live = "gone" /\ tasks'[k].read = tasks[k].read
         /\ clicks' \in 0..MaxClicks
         /\ screen' \in Screen /\ screen'.tab = "none"
         /\ page' \in Page
  <1>1. tasks \in [Task -> TaskState]
    BY DEF DashboardTypeOK
  <1>2. IdleTask \in TaskState
    BY NothingIsPartial DEF IdleTask, TaskState
  <1>3. \A k \in Task : /\ [tasks[k] EXCEPT !.live = "gone"] \in TaskState
                        /\ [tasks[k] EXCEPT !.live = "gone"].live = "gone"
                        /\ [tasks[k] EXCEPT !.live = "gone"].run = tasks[k].run
                        /\ [tasks[k] EXCEPT !.live = "gone"].at = tasks[k].at
                        /\ [tasks[k] EXCEPT !.live = "gone"].of = tasks[k].of
                        /\ [tasks[k] EXCEPT !.live = "gone"].read = tasks[k].read
    BY <1>1 DEF TaskState
  <1>4. \A k \in Task : tasks'[k] = IF tasks[k].at = "post"
                                      THEN [tasks[k] EXCEPT !.live = "gone"] ELSE IdleTask
    BY DEF PageUnmounts
  <1>5. tasks' \in [Task -> TaskState]
    BY <1>1, <1>2, <1>3 DEF PageUnmounts
  <1>6. clicks' \in 0..MaxClicks
    BY ClickCounts DEF PageUnmounts
  <1>7. screen' = [tab |-> "none"]
    BY DEF PageUnmounts
  <1>8. screen' \in PlainScreen /\ screen'.tab = "none"
    BY <1>7 DEF PlainScreen
  <1>9. page' \in Page
    BY PageStarts DEF PageUnmounts
  <1> QED
    BY <1>3, <1>4, <1>5, <1>6, <1>8, <1>9, ScreensAreScreens

-----------------------------------------------------------------------------
(* TypeInv is inductive                                                    *)

(* A step of function k alone, on a screen that keeps its tab.             *)
SameFunction(k) ==
  \/ tasks'[k] = IdleTask
  \/ /\ tasks'[k].run = tasks[k].run /\ tasks'[k].of = tasks[k].of
     /\ tasks'[k].live = tasks[k].live

LEMMA PlaybooksKeepAlerts ==
  ASSUME PlaybooksHaveAlerts, NEW k \in Task, Others(k), SameFunction(k),
         screen'.tab = screen.tab
  PROVE  PlaybooksHaveAlerts'
  BY DEF PlaybooksHaveAlerts, Others, SameFunction, IdleTask

LEMMA TaskStepTypes ==
  ASSUME TypeInv, NEW k \in Task, TaskStep(k)
  PROVE  /\ TypeInv' /\ Others(k) /\ SameFunction(k)
         /\ screen'.tab = screen.tab
         /\ UNCHANGED <<mock, crossed>>
  <1> USE DEF TypeInv
  <1>1. CASE ReadIsServed(k)
    <2>1. /\ tasks' \in [Task -> TaskState] /\ Others(k) /\ SameFunction(k)
          /\ UNCHANGED <<mock, server, page, screen, clicks, earned, blurred, crossed, overlap>>
      BY <1>1, ServedIsRead DEF ReadIsServed, SameFunction
    <2> QED
      BY <2>1, PlaybooksKeepAlerts DEF DashboardTypeOK, DialogHasAlert
  <1>2. CASE DataLands(k)
    <2>1. /\ tasks' \in [Task -> TaskState] /\ Others(k) /\ SameFunction(k) /\ page' \in Page
          /\ UNCHANGED <<mock, server, screen, clicks, earned, blurred, crossed, overlap>>
      BY <1>2, DataLandsTypes DEF DataLands, SameFunction, Returned, Continues, DashboardTypeOK
    <2> QED
      BY <2>1, PlaybooksKeepAlerts DEF DashboardTypeOK, DialogHasAlert
  <1>3. CASE DataFails(k)
    <2>1. /\ tasks' \in [Task -> TaskState] /\ Others(k) /\ SameFunction(k) /\ page' \in Page
          /\ blurred' \in BOOLEAN
          /\ UNCHANGED <<mock, server, screen, clicks, earned, crossed, overlap>>
      BY <1>3, DataFailsTypes DEF DataFails, SameFunction, Returned, Continues
    <2> QED
      BY <2>1, PlaybooksKeepAlerts DEF DashboardTypeOK, DialogHasAlert
  <1>4. CASE AuditLands(k)
    <2>1. /\ tasks' \in [Task -> TaskState] /\ Others(k) /\ SameFunction(k) /\ page' \in Page
          /\ UNCHANGED <<mock, server, screen, clicks, earned, blurred, crossed, overlap>>
      BY <1>4, AuditLandsTypes DEF AuditLands, SameFunction, Continues
    <2> QED
      BY <2>1, PlaybooksKeepAlerts DEF DashboardTypeOK, DialogHasAlert
  <1>5. CASE RefreshReviewQueue(k)
    <2>1. /\ tasks' \in [Task -> TaskState] /\ Others(k) /\ SameFunction(k) /\ page' \in Page
          /\ UNCHANGED <<mock, server, screen, clicks, earned, crossed, overlap>>
      BY <1>5, RefreshReviewQueueTypes DEF RefreshReviewQueue, SameFunction, Returned, Continues
    <2>2. blurred' \in BOOLEAN
      BY <1>5 DEF RefreshReviewQueue, DashboardTypeOK
    <2> QED
      BY <2>1, <2>2, PlaybooksKeepAlerts DEF DashboardTypeOK, DialogHasAlert
  <1>6. CASE RefreshAuditLogs(k)
    <2>1. /\ tasks' \in [Task -> TaskState] /\ Others(k) /\ SameFunction(k) /\ page' \in Page
          /\ screen' = AfterAction(k)
          /\ UNCHANGED <<mock, server, clicks, earned, blurred, crossed, overlap>>
      BY <1>6, RefreshAuditLogsTypes DEF RefreshAuditLogs, SameFunction
    <2>2. screen' \in Screen /\ screen'.tab = screen.tab /\ DialogHasAlert'
      BY <2>1, AfterActionTypes DEF DialogHasAlert
    <2> QED
      BY <2>1, <2>2, PlaybooksKeepAlerts DEF DashboardTypeOK
  <1>7. CASE PostIsServed(k)
    <2>1. /\ tasks' \in [Task -> TaskState] /\ Others(k) /\ SameFunction(k)
          /\ server' \in Partial(Status) /\ earned' \subseteq Alert /\ blurred' \in BOOLEAN
          /\ UNCHANGED <<mock, page, screen, clicks, crossed, overlap>>
      BY <1>7, PostIsServedTypes DEF PostIsServed, SameFunction, Continues
    <2> QED
      BY <2>1, PlaybooksKeepAlerts DEF DashboardTypeOK, DialogHasAlert
  <1>8. CASE PostFails(k)
    <2>1. /\ tasks' \in [Task -> TaskState] /\ Others(k) /\ SameFunction(k)
          /\ blurred' \in BOOLEAN /\ screen' \in Screen /\ screen'.tab = screen.tab
          /\ UNCHANGED <<mock, server, page, clicks, earned, crossed, overlap>>
      BY <1>8, PostFailsTypes DEF PostFails, SameFunction
    <2>2. DialogHasAlert'
      <3>1. CASE tasks[k].run = "soar" /\ OnScreen(k)
        <4>1. screen' = [screen EXCEPT !.dialog = "idle"] /\ screen.tab = "alerts"
          BY <1>8, <3>1, PostFailsTypes
        <4>2. screen'.open = screen.open /\ screen'.of = screen.of
          BY <4>1, AlertsScreen DEF AlertsQueueScreen
        <4> QED
          BY <4>1, <4>2 DEF DialogHasAlert
      <3>2. CASE ~(tasks[k].run = "soar" /\ OnScreen(k))
        BY <1>8, <3>2, PostFailsTypes, AfterActionTypes DEF DialogHasAlert
      <3> QED
        BY <3>1, <3>2
    <2> QED
      BY <2>1, <2>2, PlaybooksKeepAlerts DEF DashboardTypeOK
  <1>9. CASE DecisionLands(k)
    <2>1. /\ tasks' \in [Task -> TaskState] /\ Others(k) /\ SameFunction(k) /\ page' \in Page
          /\ UNCHANGED <<mock, server, screen, clicks, earned, blurred, crossed, overlap>>
      BY <1>9, DecisionLandsTypes DEF DecisionLands, SameFunction, Continues
    <2> QED
      BY <2>1, PlaybooksKeepAlerts DEF DashboardTypeOK, DialogHasAlert
  <1>10. CASE PlaybookLands(k)
    <2>1. /\ tasks' \in [Task -> TaskState] /\ Others(k) /\ SameFunction(k) /\ page' \in Page
          /\ overlap' \in [Detail -> BOOLEAN]
          /\ UNCHANGED <<mock, server, clicks, earned, blurred, crossed>>
      BY <1>10, PlaybookLandsTypes DEF PlaybookLands, SameFunction, Continues
    <2>2. screen' \in Screen /\ screen'.tab = screen.tab /\ DialogHasAlert'
      <3>1. CASE ~OnScreen(k)
        BY <1>10, <3>1, PlaybookLandsTypes DEF DialogHasAlert, DashboardTypeOK
      <3>2. CASE OnScreen(k)
        <4>1. screen' \in AlertsQueueScreen /\ screen.tab = "alerts"
              /\ screen'.of = screen.of /\ screen'.open = screen.open
          BY <1>10, <3>2, PlaybookLandsTypes
        <4> QED
          BY <4>1, ScreensAreScreens DEF AlertsQueueScreen, DialogHasAlert
      <3> QED
        BY <3>1, <3>2
    <2> QED
      BY <2>1, <2>2, PlaybooksKeepAlerts DEF DashboardTypeOK
  <1> QED
    BY <1>1, <1>2, <1>3, <1>4, <1>5, <1>6, <1>7, <1>8, <1>9, <1>10 DEF TaskStep, Fetch

(* A function that begins, when the screen keeps its tab.                  *)
LEMMA PlaybooksBegin ==
  ASSUME TypeInv, NEW run \in Runs, NEW at \in Ats, NEW of \in Owners,
         NEW live \in {"screen", "page"}, Begin(run, at, of, live),
         run = "soar" => of \in Alert /\ screen.tab = "alerts",
         screen'.tab = screen.tab \/ screen.tab = "none"
  PROVE  PlaybooksHaveAlerts'
  <1>1. PICK k \in Task : tasks'[k] = Starting(run, at, of, live) /\ Others(k)
    BY BeginBegins DEF TypeInv
  <1>2. \A j \in Task \ {k} : tasks'[j].run = "soar" =>
          tasks'[j].of \in Alert /\ (tasks'[j].live = "screen" => screen'.tab = "alerts")
    BY <1>1 DEF Others, TypeInv, PlaybooksHaveAlerts
  <1>3. /\ tasks'[k].run = run /\ tasks'[k].of = of
        /\ run = "soar" => of \in Alert /\ screen'.tab = "alerts"
    BY <1>1 DEF Starting
  <1> QED
    BY <1>2, <1>3 DEF PlaybooksHaveAlerts

LEMMA OwnersAre == Alert \subseteq Owners /\ None \in Owners
  BY DEF Owners

(* The steps of the analyst on the page, and the page itself.              *)
PageStep ==
  \/ \E a \in Alert, action \in {"approved", "dismissed"} : HandleAction(a, action)
  \/ ExecutePlaybook \/ Retry \/ RetryAudit \/ SelectNode
  \/ \E tab \in DashboardTab : ShowTab(tab) \/ PageMounts(tab)
  \/ PageUnmounts

LEMMA PageStepTypes ==
  ASSUME TypeInv, PageStep
  PROVE  TypeInv'
  <1> USE DEF TypeInv
  <1>1. ASSUME NEW a \in Alert, NEW action \in {"approved", "dismissed"},
               HandleAction(a, action)
        PROVE  TypeInv'
    <2>1. CASE ResolveIncident(a, action)
      <3>1. /\ page' \in Page /\ earned' \subseteq Alert /\ clicks' \in 0..MaxClicks
            /\ UNCHANGED <<mock, server, screen, tasks, blurred, crossed, overlap>>
        BY <1>1, <2>1, HandleActionTypes, HitsContainTypes DEF ResolveIncident, HandleAction
      <3> QED
        BY <3>1 DEF DashboardTypeOK, DialogHasAlert, PlaybooksHaveAlerts
    <2>2. CASE ~ResolveIncident(a, action)
      <3> DEFINE run == IF action = "approved" THEN "approve" ELSE "dismiss"
      <3>1. /\ clicks' \in 0..MaxClicks /\ screen.tab = "incident"
            /\ screen' \in IncidentResponseScreen
            /\ Begin(run, "post", a, "screen")
            /\ UNCHANGED <<page, earned, mock, server, crossed, overlap>>
        BY <1>1, <2>2, HandleActionTypes DEF HandleAction
      <3>2. run \in Runs /\ run # "soar" /\ a \in Owners /\ "post" \in Ats
        BY OwnersAre DEF Runs, Ats
      <3>3. screen' \in Screen /\ screen'.tab = "incident"
        BY <3>1, ScreensAreScreens DEF IncidentResponseScreen
      <3> HIDE DEF run
      <3>4. tasks' \in [Task -> TaskState] /\ blurred' \in BOOLEAN
        BY <3>1, <3>2, BeginBegins
      <3>5. PlaybooksHaveAlerts'
        BY <3>1, <3>2, <3>3, PlaybooksBegin
      <3> QED
        BY <3>1, <3>3, <3>4, <3>5 DEF DashboardTypeOK, DialogHasAlert
    <2> QED
      BY <2>1, <2>2
  <1>2. CASE ExecutePlaybook
    <2> DEFINE at == IF mock THEN "posted" ELSE "post"
    <2>1. /\ clicks' \in 0..MaxClicks /\ screen.tab = "alerts" /\ screen.of \in Alert
          /\ screen' \in AlertsQueueScreen /\ screen'.of = screen.of
          /\ earned' \subseteq Alert
      BY <1>2, ExecutePlaybookTypes
    <2>2. /\ Begin("soar", at, screen.of, "screen")
          /\ UNCHANGED <<mock, server, page, crossed, overlap>>
      BY <1>2 DEF ExecutePlaybook
    <2>3. "soar" \in Runs /\ at \in Ats /\ screen.of \in Owners
      BY <2>1, OwnersAre DEF Runs, Ats
    <2>4. screen' \in Screen /\ screen'.tab = "alerts"
      BY <2>1, ScreensAreScreens DEF AlertsQueueScreen
    <2> HIDE DEF at
    <2>5. tasks' \in [Task -> TaskState] /\ blurred' \in BOOLEAN
      BY <2>2, <2>3, BeginBegins
    <2>6. PlaybooksHaveAlerts'
      BY <2>1, <2>2, <2>3, <2>4, PlaybooksBegin
    <2> QED
      BY <2>1, <2>2, <2>4, <2>5, <2>6, DashboardAssumption DEF DashboardTypeOK, DialogHasAlert
  <1>3. CASE Retry
    <2>1. page' \in Page /\ clicks' \in 0..MaxClicks
      BY <1>3, RetryTypes
    <2>2. /\ Begin("load", "data", None, "page")
          /\ UNCHANGED <<mock, server, screen, earned, crossed, overlap>>
      BY <1>3 DEF Retry
    <2>3. "load" \in Runs /\ "data" \in Ats /\ None \in Owners
      BY OwnersAre DEF Runs, Ats
    <2>4. tasks' \in [Task -> TaskState] /\ blurred' \in BOOLEAN /\ PlaybooksHaveAlerts'
      BY <2>2, <2>3, BeginBegins, PlaybooksBegin
    <2> QED
      BY <2>1, <2>2, <2>4 DEF DashboardTypeOK, DialogHasAlert
  <1>4. CASE RetryAudit
    <2>1. clicks' \in 0..MaxClicks
      BY <1>4, ClickCounts DEF RetryAudit
    <2>2. /\ Begin("log", "log", None, "page")
          /\ UNCHANGED <<mock, server, page, screen, earned, crossed, overlap>>
      BY <1>4 DEF RetryAudit
    <2>3. "log" \in Runs /\ "log" \in Ats /\ None \in Owners
      BY OwnersAre DEF Runs, Ats
    <2>4. tasks' \in [Task -> TaskState] /\ blurred' \in BOOLEAN /\ PlaybooksHaveAlerts'
      BY <2>2, <2>3, BeginBegins, PlaybooksBegin
    <2> QED
      BY <2>1, <2>2, <2>4 DEF DashboardTypeOK, DialogHasAlert
  <1>5. CASE SelectNode
    <2>1. /\ page' \in Page /\ clicks' \in 0..MaxClicks
          /\ UNCHANGED <<mock, server, screen, tasks, earned, blurred, crossed, overlap>>
      BY <1>5, SelectNodeTypes DEF SelectNode
    <2> QED
      BY <2>1 DEF DashboardTypeOK, DialogHasAlert, PlaybooksHaveAlerts
  <1>6. ASSUME NEW tab \in DashboardTab, ShowTab(tab)
        PROVE  TypeInv'
    <2>1. /\ tasks' \in [Task -> TaskState] /\ clicks' \in 0..MaxClicks
          /\ screen' \in ScreenStarts(tab) /\ overlap' \in [Detail -> BOOLEAN]
          /\ crossed' = FALSE
          /\ UNCHANGED <<mock, server, page, earned, blurred>>
      BY <1>6, ShowTabTypes DEF ShowTab
    <2>2. PlaybooksHaveAlerts'
      BY <1>6, ShowTabTypes DEF PlaybooksHaveAlerts
    <2>3. screen' \in Screen /\ screen'.tab = tab
      BY <2>1, ScreensStart
    <2>4. DialogHasAlert'
      BY <2>1, <2>3 DEF DialogHasAlert, ScreenStarts
    <2> QED
      BY <2>1, <2>2, <2>3, <2>4 DEF DashboardTypeOK
  <1>7. ASSUME NEW tab \in DashboardTab, PageMounts(tab)
        PROVE  TypeInv'
    <2>1. /\ screen.tab = "none" /\ screen' \in ScreenStarts(tab)
          /\ Begin("load", "data", None, "page")
          /\ UNCHANGED <<mock, server, page, clicks, earned, crossed, overlap>>
      BY <1>7 DEF PageMounts
    <2>2. "load" \in Runs /\ "data" \in Ats /\ None \in Owners
      BY OwnersAre DEF Runs, Ats
    <2>3. tasks' \in [Task -> TaskState] /\ blurred' \in BOOLEAN /\ PlaybooksHaveAlerts'
      <3>1. tasks' \in [Task -> TaskState] /\ blurred' \in BOOLEAN
        BY <2>1, <2>2, BeginBegins
      <3>2. PICK k \in Task : tasks'[k] = Starting("load", "data", None, "page") /\ Others(k)
        BY <2>1, <2>2, BeginBegins
      <3>3. \A j \in Task \ {k} : tasks'[j].run = "soar" =>
              tasks'[j].of \in Alert /\ tasks'[j].live # "screen"
        BY <2>1, <3>2 DEF Others, PlaybooksHaveAlerts
      <3>4. tasks'[k].run = "load"
        BY <3>2 DEF Starting
      <3> QED
        BY <3>1, <3>3, <3>4 DEF PlaybooksHaveAlerts
    <2>4. screen' \in Screen /\ screen'.tab = tab
      BY <2>1, ScreensStart
    <2>5. DialogHasAlert'
      BY <2>1, <2>4 DEF DialogHasAlert, ScreenStarts
    <2> QED
      BY <2>1, <2>3, <2>4, <2>5 DEF DashboardTypeOK
  <1>8. CASE PageUnmounts
    <2>1. /\ tasks' \in [Task -> TaskState] /\ clicks' \in 0..MaxClicks
          /\ screen' \in Screen /\ screen'.tab = "none" /\ page' \in Page
          /\ crossed' = FALSE /\ overlap' = [d \in Detail |-> FALSE]
          /\ UNCHANGED <<mock, server, earned, blurred>>
      BY <1>8, PageUnmountsTypes DEF PageUnmounts
    <2>2. PlaybooksHaveAlerts'
      BY <1>8, PageUnmountsTypes DEF PlaybooksHaveAlerts, IdleTask
    <2> QED
      BY <2>1, <2>2 DEF DashboardTypeOK, DialogHasAlert
  <1> QED
    BY <1>1, <1>2, <1>3, <1>4, <1>5, <1>6, <1>7, <1>8 DEF PageStep

LEMMA ScreenStepTypes ==
  ASSUME TypeInv, ScreenStep
  PROVE  TypeInv'
  BY ScreenStepFrame DEF TypeInv, DashboardTypeOK, PlaybooksHaveAlerts

LEMMA StepKinds ==
  ASSUME DashboardNext
  PROVE  (\E k \in Task : TaskStep(k)) \/ PageStep \/ ScreenStep
  BY DEF DashboardNext, PageStep, ScreenStep

LEMMA TypeInvHolds == DashboardSpec => []TypeInv
  <1>1. DashboardInit => TypeInv
    <2> SUFFICES ASSUME DashboardInit PROVE TypeInv
      OBVIOUS
    <2>1. mock \in BOOLEAN /\ earned \subseteq Alert /\ blurred \in BOOLEAN
          /\ crossed \in BOOLEAN /\ overlap \in [Detail -> BOOLEAN]
      BY DEF DashboardInit
    <2>2. server \in Partial(Status)
      <3>1. CASE mock
        <4>1. server \in [Alert -> Status]
          BY <3>1 DEF DashboardInit, Status
        <4> QED
          BY <4>1, PartialIntro
      <3>2. CASE ~mock
        <4>1. PICK S \in Stores : server = [a \in S |-> "new"]
          BY <3>2 DEF DashboardInit
        <4>2. S \in SUBSET Alert
          BY DashboardAssumption
        <4>3. server \in [S -> Status]
          BY <4>1 DEF Status
        <4> QED
          BY <4>2, <4>3, PartialIntro
      <3> QED
        BY <3>1, <3>2
    <2>3. page \in Page
      BY PageStarts DEF DashboardInit
    <2>4. screen \in PlainScreen /\ screen.tab = "none"
      BY DEF DashboardInit, PlainScreen
    <2>5. \A k \in Task : tasks[k] = IdleTask
      BY DEF DashboardInit
    <2>6. tasks \in [Task -> TaskState]
      <3>1. IdleTask \in TaskState
        BY NothingIsPartial DEF IdleTask, TaskState
      <3> QED
        BY <3>1 DEF DashboardInit
    <2>7. clicks \in 0..MaxClicks
      BY DashboardAssumption DEF DashboardInit
    <2>8. PlaybooksHaveAlerts /\ DialogHasAlert
      BY <2>4, <2>5 DEF PlaybooksHaveAlerts, DialogHasAlert, IdleTask
    <2> QED
      BY <2>1, <2>2, <2>3, <2>4, <2>6, <2>7, <2>8, ScreensAreScreens
         DEF TypeInv, DashboardTypeOK
  <1>2. TypeInv /\ [DashboardNext]_dashboardVars => TypeInv'
    <2>1. ASSUME TypeInv, DashboardNext PROVE TypeInv'
      BY <2>1, StepKinds, TaskStepTypes, PageStepTypes, ScreenStepTypes
    <2>2. ASSUME TypeInv, UNCHANGED dashboardVars PROVE TypeInv'
      <3>1. UNCHANGED <<mock, server, page, screen, tasks, clicks, earned, blurred,
                        crossed, overlap>>
        BY <2>2 DEF dashboardVars
      <3> QED
        BY <2>2, <3>1 DEF TypeInv, DashboardTypeOK, PlaybooksHaveAlerts, DialogHasAlert
    <2> QED
      BY <2>1, <2>2
  <1> QED
    BY <1>1, <1>2, PTL DEF DashboardSpec

(* The dashboard keeps its types: among them, that a function that outlives *)
(* its screen never writes into the state of another screen.               *)
THEOREM DashboardTypeCorrect == DashboardSpec => []DashboardTypeOK
  <1>1. TypeInv => DashboardTypeOK
    BY DEF TypeInv
  <1> QED
    BY <1>1, TypeInvHolds, PTL

-----------------------------------------------------------------------------
(* Functions and the page they belong to: whatever reads or writes page    *)
(* state belongs to a mounted page, and only a post outlives it.           *)

MountedAts == Loads \cup {"log", "posted"}
PostRuns == {"approve", "dismiss", "soar"}
LoadRuns == {"load", "approve", "dismiss"}

InStep(task) ==
  /\ task.at \in MountedAts => task.live # "gone"
  /\ task.at \in Loads => task.run \in LoadRuns
  /\ task.at \in {"post", "posted"} => task.run \in PostRuns

MountInv ==
  /\ \A k \in Task : InStep(tasks[k])
  /\ screen.tab = "none" => page.loading /\ \A k \in Task : tasks[k].live = "gone"

LEMMA IdleIsInStep == InStep(IdleTask)
  BY DEF InStep, IdleTask, MountedAts, Loads

LEMMA TaskStepMounts ==
  ASSUME TypeInv, MountInv, NEW k \in Task, TaskStep(k)
  PROVE  /\ InStep(tasks'[k])
         /\ screen.tab = "none" => page' = page /\ tasks'[k] = IdleTask
  <1>0. /\ DashboardTypeOK /\ PlaybooksHaveAlerts /\ InStep(tasks[k])
        /\ screen.tab = "none" => tasks[k].live = "gone"
    BY DEF TypeInv, MountInv
  <1>1. CASE ReadIsServed(k)
    <2>1. /\ tasks[k].at \in {"data", "queue"} /\ tasks'[k].at \in {"dataRead", "queueRead"}
          /\ tasks'[k].run = tasks[k].run /\ tasks'[k].live = tasks[k].live
      BY <1>0, <1>1, ServedIsRead DEF ReadIsServed
    <2> QED
      BY <1>0, <2>1 DEF InStep, MountedAts, Loads
  <1>2. CASE DataLands(k)
    <2>1. tasks[k].at = "dataRead"
      BY <1>2 DEF DataLands
    <2>2. tasks'[k] = IdleTask \/ Continues(k, "log") \/ Continues(k, "audit")
      BY <1>0, <1>2, DataLandsTypes DEF Returned
    <2> QED
      BY <1>0, <2>1, <2>2, IdleIsInStep DEF InStep, MountedAts, Loads, Continues
  <1>3. CASE DataFails(k)
    <2>1. tasks[k].at \in {"data", "dataRead"}
      BY <1>3 DEF DataFails
    <2>2. tasks'[k] = IdleTask \/ Continues(k, "log")
      BY <1>0, <1>3, DataFailsTypes DEF Returned
    <2> QED
      BY <1>0, <2>1, <2>2, IdleIsInStep DEF InStep, MountedAts, Loads, Continues
  <1>4. CASE AuditLands(k)
    <2>1. tasks[k].at = "audit"
      BY <1>4 DEF AuditLands
    <2>2. Continues(k, "queue")
      BY <1>0, <1>4, AuditLandsTypes
    <2> QED
      BY <1>0, <2>1, <2>2 DEF InStep, MountedAts, Loads, Continues
  <1>5. CASE RefreshReviewQueue(k)
    <2>1. tasks[k].at \in {"queue", "queueRead"}
      BY <1>5 DEF RefreshReviewQueue
    <2>2. tasks'[k] = IdleTask \/ Continues(k, "log")
      BY <1>0, <1>5, RefreshReviewQueueTypes DEF Returned
    <2> QED
      BY <1>0, <2>1, <2>2, IdleIsInStep DEF InStep, MountedAts, Loads, Continues
  <1>6. CASE RefreshAuditLogs(k)
    <2>1. tasks[k].at = "log"
      BY <1>6 DEF RefreshAuditLogs
    <2>2. tasks'[k] = IdleTask
      BY <1>0, <1>6, RefreshAuditLogsTypes
    <2> QED
      BY <1>0, <2>1, <2>2, IdleIsInStep DEF InStep, MountedAts
  <1>7. CASE PostIsServed(k)
    <2>1. tasks[k].at = "post" /\ page' = page
      BY <1>7 DEF PostIsServed
    <2>2. \/ tasks[k].live # "gone" /\ Continues(k, "posted")
          \/ tasks[k].live = "gone" /\ tasks'[k] = IdleTask
      BY <1>0, <1>7, PostIsServedTypes DEF Mounted
    <2> QED
      BY <1>0, <2>1, <2>2, IdleIsInStep DEF InStep, MountedAts, Loads, Continues
  <1>8. CASE PostFails(k)
    <2>1. page' = page
      BY <1>8 DEF PostFails
    <2>2. tasks'[k] = IdleTask
      BY <1>0, <1>8, PostFailsTypes
    <2> QED
      BY <2>1, <2>2, IdleIsInStep
  <1>9. CASE DecisionLands(k)
    <2>1. tasks[k].at = "posted" /\ tasks[k].run \in {"approve", "dismiss"}
      BY <1>9 DEF DecisionLands
    <2>2. Continues(k, "data")
      BY <1>0, <1>9, DecisionLandsTypes
    <2> QED
      BY <1>0, <2>1, <2>2 DEF InStep, MountedAts, Loads, LoadRuns, Continues
  <1>10. CASE PlaybookLands(k)
    <2>1. tasks[k].at = "posted"
      BY <1>10 DEF PlaybookLands
    <2>2. tasks'[k] = IdleTask \/ Continues(k, "log")
      BY <1>10, PlaybookLandsTypes
    <2> QED
      BY <1>0, <2>1, <2>2, IdleIsInStep DEF InStep, MountedAts, Loads, Continues
  <1> QED
    BY <1>1, <1>2, <1>3, <1>4, <1>5, <1>6, <1>7, <1>8, <1>9, <1>10 DEF TaskStep, Fetch

LEMMA TaskStepKeepsMount ==
  ASSUME TypeInv, MountInv, NEW k \in Task, TaskStep(k)
  PROVE  MountInv'
  <1>1. Others(k) /\ screen'.tab = screen.tab
    BY TaskStepTypes
  <1>2. InStep(tasks'[k]) /\ (screen.tab = "none" => page' = page /\ tasks'[k] = IdleTask)
    BY TaskStepMounts
  <1>3. \A j \in Task : InStep(tasks'[j])
    BY <1>1, <1>2 DEF MountInv, Others
  <1>4. screen'.tab = "none" => page'.loading /\ \A j \in Task : tasks'[j].live = "gone"
    BY <1>1, <1>2 DEF MountInv, Others, IdleTask
  <1> QED
    BY <1>3, <1>4 DEF MountInv

(* A function begins at its first request.                                 *)
Opens(run, at, of, live) ==
  /\ <<run, at>> \in {<<"load", "data">>, <<"log", "log">>, <<"approve", "post">>,
                      <<"dismiss", "post">>, <<"soar", "post">>, <<"soar", "posted">>}
  /\ of \in Owners
  /\ live \in {"screen", "page"}

LEMMA OpensTypes ==
  ASSUME NEW run, NEW at, NEW of, NEW live, Opens(run, at, of, live)
  PROVE  run \in Runs /\ at \in Ats /\ of \in Owners /\ live \in {"screen", "page"}
  BY DEF Opens, Runs, Ats

LEMMA OpeningIsInStep ==
  ASSUME NEW run, NEW at, NEW of, NEW live, Opens(run, at, of, live)
  PROVE  InStep(Starting(run, at, of, live))
  BY DEF Opens, InStep, Starting, MountedAts, Loads, LoadRuns, PostRuns

(* The function a step of the analyst or of the page begins, if any.       *)
LEMMA PageStepOpens ==
  ASSUME TypeInv, PageStep
  PROVE  \/ \E run, at, of, live : Opens(run, at, of, live) /\ Begin(run, at, of, live)
         \/ tasks' = tasks
         \/ PageUnmounts
         \/ \E tab \in DashboardTab : ShowTab(tab)
  <1>1. ASSUME NEW a \in Alert, NEW action \in {"approved", "dismissed"},
               HandleAction(a, action)
        PROVE  tasks' = tasks \/ \E run \in {"approve", "dismiss"} :
                 Opens(run, "post", a, "screen") /\ Begin(run, "post", a, "screen")
    <2>1. CASE ResolveIncident(a, action)
      BY <2>1 DEF ResolveIncident
    <2>2. CASE ~ResolveIncident(a, action)
      <3> DEFINE run == IF action = "approved" THEN "approve" ELSE "dismiss"
      <3>1. Begin(run, "post", a, "screen") /\ run \in {"approve", "dismiss"}
        BY <1>1, <2>2, HandleActionTypes DEF TypeInv
      <3> HIDE DEF run
      <3> QED
        BY <3>1 DEF Opens, Owners
    <2> QED
      BY <2>1, <2>2
  <1>2. CASE ExecutePlaybook
    <2> DEFINE at == IF mock THEN "posted" ELSE "post"
    <2>1. Begin("soar", at, screen.of, "screen") /\ at \in {"post", "posted"}
      BY <1>2 DEF ExecutePlaybook
    <2>2. screen.of \in Owners
      BY <1>2, ExecutePlaybookTypes, OwnersAre
    <2> HIDE DEF at
    <2>3. Opens("soar", at, screen.of, "screen")
      BY <2>1, <2>2 DEF Opens
    <2> QED
      BY <2>1, <2>3
  <1>3. CASE Retry \/ \E tab \in DashboardTab : PageMounts(tab)
    <2>1. Begin("load", "data", None, "page") /\ Opens("load", "data", None, "page")
      BY <1>3, OwnersAre DEF Retry, PageMounts, Opens
    <2> QED
      BY <2>1
  <1>4. CASE RetryAudit
    <2>1. Begin("log", "log", None, "page") /\ Opens("log", "log", None, "page")
      BY <1>4, OwnersAre DEF RetryAudit, Opens
    <2> QED
      BY <2>1
  <1>5. CASE SelectNode
    BY <1>5 DEF SelectNode
  <1> QED
    BY <1>1, <1>2, <1>3, <1>4, <1>5 DEF PageStep

LEMMA PageStepTabs ==
  ASSUME TypeInv, PageStep
  PROVE  \/ PageUnmounts
         \/ \E tab \in DashboardTab : ShowTab(tab) /\ screen'.tab = tab
         \/ \E tab \in DashboardTab : PageMounts(tab) /\ screen'.tab = tab
         \/ screen'.tab = screen.tab /\ screen.tab # "none"
  <1>1. \A a \in Alert, action \in {"approved", "dismissed"} : HandleAction(a, action) =>
          screen'.tab = screen.tab /\ screen.tab # "none"
    <2> SUFFICES ASSUME NEW a \in Alert, NEW action \in {"approved", "dismissed"},
                        HandleAction(a, action)
                 PROVE  screen'.tab = screen.tab /\ screen.tab # "none"
      OBVIOUS
    <2>1. screen.tab = "incident"
      BY DEF HandleAction
    <2>2. screen' = screen \/ screen' \in IncidentResponseScreen
      BY HandleActionTypes DEF ResolveIncident, TypeInv
    <2> QED
      BY <2>1, <2>2 DEF IncidentResponseScreen
  <1>2. ExecutePlaybook => screen'.tab = screen.tab /\ screen.tab # "none"
    BY ExecutePlaybookTypes DEF AlertsQueueScreen
  <1>3. Retry \/ RetryAudit \/ SelectNode => screen'.tab = screen.tab /\ screen.tab # "none"
    BY DEF Retry, RetryAudit, SelectNode
  <1>4. \A tab \in DashboardTab : ShowTab(tab) \/ PageMounts(tab) => screen'.tab = tab
    BY ScreensStart DEF ShowTab, PageMounts
  <1> QED
    BY <1>1, <1>2, <1>3, <1>4 DEF PageStep

LEMMA PageStepKeepsMount ==
  ASSUME TypeInv, MountInv, PageStep
  PROVE  MountInv'
  <1>0. DashboardTypeOK
    BY DEF TypeInv
  <1>1. CASE PageUnmounts
    <2>1. \A k \in Task : \/ tasks'[k] = IdleTask
                          \/ /\ tasks'[k].at = "post" /\ tasks[k].at = "post"
                             /\ tasks'[k].run = tasks[k].run /\ tasks'[k].live = "gone"
      BY <1>0, <1>1, PageUnmountsTypes
    <2>2. \A k \in Task : InStep(tasks'[k]) /\ tasks'[k].live = "gone"
      BY <2>1, IdleIsInStep DEF MountInv, InStep, MountedAts, Loads, PostRuns, IdleTask
    <2>3. page'.loading
      BY <1>1, PageStarts DEF PageUnmounts
    <2> QED
      BY <2>2, <2>3 DEF MountInv
  <1>2. CASE ~PageUnmounts
    <2>1. screen'.tab # "none"
      BY <1>2, PageStepTabs DEF DashboardTab
    <2>2. \A k \in Task : InStep(tasks'[k])
      <3>1. CASE tasks' = tasks
        BY <3>1 DEF MountInv
      <3>2. CASE \E tab \in DashboardTab : ShowTab(tab)
        BY <1>0, <3>2, ShowTabTypes DEF MountInv, InStep
      <3>3. ASSUME NEW run, NEW at, NEW of, NEW live, Opens(run, at, of, live),
                   Begin(run, at, of, live)
            PROVE  \A k \in Task : InStep(tasks'[k])
        <4>1. PICK k \in Task : tasks'[k] = Starting(run, at, of, live) /\ Others(k)
          BY <1>0, <3>3, OpensTypes, BeginBegins
        <4> QED
          BY <3>3, <4>1, OpeningIsInStep DEF MountInv, Others
      <3> QED
        BY <1>2, <3>1, <3>2, <3>3, PageStepOpens
    <2> QED
      BY <2>1, <2>2 DEF MountInv
  <1> QED
    BY <1>1, <1>2

LEMMA MountInvHolds == DashboardSpec => []MountInv
  <1>1. DashboardInit => MountInv
    BY IdleIsInStep, PageStarts DEF DashboardInit, MountInv, IdleTask
  <1>2. TypeInv /\ MountInv /\ [DashboardNext]_dashboardVars => MountInv'
    <2>1. ASSUME TypeInv, MountInv, ScreenStep PROVE MountInv'
      BY <2>1, ScreenStepFrame DEF MountInv
    <2>2. ASSUME TypeInv, MountInv, DashboardNext PROVE MountInv'
      BY <2>1, <2>2, StepKinds, TaskStepKeepsMount, PageStepKeepsMount
    <2>3. ASSUME MountInv, UNCHANGED dashboardVars PROVE MountInv'
      BY <2>3 DEF MountInv, dashboardVars
    <2> QED
      BY <2>2, <2>3
  <1> QED
    BY <1>1, <1>2, TypeInvHolds, PTL DEF DashboardSpec

LEMMA TaskStepScreen ==
  ASSUME TypeInv, NEW k \in Task, TaskStep(k)
  PROVE  /\ DOMAIN server' = DOMAIN server
         /\ screen.tab \notin {"alerts", "incident"} => screen' = screen
  <1>0. DashboardTypeOK /\ PlaybooksHaveAlerts
    BY DEF TypeInv
  <1>1. CASE ReadIsServed(k) \/ DataLands(k) \/ DataFails(k) \/ AuditLands(k)
             \/ RefreshReviewQueue(k) \/ DecisionLands(k)
    BY <1>1 DEF ReadIsServed, DataLands, DataFails, AuditLands, RefreshReviewQueue,
                DecisionLands
  <1>2. CASE RefreshAuditLogs(k)
    BY <1>2 DEF RefreshAuditLogs, AfterAction
  <1>3. CASE PostIsServed(k)
    <2>1. screen' = screen
      BY <1>3 DEF PostIsServed
    <2> QED
      BY <1>0, <1>3, <2>1, PostIsServedTypes
  <1>4. CASE PostFails(k)
    <2>1. server' = server
      BY <1>4 DEF PostFails
    <2> QED
      BY <1>0, <1>4, <2>1, PostFailsTypes, AfterActionTypes
  <1>5. CASE PlaybookLands(k)
    <2>1. server' = server
      BY <1>5 DEF PlaybookLands
    <2> QED
      BY <1>5, <2>1, PlaybookLandsTypes
  <1> QED
    BY <1>1, <1>2, <1>3, <1>4, <1>5 DEF TaskStep, Fetch

-----------------------------------------------------------------------------
(* The rows of the page are those the backend lists whenever the page is   *)
(* loaded: an answer that is applied is one the backend gave, in whatever  *)
(* order the loads end.                                                    *)

Rows == ListItems(DOMAIN server)

LEMMA RowsStay ==
  ASSUME mock' = mock, DOMAIN server' = DOMAIN server
  PROVE  Rows' = Rows
  BY DEF Rows, ListItems

KnowsRows(task) ==
  /\ task.at = "dataRead" => DOMAIN task.read = Rows
  /\ task.at \in {"audit", "queue", "queueRead"} => DOMAIN page.alerts = Rows

RowsInv ==
  /\ \A k \in Task : KnowsRows(tasks[k])
  /\ screen.tab # "none" /\ ~page.loading /\ ~page.error => DOMAIN page.alerts = Rows

LEMMA RowsStayKnown ==
  ASSUME RowsInv, NEW k \in Task, Others(k), screen'.tab = screen.tab,
         Rows' = Rows,
         DOMAIN page'.alerts = DOMAIN page.alerts \/ DOMAIN page'.alerts = Rows,
         \/ page'.loading \/ page'.error
         \/ DOMAIN page'.alerts = Rows
         \/ page'.loading = page.loading /\ page'.error = page.error,
         tasks'[k].at = "dataRead" => DOMAIN tasks'[k].read = Rows,
         tasks'[k].at \in {"audit", "queue", "queueRead"} => DOMAIN page'.alerts = Rows
  PROVE  RowsInv'
  BY DEF RowsInv, KnowsRows, Others

LEMMA TaskStepKeepsRows ==
  ASSUME TypeInv, RowsInv, NEW k \in Task, TaskStep(k)
  PROVE  RowsInv'
  <1>0. /\ DashboardTypeOK /\ PlaybooksHaveAlerts /\ KnowsRows(tasks[k])
        /\ Others(k) /\ screen'.tab = screen.tab /\ Rows' = Rows
    BY TaskStepTypes, TaskStepScreen, RowsStay DEF TypeInv, RowsInv
  <1>1. CASE ReadIsServed(k)
    <2>1. /\ tasks[k].at \in {"data", "queue"} /\ tasks'[k].read = Wanted(k)
          /\ tasks'[k].at = IF tasks[k].at = "data" THEN "dataRead" ELSE "queueRead"
          /\ page' = page
      BY <1>0, <1>1, ServedIsRead DEF ReadIsServed
    <2>2. tasks[k].at = "data" => DOMAIN Wanted(k) = Rows
      BY <1>0, ListedIsPartial DEF Wanted, Rows, DashboardTypeOK
    <2> QED
      BY <1>0, <2>1, <2>2, RowsStayKnown DEF KnowsRows
  <1>2. CASE DataLands(k)
    <2>1. tasks[k].at = "dataRead" /\ server' = server
          /\ DOMAIN page'.alerts = Rows
      BY <1>0, <1>2, DataLandsTypes DEF DataLands, KnowsRows
    <2>2. tasks'[k].at \in {"idle", "log", "audit"}
      BY <1>0, <1>2, DataLandsTypes DEF Returned, Continues, IdleTask
    <2> QED
      BY <1>0, <2>1, <2>2, RowsStayKnown
  <1>3. CASE DataFails(k)
    <2>1. /\ server' = server /\ page'.error
          /\ \/ DOMAIN page'.alerts = DOMAIN page.alerts
             \/ DOMAIN page'.alerts = Rows
      BY <1>0, <1>3, DataFailsTypes DEF DataFails, KnowsRows
    <2>2. tasks'[k].at \in {"idle", "log"}
      BY <1>0, <1>3, DataFailsTypes DEF Returned, Continues, IdleTask
    <2> QED
      BY <1>0, <2>1, <2>2, RowsStayKnown
  <1>4. CASE AuditLands(k)
    <2>1. tasks[k].at = "audit" /\ server' = server /\ page'.alerts = page.alerts
          /\ page'.loading = page.loading /\ page'.error = page.error
          /\ tasks'[k].at = "queue"
      BY <1>0, <1>4, AuditLandsTypes DEF AuditLands, Continues
    <2> QED
      BY <1>0, <2>1, RowsStayKnown DEF KnowsRows
  <1>5. CASE RefreshReviewQueue(k)
    <2>1. tasks[k].at \in {"queue", "queueRead"} /\ server' = server
      BY <1>5 DEF RefreshReviewQueue
    <2>2. page'.alerts = page.alerts /\ tasks'[k].at \in {"idle", "log"}
      BY <1>0, <1>5, RefreshReviewQueueTypes DEF Returned, Continues, IdleTask
    <2> QED
      BY <1>0, <2>1, <2>2, RowsStayKnown DEF KnowsRows
  <1>6. CASE RefreshAuditLogs(k)
    <2>1. server' = server /\ page'.alerts = page.alerts /\ tasks'[k].at = "idle"
          /\ page'.loading = page.loading /\ page'.error = page.error
      BY <1>0, <1>6, RefreshAuditLogsTypes DEF RefreshAuditLogs, IdleTask
    <2> QED
      BY <1>0, <2>1, RowsStayKnown
  <1>7. CASE PostIsServed(k)
    <2>1. page' = page
      BY <1>7 DEF PostIsServed
    <2>2. tasks'[k].at \in {"idle", "posted"}
      BY <1>0, <1>7, PostIsServedTypes DEF Continues, IdleTask
    <2> QED
      BY <1>0, <2>1, <2>2, RowsStayKnown
  <1>8. CASE PostFails(k)
    <2>1. server' = server /\ page' = page /\ tasks'[k].at = "idle"
      BY <1>0, <1>8, PostFailsTypes DEF PostFails, IdleTask
    <2> QED
      BY <1>0, <2>1, RowsStayKnown
  <1>9. CASE DecisionLands(k)
    <2>1. server' = server /\ page'.alerts = page.alerts /\ page'.loading
          /\ tasks'[k].at = "data"
      BY <1>0, <1>9, DecisionLandsTypes DEF DecisionLands, Continues
    <2> QED
      BY <1>0, <2>1, RowsStayKnown
  <1>10. CASE PlaybookLands(k)
    <2>1. /\ page'.alerts = Contain(page.alerts, {tasks[k].of})
          /\ page'.loading = page.loading /\ page'.error = page.error
          /\ tasks'[k].at \in {"idle", "log"}
      BY <1>10, PlaybookLandsTypes DEF Continues, IdleTask
    <2>2. DOMAIN page'.alerts = DOMAIN page.alerts
      BY <2>1 DEF Contain
    <2>3. server' = server
      BY <1>10 DEF PlaybookLands
    <2> QED
      BY <1>0, <2>1, <2>2, <2>3, RowsStayKnown
  <1> QED
    BY <1>1, <1>2, <1>3, <1>4, <1>5, <1>6, <1>7, <1>8, <1>9, <1>10 DEF TaskStep, Fetch

(* The page after a step of the analyst or of the page.                    *)
LEMMA PageStepPage ==
  ASSUME TypeInv, PageStep
  PROVE  /\ UNCHANGED <<mock, server>>
         /\ \/ PageUnmounts
            \/ /\ DOMAIN page'.alerts = DOMAIN page.alerts
               /\ \/ page'.loading
                  \/ page'.loading = page.loading /\ page'.error = page.error
  <1>0. DashboardTypeOK
    BY DEF TypeInv
  <1>1. ASSUME NEW a \in Alert, NEW action \in {"approved", "dismissed"},
               HandleAction(a, action)
        PROVE  /\ UNCHANGED <<mock, server>> /\ DOMAIN page'.alerts = DOMAIN page.alerts
               /\ page'.loading = page.loading /\ page'.error = page.error
    <2>1. CASE ResolveIncident(a, action)
      BY <1>0, <1>1, <2>1, HitsContainTypes DEF HandleAction, Contain
    <2>2. CASE ~ResolveIncident(a, action)
      BY <1>0, <1>1, <2>2, HandleActionTypes DEF HandleAction
    <2> QED
      BY <2>1, <2>2
  <1>2. CASE Retry
    BY <1>0, <1>2, RetryTypes DEF Retry
  <1>3. CASE SelectNode
    BY <1>0, <1>3, SelectNodeTypes DEF SelectNode
  <1>4. CASE ExecutePlaybook \/ RetryAudit
             \/ \E tab \in DashboardTab : ShowTab(tab) \/ PageMounts(tab)
    BY <1>4 DEF ExecutePlaybook, RetryAudit, ShowTab, PageMounts
  <1>5. CASE PageUnmounts
    BY <1>5 DEF PageUnmounts
  <1> QED
    BY <1>1, <1>2, <1>3, <1>4, <1>5 DEF PageStep

LEMMA PageStepKeepsRows ==
  ASSUME TypeInv, MountInv, RowsInv, PageStep
  PROVE  RowsInv'
  <1>0. DashboardTypeOK /\ Rows' = Rows
    BY PageStepPage, RowsStay DEF TypeInv
  <1>1. CASE PageUnmounts
    <2>1. \A k \in Task : tasks'[k].at \in {"idle", "post"}
      BY <1>0, <1>1, PageUnmountsTypes DEF IdleTask
    <2>2. screen'.tab = "none"
      BY <1>0, <1>1, PageUnmountsTypes
    <2> QED
      BY <2>1, <2>2 DEF RowsInv, KnowsRows
  <1>2. CASE ~PageUnmounts
    <2>1. DOMAIN page'.alerts = DOMAIN page.alerts
          /\ \/ page'.loading
             \/ page'.loading = page.loading /\ page'.error = page.error
      BY <1>2, PageStepPage
    <2>2. screen'.tab # "none" /\ ~page'.loading /\ ~page'.error =>
            DOMAIN page'.alerts = Rows'
      BY <1>0, <2>1 DEF RowsInv, MountInv
    <2>3. \A k \in Task : KnowsRows(tasks[k])'
      <3>1. CASE tasks' = tasks
        BY <1>0, <2>1, <3>1 DEF RowsInv, KnowsRows
      <3>2. CASE \E tab \in DashboardTab : ShowTab(tab)
        BY <1>0, <2>1, <3>2, ShowTabTypes DEF RowsInv, KnowsRows
      <3>3. ASSUME NEW run, NEW at, NEW of, NEW live, Opens(run, at, of, live),
                   Begin(run, at, of, live)
            PROVE  \A k \in Task : KnowsRows(tasks[k])'
        <4>1. PICK k \in Task : tasks'[k] = Starting(run, at, of, live) /\ Others(k)
          BY <1>0, <3>3, OpensTypes, BeginBegins
        <4>2. tasks'[k].at \in {"data", "log", "post", "posted"}
          BY <3>3, <4>1 DEF Opens, Starting
        <4> QED
          BY <1>0, <2>1, <4>1, <4>2 DEF RowsInv, KnowsRows, Others
      <3> QED
        BY <1>2, <3>1, <3>2, <3>3, PageStepOpens
    <2> QED
      BY <2>2, <2>3 DEF RowsInv
  <1> QED
    BY <1>1, <1>2

LEMMA RowsInvHolds == DashboardSpec => []RowsInv
  <1>1. DashboardInit => RowsInv
    BY DEF DashboardInit, RowsInv, KnowsRows, IdleTask
  <1>2. TypeInv /\ MountInv /\ RowsInv /\ [DashboardNext]_dashboardVars => RowsInv'
    <2>1. ASSUME TypeInv, RowsInv, ScreenStep PROVE RowsInv'
      BY <2>1, ScreenStepFrame, RowsStay DEF RowsInv, KnowsRows
    <2>2. ASSUME TypeInv, MountInv, RowsInv, DashboardNext PROVE RowsInv'
      BY <2>1, <2>2, StepKinds, TaskStepKeepsRows, PageStepKeepsRows
    <2>3. ASSUME RowsInv, UNCHANGED dashboardVars PROVE RowsInv'
      BY <2>3, RowsStay DEF RowsInv, KnowsRows, dashboardVars
    <2> QED
      BY <2>2, <2>3
  <1> QED
    BY <1>1, <1>2, TypeInvHolds, MountInvHolds, PTL DEF DashboardSpec

-----------------------------------------------------------------------------
(* The overview keeps rows and a spinner of its own.                       *)

OverviewInv == screen.tab = "overview" =>
  /\ screen.loading <=> screen.at # "idle"
  /\ screen.at = "audit" => screen.alerts = Rows
  /\ screen.at = "idle" /\ ~screen.error => screen.alerts = Rows

LEMMA OverviewStepHonest ==
  ASSUME TypeInv, OverviewInv, OverviewStep
  PROVE  OverviewInv'
  <1>1. screen \in OverviewScreen /\ screen.tab = "overview"
    BY OverviewTypes DEF OverviewScreen
  <1>2. CASE OverviewData
    <2>1. PICK nodes \in BOOLEAN :
            LET read == [screen EXCEPT !.alerts = Rows, !.nodes = nodes]
            IN \/ mock /\ screen' = [read EXCEPT !.at = "idle", !.loading = FALSE]
               \/ ~mock /\ screen' = [read EXCEPT !.at = "audit"]
               \/ screen' = [screen EXCEPT !.at = "idle", !.loading = FALSE, !.error = TRUE]
      BY <1>2 DEF OverviewData, Rows
    <2>2. screen.at = "data" /\ screen.loading /\ Rows' = Rows
      BY <1>1, <1>2, RowsStay DEF OverviewData, OverviewInv
    <2> QED
      BY <1>1, <2>1, <2>2 DEF OverviewInv, OverviewScreen
  <1>3. CASE OverviewAudit
    BY <1>1, <1>3, RowsStay DEF OverviewAudit, OverviewInv, OverviewScreen
  <1>4. CASE OverviewRefresh
    BY <1>1, <1>4, RowsStay DEF OverviewRefresh, OverviewInv, OverviewScreen
  <1> QED
    BY <1>2, <1>3, <1>4 DEF OverviewStep

LEMMA ScreenStepTabs ==
  ASSUME TypeInv, ScreenStep
  PROVE  \/ AlertsStep /\ screen.tab = "alerts" /\ screen'.tab = "alerts"
         \/ OverviewStep
         \/ screen.tab = "twin" /\ screen'.tab = "twin"
  <1>1. screen'.tab = screen.tab
    BY ScreenStepFrame
  <1>2. TwinClick \/ TwinTicks => screen.tab = "twin"
    BY DEF TwinClick, TwinTicks
  <1> QED
    BY <1>1, <1>2, AlertsStepTypes DEF ScreenStep, AlertsStep, OverviewStep

(* Every step of the analyst that is none of another tab leaves the screen *)
(* alone, or is one of two.                                                *)
LEMMA PageStepScreen ==
  ASSUME TypeInv, PageStep
  PROVE  \/ PageUnmounts
         \/ \E tab \in DashboardTab : ShowTab(tab) \/ PageMounts(tab)
         \/ screen' = screen
         \/ screen.tab = "alerts" /\ screen'.tab = "alerts" /\ ExecutePlaybook
         \/ /\ screen.tab = "incident" /\ screen'.tab = "incident"
            /\ \E a \in Alert, run \in {"approve", "dismiss"} : Begin(run, "post", a, "screen")
  <1>1. ASSUME NEW a \in Alert, NEW action \in {"approved", "dismissed"},
               HandleAction(a, action)
        PROVE  \/ screen' = screen
               \/ /\ screen.tab = "incident" /\ screen'.tab = "incident"
                  /\ \E run \in {"approve", "dismiss"} : Begin(run, "post", a, "screen")
    <2>1. CASE ResolveIncident(a, action)
      BY <2>1 DEF ResolveIncident
    <2>2. CASE ~ResolveIncident(a, action)
      <3> DEFINE run == IF action = "approved" THEN "approve" ELSE "dismiss"
      <3>1. /\ Begin(run, "post", a, "screen") /\ run \in {"approve", "dismiss"}
            /\ screen' \in IncidentResponseScreen /\ screen.tab = "incident"
        BY <1>1, <2>2, HandleActionTypes DEF TypeInv
      <3> HIDE DEF run
      <3> QED
        BY <3>1 DEF IncidentResponseScreen
    <2> QED
      BY <2>1, <2>2
  <1>2. ExecutePlaybook => screen.tab = "alerts" /\ screen'.tab = "alerts"
    BY ExecutePlaybookTypes DEF AlertsQueueScreen
  <1>3. Retry \/ RetryAudit \/ SelectNode => screen' = screen
    BY DEF Retry, RetryAudit, SelectNode
  <1> QED
    BY <1>1, <1>2, <1>3 DEF PageStep

LEMMA ScreenStartsHonest ==
  ASSUME NEW tab \in DashboardTab, screen' \in ScreenStarts(tab)
  PROVE  OverviewInv'
  <1>1. screen'.tab = tab
    BY ScreensStart
  <1>2. tab = "overview" => screen'.at = "data" /\ screen'.loading
    BY DEF ScreenStarts
  <1> QED
    BY <1>1, <1>2 DEF OverviewInv

LEMMA OverviewInvHolds == DashboardSpec => []OverviewInv
  <1>1. DashboardInit => OverviewInv
    BY DEF DashboardInit, OverviewInv
  <1>2. TypeInv /\ OverviewInv /\ [DashboardNext]_dashboardVars => OverviewInv'
    <2>1. ASSUME TypeInv, OverviewInv, ScreenStep PROVE OverviewInv'
      BY <2>1, ScreenStepTabs, OverviewStepHonest DEF OverviewInv
    <2>2. ASSUME TypeInv, OverviewInv, NEW k \in Task, TaskStep(k) PROVE OverviewInv'
      BY <2>2, TaskStepScreen, TaskStepTypes, RowsStay DEF OverviewInv
    <2>3. ASSUME TypeInv, OverviewInv, PageStep PROVE OverviewInv'
      <3>0. Rows' = Rows
        BY <2>3, PageStepPage, RowsStay
      <3>1. CASE PageUnmounts
        BY <2>3, <3>1, PageUnmountsTypes DEF OverviewInv, TypeInv
      <3>2. CASE \E tab \in DashboardTab : ShowTab(tab) \/ PageMounts(tab)
        BY <3>2, ScreenStartsHonest DEF ShowTab, PageMounts
      <3>3. CASE screen' = screen
        BY <2>3, <3>0, <3>3 DEF OverviewInv
      <3>4. CASE screen'.tab \in {"alerts", "incident"}
        BY <3>4 DEF OverviewInv
      <3> QED
        BY <2>3, <3>1, <3>2, <3>3, <3>4, PageStepScreen
    <2>4. ASSUME TypeInv, OverviewInv, DashboardNext PROVE OverviewInv'
      BY <2>1, <2>2, <2>3, <2>4, StepKinds
    <2>5. ASSUME OverviewInv, UNCHANGED dashboardVars PROVE OverviewInv'
      BY <2>5, RowsStay DEF OverviewInv, dashboardVars
    <2> QED
      BY <2>4, <2>5
  <1> QED
    BY <1>1, <1>2, TypeInvHolds, PTL DEF DashboardSpec

(* "Zero active threats detected" is shown only when the backend, asked,   *)
(* had none: not while anything loads, not after a load that failed, and   *)
(* not when several loads and retries end in any order.                    *)
THEOREM AllClearHolds == DashboardSpec => []AllClearIsKnown
  <1>1. TypeInv /\ RowsInv /\ OverviewInv => AllClearIsKnown
    <2> SUFFICES ASSUME TypeInv, RowsInv, OverviewInv PROVE AllClearIsKnown
      OBVIOUS
    <2>0. Rows = {} => DOMAIN server = {}
      BY PartialElim, ListEmpty DEF Rows, TypeInv, DashboardTypeOK
    <2>1. ASSUME screen.tab = "alerts", AlertsView = "empty" PROVE DOMAIN server = {}
      <3>1. ~page.error /\ ~page.loading /\ DOMAIN page.alerts = {}
        BY <2>1 DEF AlertsView, ListView
      <3> QED
        BY <2>0, <2>1, <3>1 DEF RowsInv
    <2>2. ASSUME screen.tab = "overview", OverviewView = "empty" PROVE DOMAIN server = {}
      <3>1. ~screen.error /\ ~screen.loading /\ screen.alerts = {}
        BY <2>2 DEF OverviewView, ListView
      <3> QED
        BY <2>0, <2>2, <3>1 DEF OverviewInv
    <2> QED
      BY <2>1, <2>2 DEF AllClearIsKnown
  <1> QED
    BY <1>1, TypeInvHolds, RowsInvHolds, OverviewInvHolds, PTL

-----------------------------------------------------------------------------
(* Spinners.  The page, the dialog, the panel and the incident each spin   *)
(* for a function or a request that will end it.                           *)

PageAtWork == screen.tab # "none" /\ page.loading =>
  \E k \in Task : tasks[k].at \in Loads
PlaysPlaybook(task) ==
  task.run = "soar" /\ task.at \in {"post", "posted"} /\ task.live = "screen"
DialogAtWork == screen.tab = "alerts" /\ screen.dialog = "running" =>
  \E k \in Task : PlaysPlaybook(tasks[k])
Asked(s) == \A d \in Detail : s.busy[d] => \E a \in Alert : s.asked[d][a] > 0
PanelAtWork == screen.tab = "alerts" => Asked(screen)
Decides(task) ==
  /\ task.run \in {"approve", "dismiss"} /\ task.live = "screen"
  /\ task.at \in Loads \cup {"post", "posted", "log"}
IncidentAtWork == screen.tab = "incident" /\ screen.processing # None =>
  \E k \in Task : Decides(tasks[k])

WorkInv == PageAtWork /\ DialogAtWork /\ PanelAtWork /\ IncidentAtWork

LEMMA TaskStepPageAtWork ==
  ASSUME TypeInv, WorkInv, NEW k \in Task, TaskStep(k)
  PROVE  PageAtWork'
  <1>0. DashboardTypeOK /\ PlaybooksHaveAlerts /\ Others(k) /\ screen'.tab = screen.tab
    BY TaskStepTypes DEF TypeInv
  <1>1. \/ ~page'.loading
        \/ tasks'[k].at \in Loads
        \/ page'.loading = page.loading /\ tasks[k].at \notin Loads
    <2>1. CASE ReadIsServed(k)
      BY <1>0, <2>1, ServedIsRead DEF Loads
    <2>2. CASE DataLands(k)
      BY <1>0, <2>2, DataLandsTypes DEF Returned, Continues, Loads
    <2>3. CASE DataFails(k) \/ RefreshReviewQueue(k)
      BY <1>0, <2>3, DataFailsTypes, RefreshReviewQueueTypes DEF Returned
    <2>4. CASE AuditLands(k)
      BY <1>0, <2>4, AuditLandsTypes DEF Continues, Loads
    <2>5. CASE RefreshAuditLogs(k)
      <3>1. tasks[k].at = "log"
        BY <2>5 DEF RefreshAuditLogs
      <3> QED
        BY <1>0, <2>5, <3>1, RefreshAuditLogsTypes DEF Loads
    <2>6. CASE PostIsServed(k) \/ PostFails(k)
      BY <2>6 DEF PostIsServed, PostFails, Loads
    <2>7. CASE DecisionLands(k)
      BY <1>0, <2>7, DecisionLandsTypes DEF Continues, Loads
    <2>8. CASE PlaybookLands(k)
      <3>1. tasks[k].at = "posted"
        BY <2>8 DEF PlaybookLands
      <3> QED
        BY <2>8, <3>1, PlaybookLandsTypes DEF Loads
    <2> QED
      BY <2>1, <2>2, <2>3, <2>4, <2>5, <2>6, <2>7, <2>8 DEF TaskStep, Fetch
  <1> QED
    BY <1>0, <1>1 DEF WorkInv, PageAtWork, Others

LEMMA InspectAsks ==
  ASSUME NEW s \in AlertsQueueScreen, Asked(s)
  PROVE  Asked(Inspect(s))
  <1>1. CASE s.of = None
    <2>1. Inspect(s).busy = s.busy /\ Inspect(s).asked = s.asked
      BY <1>1 DEF Inspect, AlertsQueueScreen
    <2> QED
      BY <2>1 DEF Asked
  <1>2. CASE s.of # None
    <2>1. s.of \in Alert /\ s.asked \in [Detail -> [Alert -> 0..MaxAsks]] /\ MaxAsks \in Nat \ {0}
      BY <1>2, DashboardAssumption DEF AlertsQueueScreen
    <2> DEFINE wanted == IF mock THEN {"intel"} ELSE Detail
               asked == [d \in Detail |->
                           IF d \in wanted THEN [s.asked[d] EXCEPT ![s.of] = More(@)]
                           ELSE s.asked[d]]
               busy == [d \in Detail |-> d \in wanted \/ s.busy[d]]
    <2>2. Inspect(s).busy = busy /\ Inspect(s).asked = asked
      BY <1>2 DEF Inspect, AlertsQueueScreen
    <2>3. ASSUME NEW d \in Detail, busy[d]
          PROVE  \E a \in Alert : asked[d][a] > 0
      <3>1. CASE d \in wanted
        <4>1. asked[d] = [s.asked[d] EXCEPT ![s.of] = More(@)]
          BY <3>1
        <4>2. asked[d][s.of] = More(s.asked[d][s.of]) /\ s.asked[d][s.of] \in 0..MaxAsks
          BY <2>1, <4>1
        <4>3. \A n \in 0..MaxAsks : More(n) > 0
          BY <2>1 DEF More
        <4> QED
          BY <2>1, <4>2, <4>3
      <3>2. CASE d \notin wanted
        <4>1. asked[d] = s.asked[d] /\ s.busy[d]
          BY <2>3, <3>2
        <4> QED
          BY <4>1 DEF Asked
      <3> QED
        BY <3>1, <3>2
    <2> HIDE DEF busy, asked
    <2> QED
      BY <2>2, <2>3 DEF Asked
  <1> QED
    BY <1>1, <1>2

LEMMA TaskStepDialog ==
  ASSUME TypeInv, WorkInv, MountInv, NEW k \in Task, TaskStep(k), screen.tab = "alerts"
  PROVE  /\ Asked(screen')
         /\ \/ screen'.dialog # "running"
            \/ /\ screen'.dialog = screen.dialog
               /\ PlaysPlaybook(tasks[k]) => PlaysPlaybook(tasks'[k])
  <1>0. /\ DashboardTypeOK /\ PlaybooksHaveAlerts /\ InStep(tasks[k])
        /\ Asked(screen) /\ screen \in AlertsQueueScreen
    BY AlertsScreen DEF TypeInv, MountInv, WorkInv, PanelAtWork
  <1>1. CASE ReadIsServed(k) \/ DataLands(k) \/ DataFails(k) \/ AuditLands(k)
             \/ RefreshReviewQueue(k) \/ DecisionLands(k)
    <2>1. /\ screen' = screen
          /\ tasks[k].at \in Loads \/ tasks[k].run \in {"approve", "dismiss"}
      BY <1>1 DEF ReadIsServed, DataLands, DataFails, AuditLands, RefreshReviewQueue,
                  DecisionLands, Loads
    <2> QED
      BY <1>0, <2>1 DEF PlaysPlaybook, Loads
  <1>2. CASE RefreshAuditLogs(k)
    <2>1. tasks[k].at = "log" /\ screen' = screen
      BY <1>2 DEF RefreshAuditLogs, AfterAction
    <2> QED
      BY <1>0, <2>1 DEF PlaysPlaybook
  <1>3. CASE PostIsServed(k)
    <2>1. screen' = screen
      BY <1>3 DEF PostIsServed
    <2>2. \/ tasks[k].live # "gone" /\ Continues(k, "posted")
          \/ tasks[k].live = "gone"
      BY <1>0, <1>3, PostIsServedTypes DEF Mounted
    <2> QED
      BY <1>0, <2>1, <2>2 DEF PlaysPlaybook, Continues
  <1>4. CASE PostFails(k)
    <2>1. CASE PlaysPlaybook(tasks[k])
      <3>1. screen' = [screen EXCEPT !.dialog = "idle"]
        BY <1>0, <1>4, <2>1, PostFailsTypes DEF PlaysPlaybook, OnScreen
      <3>2. screen'.dialog = "idle" /\ screen'.busy = screen.busy
            /\ screen'.asked = screen.asked
        BY <1>0, <3>1 DEF AlertsQueueScreen
      <3> QED
        BY <1>0, <3>2 DEF Asked
    <2>2. CASE ~PlaysPlaybook(tasks[k])
      <3>1. tasks[k].run = "soar" => ~OnScreen(k)
        BY <1>4, <2>2 DEF PostFails, PlaysPlaybook, OnScreen
      <3>2. screen' = screen
        BY <1>0, <1>4, <3>1, PostFailsTypes, AfterActionTypes
      <3> QED
        BY <1>0, <2>2, <3>2
    <2> QED
      BY <2>1, <2>2
  <1>5. CASE PlaybookLands(k)
    <2>1. CASE ~OnScreen(k)
      <3>1. screen' = screen
        BY <1>5, <2>1, PlaybookLandsTypes
      <3> QED
        BY <1>0, <2>1, <3>1 DEF PlaysPlaybook, OnScreen
    <2>2. CASE OnScreen(k)
      <3>1. screen'.dialog = "success"
        BY <1>5, <2>2, PlaybookLandsTypes
      <3> DEFINE done == [screen EXCEPT !.dialog = "success"]
                 seen == [done EXCEPT !.status = "contained"]
      <3>2. screen' = done \/ screen' = Inspect(seen)
        BY <1>5, <2>2 DEF PlaybookLands
      <3>3. /\ seen \in AlertsQueueScreen
            /\ done.busy = screen.busy /\ done.asked = screen.asked
            /\ seen.busy = screen.busy /\ seen.asked = screen.asked
        BY <1>0 DEF AlertsQueueScreen, Status
      <3> HIDE DEF done, seen
      <3>4. Asked(done) /\ Asked(seen)
        BY <1>0, <3>3 DEF Asked
      <3> QED
        BY <3>1, <3>2, <3>3, <3>4, InspectAsks
    <2> QED
      BY <2>1, <2>2
  <1> QED
    BY <1>1, <1>2, <1>3, <1>4, <1>5 DEF TaskStep, Fetch

LEMMA TaskStepIncident ==
  ASSUME TypeInv, MountInv, NEW k \in Task, TaskStep(k), screen.tab = "incident"
  PROVE  \/ screen'.processing = None
         \/ screen' = screen /\ (Decides(tasks[k]) => Decides(tasks'[k]))
  <1>0. /\ DashboardTypeOK /\ PlaybooksHaveAlerts /\ InStep(tasks[k])
    BY DEF TypeInv, MountInv
  <1>1. CASE ReadIsServed(k)
    <2>1. screen' = screen
      BY <1>1 DEF ReadIsServed
    <2> QED
      BY <1>0, <1>1, <2>1, ServedIsRead DEF Decides, Loads
  <1>2. CASE DataLands(k)
    <2>1. screen' = screen
      BY <1>2 DEF DataLands
    <2> QED
      BY <1>0, <1>2, <2>1, DataLandsTypes DEF Decides, Loads, Returned, Continues
  <1>3. CASE DataFails(k)
    <2>1. screen' = screen
      BY <1>3 DEF DataFails
    <2> QED
      BY <1>0, <1>3, <2>1, DataFailsTypes DEF Decides, Returned, Continues
  <1>4. CASE AuditLands(k)
    <2>1. screen' = screen
      BY <1>4 DEF AuditLands
    <2> QED
      BY <1>0, <1>4, <2>1, AuditLandsTypes DEF Decides, Loads, Continues
  <1>5. CASE RefreshReviewQueue(k)
    <2>1. screen' = screen
      BY <1>5 DEF RefreshReviewQueue
    <2> QED
      BY <1>0, <1>5, <2>1, RefreshReviewQueueTypes DEF Decides, Returned, Continues
  <1>6. CASE RefreshAuditLogs(k)
    <2>1. screen' = AfterAction(k)
      BY <1>6 DEF RefreshAuditLogs
    <2>2. screen'.processing = None \/ (screen' = screen /\ ~OnScreen(k))
      BY <1>0, <2>1, AfterActionTypes
    <2> QED
      BY <2>2 DEF Decides, OnScreen
  <1>7. CASE PostIsServed(k)
    <2>1. screen' = screen
      BY <1>7 DEF PostIsServed
    <2> QED
      BY <1>0, <1>7, <2>1, PostIsServedTypes DEF Decides, Mounted, Continues
  <1>8. CASE PostFails(k)
    <2>1. CASE tasks[k].run = "soar"
      <3>1. screen' = screen
        BY <1>0, <1>8, <2>1, PostFailsTypes
      <3> QED
        BY <2>1, <3>1 DEF Decides
    <2>2. CASE tasks[k].run # "soar"
      <3>1. screen' = AfterAction(k)
        BY <1>0, <1>8, <2>2, PostFailsTypes
      <3>2. screen'.processing = None \/ (screen' = screen /\ ~OnScreen(k))
        BY <1>0, <3>1, AfterActionTypes
      <3> QED
        BY <3>2 DEF Decides, OnScreen
    <2> QED
      BY <2>1, <2>2
  <1>9. CASE DecisionLands(k)
    <2>1. screen' = screen
      BY <1>9 DEF DecisionLands
    <2> QED
      BY <1>0, <1>9, <2>1, DecisionLandsTypes DEF Decides, Loads, Continues
  <1>10. CASE PlaybookLands(k)
    <2>1. tasks[k].run = "soar"
      BY <1>10 DEF PlaybookLands
    <2>2. screen' = screen
      BY <1>10, PlaybookLandsTypes
    <2> QED
      BY <2>1, <2>2 DEF Decides
  <1> QED
    BY <1>1, <1>2, <1>3, <1>4, <1>5, <1>6, <1>7, <1>8, <1>9, <1>10 DEF TaskStep, Fetch

LEMMA AlertsStepAtWork ==
  ASSUME TypeInv, WorkInv, AlertsStep
  PROVE  Asked(screen') /\ screen'.dialog \in {screen.dialog, "idle"}
  <1>0. screen.tab = "alerts" /\ screen \in AlertsQueueScreen /\ Asked(screen)
    BY AlertsStepTypes, AlertsScreen DEF TypeInv, WorkInv, PanelAtWork
  <1>1. ASSUME NEW a \in Alert, SelectAlert(a)
        PROVE  Asked(screen') /\ screen'.dialog = screen.dialog
    <2>1. page.alerts[a] \in Status
      <3>1. a \in DOMAIN page.alerts
        BY <1>1, SelectAlertTypes
      <3> QED
        BY <3>1, PartialElim DEF TypeInv, DashboardTypeOK, Page
    <2> DEFINE s == [screen EXCEPT !.of = a, !.status = page.alerts[a]]
    <2>2. s \in AlertsQueueScreen /\ s.busy = screen.busy /\ s.asked = screen.asked
      BY <1>0, <2>1 DEF AlertsQueueScreen
    <2>3. screen' = Inspect(s)
      BY <1>1 DEF SelectAlert
    <2> HIDE DEF s
    <2>4. Asked(s)
      BY <1>0, <2>2 DEF Asked
    <2> QED
      BY <1>1, <2>2, <2>3, <2>4, InspectAsks, SelectAlertTypes
  <1>2. CASE CloseAlert
    <2> DEFINE s == [screen EXCEPT !.of = None, !.status = "new"]
    <2>1. s \in AlertsQueueScreen /\ s.busy = screen.busy /\ s.asked = screen.asked
      BY <1>0 DEF AlertsQueueScreen, Status
    <2>2. screen' = Inspect(s)
      BY <1>2 DEF CloseAlert
    <2> HIDE DEF s
    <2>3. Asked(s)
      BY <1>0, <2>1 DEF Asked
    <2> QED
      BY <1>2, <2>1, <2>2, <2>3, InspectAsks, CloseAlertTypes
  <1>3. ASSUME NEW a \in Alert, NEW d \in Detail, DetailAnswers(d, a)
        PROVE  Asked(screen') /\ screen'.dialog = screen.dialog
    BY <1>0, <1>3, DetailAnswersTypes DEF Asked
  <1>4. CASE GenerateNarrative \/ NarrativeIsWritten
    BY <1>0, <1>4, NarrativeTypes DEF Asked
  <1>5. CASE Mitigate \/ HideDialog
    BY <1>0, <1>5, DialogTypes DEF Asked
  <1> QED
    BY <1>1, <1>2, <1>3, <1>4, <1>5 DEF AlertsStep

LEMMA TaskStepKeepsWork ==
  ASSUME TypeInv, MountInv, WorkInv, NEW k \in Task, TaskStep(k)
  PROVE  WorkInv'
  <1>1. Others(k) /\ screen'.tab = screen.tab
    BY TaskStepTypes
  <1>2. PageAtWork'
    BY TaskStepPageAtWork
  <1>3. CASE screen.tab = "alerts"
    <2>1. Asked(screen') /\ (\/ screen'.dialog # "running"
                             \/ /\ screen'.dialog = screen.dialog
                                /\ PlaysPlaybook(tasks[k]) => PlaysPlaybook(tasks'[k]))
      BY <1>3, TaskStepDialog
    <2>2. DialogAtWork'
      BY <1>1, <1>3, <2>1 DEF WorkInv, DialogAtWork, Others, PlaysPlaybook
    <2>3. PanelAtWork' /\ IncidentAtWork'
      BY <1>1, <1>3, <2>1 DEF PanelAtWork, IncidentAtWork, Asked
    <2> QED
      BY <1>2, <2>2, <2>3 DEF WorkInv
  <1>4. CASE screen.tab # "alerts"
    <2>1. DialogAtWork' /\ PanelAtWork'
      BY <1>1, <1>4 DEF DialogAtWork, PanelAtWork
    <2>2. IncidentAtWork'
      <3>1. CASE screen.tab = "incident"
        BY <1>1, <3>1, TaskStepIncident DEF WorkInv, IncidentAtWork, Others, Decides
      <3>2. CASE screen.tab # "incident"
        BY <1>1, <3>2 DEF IncidentAtWork
      <3> QED
        BY <3>1, <3>2
    <2> QED
      BY <1>2, <2>1, <2>2 DEF WorkInv
  <1> QED
    BY <1>3, <1>4

LEMMA ScreenStepKeepsWork ==
  ASSUME TypeInv, WorkInv, ScreenStep
  PROVE  WorkInv'
  <1>1. page' = page /\ tasks' = tasks /\ screen'.tab = screen.tab
    BY ScreenStepFrame
  <1>2. PageAtWork'
    BY <1>1 DEF WorkInv, PageAtWork
  <1>3. CASE AlertsStep
    <2>1. screen.tab = "alerts" /\ Asked(screen') /\ screen'.dialog \in {screen.dialog, "idle"}
      BY <1>3, AlertsStepAtWork, AlertsStepTypes
    <2> QED
      BY <1>1, <1>2, <2>1
         DEF WorkInv, DialogAtWork, PanelAtWork, IncidentAtWork, Asked, PlaysPlaybook
  <1>4. CASE screen.tab \in {"overview", "twin"}
    BY <1>1, <1>2, <1>4 DEF WorkInv, DialogAtWork, PanelAtWork, IncidentAtWork
  <1>5. OverviewStep => screen.tab = "overview"
    BY OverviewTypes DEF OverviewScreen
  <1> QED
    BY <1>3, <1>4, <1>5, ScreenStepTabs

(* A step of the analyst begins functions, and ends none.                  *)
LEMMA PageStepTasks ==
  ASSUME TypeInv, MountInv, PageStep, ~PageUnmounts
  PROVE  /\ \A k \in Task : tasks[k].at \in Loads => tasks'[k].at \in Loads
         /\ (\E tab \in DashboardTab : ShowTab(tab)) \/
              \A k \in Task : tasks[k].run # "idle" => tasks'[k] = tasks[k]
  <1>0. DashboardTypeOK
    BY DEF TypeInv
  <1>1. CASE tasks' = tasks
    BY <1>1
  <1>2. CASE \E tab \in DashboardTab : ShowTab(tab)
    BY <1>0, <1>2, ShowTabTypes
  <1>3. ASSUME NEW run, NEW at, NEW of, NEW live, Opens(run, at, of, live),
               Begin(run, at, of, live)
        PROVE  /\ \A k \in Task : tasks[k].at \in Loads => tasks'[k].at \in Loads
               /\ \A k \in Task : tasks[k].run # "idle" => tasks'[k] = tasks[k]
    <2>1. PICK k \in Task : tasks[k].run = "idle" /\ Others(k)
      BY <1>0, <1>3, OpensTypes, BeginBegins
    <2>2. tasks[k].at \notin Loads
      BY <2>1 DEF MountInv, InStep, LoadRuns
    <2> QED
      BY <2>1, <2>2 DEF Others
  <1> QED
    BY <1>1, <1>2, <1>3, PageStepOpens

LEMMA PageStepPageAtWork ==
  ASSUME TypeInv, MountInv, WorkInv, PageStep
  PROVE  PageAtWork'
  <1>0. DashboardTypeOK
    BY DEF TypeInv
  <1>1. CASE PageUnmounts
    BY <1>0, <1>1, PageUnmountsTypes DEF PageAtWork
  <1>2. CASE Retry \/ \E tab \in DashboardTab : PageMounts(tab)
    <2>1. Begin("load", "data", None, "page") /\ Opens("load", "data", None, "page")
      BY <1>2, OwnersAre DEF Retry, PageMounts, Opens
    <2>2. PICK k \in Task : tasks'[k] = Starting("load", "data", None, "page")
      BY <1>0, <2>1, OpensTypes, BeginBegins
    <2> QED
      BY <2>2 DEF PageAtWork, Starting, Loads
  <1>3. CASE ~(PageUnmounts \/ Retry \/ \E tab \in DashboardTab : PageMounts(tab))
    <2>1. page'.loading => page.loading
      <3>1. \A a \in Alert, action \in {"approved", "dismissed"} :
              HandleAction(a, action) => page'.loading = page.loading
        <4> SUFFICES ASSUME NEW a \in Alert, NEW action \in {"approved", "dismissed"},
                            HandleAction(a, action)
                     PROVE  page'.loading = page.loading
          OBVIOUS
        <4>1. CASE ResolveIncident(a, action)
          BY <1>0, <4>1, HitsContainTypes
        <4>2. CASE ~ResolveIncident(a, action)
          BY <1>0, <4>2, HandleActionTypes
        <4> QED
          BY <4>1, <4>2
      <3>2. SelectNode => page'.loading = page.loading
        BY <1>0, SelectNodeTypes
      <3>3. ExecutePlaybook \/ RetryAudit \/ (\E tab \in DashboardTab : ShowTab(tab)) =>
              page' = page
        BY DEF ExecutePlaybook, RetryAudit, ShowTab
      <3> QED
        BY <1>3, <3>1, <3>2, <3>3 DEF PageStep
    <2>2. screen.tab # "none"
      BY <1>3, PageStepTabs DEF ShowTab
    <2>3. \A k \in Task : tasks[k].at \in Loads => tasks'[k].at \in Loads
      BY <1>3, PageStepTasks
    <2> QED
      BY <2>1, <2>2, <2>3 DEF WorkInv, PageAtWork
  <1> QED
    BY <1>1, <1>2, <1>3

LEMMA ScreenStartsAtRest ==
  ASSUME NEW tab \in DashboardTab, screen' \in ScreenStarts(tab)
  PROVE  DialogAtWork' /\ PanelAtWork' /\ IncidentAtWork'
  <1>1. screen'.tab = tab
    BY ScreensStart
  <1>2. tab = "alerts" => screen'.dialog = "idle" /\ \A d \in Detail : ~screen'.busy[d]
    BY DEF ScreenStarts
  <1>3. tab = "incident" => screen'.processing = None
    BY DEF ScreenStarts
  <1> QED
    BY <1>1, <1>2, <1>3 DEF DialogAtWork, PanelAtWork, IncidentAtWork, Asked

LEMMA PageStepKeepsWork ==
  ASSUME TypeInv, MountInv, WorkInv, PageStep
  PROVE  WorkInv'
  <1>0. DashboardTypeOK /\ PageAtWork'
    BY PageStepPageAtWork DEF TypeInv
  <1>1. CASE PageUnmounts
    BY <1>0, <1>1, PageUnmountsTypes DEF WorkInv, DialogAtWork, PanelAtWork, IncidentAtWork
  <1>2. CASE \E tab \in DashboardTab : ShowTab(tab) \/ PageMounts(tab)
    BY <1>0, <1>2, ScreenStartsAtRest DEF WorkInv, ShowTab, PageMounts
  <1>3. CASE screen' = screen /\ ~PageUnmounts
    <2>1. CASE \E tab \in DashboardTab : ShowTab(tab)
      BY <1>2, <2>1
    <2>2. CASE \A k \in Task : tasks[k].run # "idle" => tasks'[k] = tasks[k]
      <3>1. \A k \in Task : /\ PlaysPlaybook(tasks[k]) => PlaysPlaybook(tasks'[k])
                            /\ Decides(tasks[k]) => Decides(tasks'[k])
        BY <2>2 DEF PlaysPlaybook, Decides
      <3> QED
        BY <1>0, <1>3, <3>1
           DEF WorkInv, DialogAtWork, PanelAtWork, IncidentAtWork, Asked
    <2> QED
      BY <1>3, <2>1, <2>2, PageStepTasks
  <1>4. CASE ExecutePlaybook
    <2> DEFINE at == IF mock THEN "posted" ELSE "post"
    <2>1. /\ Begin("soar", at, screen.of, "screen") /\ at \in {"post", "posted"}
          /\ screen.tab = "alerts" /\ screen'.tab = "alerts"
          /\ screen'.busy = screen.busy /\ screen'.asked = screen.asked
      BY <1>4, ExecutePlaybookTypes DEF ExecutePlaybook, AlertsQueueScreen
    <2> HIDE DEF at
    <2>2. Opens("soar", at, screen.of, "screen")
      BY <1>4, <2>1, ExecutePlaybookTypes, OwnersAre DEF Opens
    <2>3. PICK k \in Task : tasks'[k] = Starting("soar", at, screen.of, "screen")
      BY <1>0, <2>1, <2>2, OpensTypes, BeginBegins
    <2>4. PlaysPlaybook(tasks'[k])
      BY <2>1, <2>3 DEF PlaysPlaybook, Starting
    <2> QED
      BY <1>0, <2>1, <2>4
         DEF WorkInv, DialogAtWork, PanelAtWork, IncidentAtWork, Asked
  <1>5. ASSUME screen'.tab = "incident", NEW a \in Alert, NEW run \in {"approve", "dismiss"},
               Begin(run, "post", a, "screen")
        PROVE  WorkInv'
    <2>1. Opens(run, "post", a, "screen")
      BY OwnersAre DEF Opens
    <2>2. PICK k \in Task : tasks'[k] = Starting(run, "post", a, "screen")
      BY <1>0, <1>5, <2>1, OpensTypes, BeginBegins
    <2>3. Decides(tasks'[k])
      BY <2>2 DEF Decides, Starting
    <2> QED
      BY <1>0, <1>5, <2>3 DEF WorkInv, DialogAtWork, PanelAtWork, IncidentAtWork
  <1> QED
    BY <1>1, <1>2, <1>3, <1>4, <1>5, PageStepScreen

LEMMA WorkInvHolds == DashboardSpec => []WorkInv
  <1>1. DashboardInit => WorkInv
    BY DEF DashboardInit, WorkInv, PageAtWork, DialogAtWork, PanelAtWork, IncidentAtWork
  <1>2. TypeInv /\ MountInv /\ WorkInv /\ [DashboardNext]_dashboardVars => WorkInv'
    <2>1. ASSUME TypeInv, MountInv, WorkInv, DashboardNext PROVE WorkInv'
      BY <2>1, StepKinds, TaskStepKeepsWork, PageStepKeepsWork, ScreenStepKeepsWork
    <2>2. ASSUME WorkInv, UNCHANGED dashboardVars PROVE WorkInv'
      BY <2>2 DEF WorkInv, PageAtWork, DialogAtWork, PanelAtWork, IncidentAtWork, Asked,
                  PlaysPlaybook, Decides, dashboardVars
    <2> QED
      BY <2>1, <2>2
  <1> QED
    BY <1>1, <1>2, TypeInvHolds, MountInvHolds, PTL DEF DashboardSpec

(* Whatever spins has a function or a request behind it that is still      *)
(* mounted and will stop it, in any interleaving of functions, tabs left   *)
(* and failures.                                                           *)
THEOREM SpinnersHold == DashboardSpec => []SpinnersAreHonest
  <1>1. TypeInv /\ MountInv /\ WorkInv /\ OverviewInv => SpinnersAreHonest
    <2> SUFFICES ASSUME TypeInv, MountInv, WorkInv, OverviewInv PROVE SpinnersAreHonest
      OBVIOUS
    <2>1. screen.tab # "none" /\ page.loading =>
            Works({"load", "approve", "dismiss"}, Loads, {"page", "screen"})
      <3> SUFFICES ASSUME screen.tab # "none", page.loading
                   PROVE  Works({"load", "approve", "dismiss"}, Loads, {"page", "screen"})
        OBVIOUS
      <3>1. PICK k \in Task : tasks[k].at \in Loads
        BY DEF WorkInv, PageAtWork
      <3>2. tasks[k].run \in {"load", "approve", "dismiss"} /\ tasks[k].live # "gone"
        BY <3>1 DEF MountInv, InStep, MountedAts, LoadRuns
      <3>3. tasks[k].live \in {"page", "screen"}
        BY <3>2, TaskTypes DEF TypeInv
      <3> QED
        BY <3>1, <3>2, <3>3 DEF Works
    <2>2. screen.tab = "alerts" =>
            /\ screen.dialog = "running" => Works({"soar"}, {"post", "posted"}, {"screen"})
            /\ \A d \in Detail : screen.busy[d] => InFlight(d) # {}
      BY DEF WorkInv, DialogAtWork, PanelAtWork, Asked, InFlight, Works, PlaysPlaybook
    <2>3. screen.tab = "incident" /\ screen.processing # None =>
            Works({"approve", "dismiss"}, Loads \cup {"post", "posted", "log"}, {"screen"})
      BY DEF WorkInv, IncidentAtWork, Works, Decides
    <2>4. screen.tab = "overview" => (screen.loading <=> screen.at # "idle")
      BY DEF OverviewInv
    <2> QED
      BY <2>1, <2>2, <2>3, <2>4 DEF SpinnersAreHonest
  <1> QED
    BY <1>1, TypeInvHolds, MountInvHolds, WorkInvHolds, OverviewInvHolds, PTL

-----------------------------------------------------------------------------
(* Contained alerts.  Once contained for, an alert stays so: in mock mode  *)
(* the backend's statuses never change, otherwise none of them is          *)
(* "contained" and only playbooks contain.                                 *)

ContainedFor(a) == a \in earned \/ (a \in DOMAIN server /\ server[a] = "contained")
AllContainedFor(list) == \A a \in DOMAIN list : list[a] = "contained" => ContainedFor(a)

ModesDiffer ==
  /\ mock => \A k \in Task : tasks[k].at # "post"
  /\ ~mock => \A a \in DOMAIN server : server[a] # "contained"
ReadsAreEarned == \A k \in Task : AllContainedFor(tasks[k].read)
PlaybooksAreEarned ==
  \A k \in Task : tasks[k].run = "soar" /\ tasks[k].at = "posted" => tasks[k].of \in earned
PageIsEarned == AllContainedFor(page.alerts)
(* As long as nothing crossed, a playbook on screen is one of the          *)
(* selection.                                                              *)
ScreenIsEarned ==
  screen.tab = "alerts" /\ ~crossed =>
    /\ screen.of # None /\ screen.status = "contained" => ContainedFor(screen.of)
    /\ screen.of # None /\ screen.open /\ screen.dialog = "success" => ContainedFor(screen.of)
    /\ \A k \in Task : tasks[k].run = "soar" /\ tasks[k].live = "screen" =>
         tasks[k].of = screen.of

EarnedInv == /\ ModesDiffer /\ ReadsAreEarned /\ PlaybooksAreEarned
             /\ PageIsEarned /\ ScreenIsEarned

LEMMA EarnedStays ==
  ASSUME ModesDiffer, earned \subseteq earned', server' = server \/ ~mock
  PROVE  \A a : ContainedFor(a) => ContainedFor(a)'
  BY DEF ModesDiffer, ContainedFor

(* What a step of a function leaves of the backend, the answers under way  *)
(* and the rows of the page.                                               *)
LEMMA TaskStepEarns ==
  ASSUME TypeInv, EarnedInv, NEW k \in Task, TaskStep(k)
  PROVE  /\ earned \subseteq earned'
         /\ \/ server' = server
            \/ /\ ~mock
               /\ \E v \in {"acknowledged", "false_positive"} :
                    server' = [server EXCEPT ![tasks[k].of] = v]
         /\ tasks'[k].at # "post"
         /\ \/ tasks'[k].read = Nothing
            \/ /\ server' = server
               /\ \A a \in DOMAIN tasks'[k].read :
                    a \in DOMAIN server /\ tasks'[k].read[a] = server[a]
         /\ tasks'[k].run = "soar" /\ tasks'[k].at = "posted" => tasks'[k].of \in earned'
         /\ \/ page'.alerts = page.alerts
            \/ page'.alerts = tasks[k].read
            \/ /\ tasks[k].of \in earned
               /\ page'.alerts = Contain(page.alerts, {tasks[k].of})
  <1>0. DashboardTypeOK /\ PlaybooksHaveAlerts
    BY DEF TypeInv
  <1>a. ASSUME earned' = earned, server' = server
        PROVE  /\ earned \subseteq earned'
               /\ \/ server' = server
                  \/ /\ ~mock
                     /\ \E v \in {"acknowledged", "false_positive"} :
                          server' = [server EXCEPT ![tasks[k].of] = v]
    BY <1>a
  <1>b. ASSUME tasks'[k] = IdleTask \/ Continues(k, "log") \/ Continues(k, "audit")
               \/ Continues(k, "queue") \/ Continues(k, "data")
        PROVE  tasks'[k].at \notin {"post", "posted"} /\ tasks'[k].read = Nothing
    BY <1>b DEF IdleTask, Continues
  <1>1. CASE ReadIsServed(k)
    <2>1. server' = server /\ earned' = earned /\ page' = page
      BY <1>1 DEF ReadIsServed
    <2>2. /\ tasks'[k].at \in {"dataRead", "queueRead"}
          /\ \A a \in DOMAIN tasks'[k].read :
               a \in DOMAIN server /\ tasks'[k].read[a] = server[a]
      BY <1>0, <1>1, ServedIsRead
    <2> QED
      BY <2>1, <2>2
  <1>2. CASE DataLands(k)
    <2>1. server' = server /\ earned' = earned
      BY <1>2 DEF DataLands
    <2>2. /\ page'.alerts = tasks[k].read
          /\ tasks'[k] = IdleTask \/ Continues(k, "log") \/ Continues(k, "audit")
      BY <1>0, <1>2, DataLandsTypes DEF Returned
    <2> QED
      BY <1>b, <2>1, <2>2
  <1>3. CASE DataFails(k)
    <2>1. server' = server /\ earned' = earned
      BY <1>3 DEF DataFails
    <2>2. /\ page'.alerts \in {page.alerts, tasks[k].read}
          /\ tasks'[k] = IdleTask \/ Continues(k, "log")
      BY <1>0, <1>3, DataFailsTypes DEF Returned
    <2> QED
      BY <1>b, <2>1, <2>2
  <1>4. CASE AuditLands(k)
    <2>1. server' = server /\ earned' = earned
      BY <1>4 DEF AuditLands
    <2>2. page'.alerts = page.alerts /\ Continues(k, "queue")
      BY <1>0, <1>4, AuditLandsTypes
    <2> QED
      BY <1>b, <2>1, <2>2
  <1>5. CASE RefreshReviewQueue(k)
    <2>1. server' = server /\ earned' = earned
      BY <1>5 DEF RefreshReviewQueue
    <2>2. page'.alerts = page.alerts /\ (tasks'[k] = IdleTask \/ Continues(k, "log"))
      BY <1>0, <1>5, RefreshReviewQueueTypes DEF Returned
    <2> QED
      BY <1>b, <2>1, <2>2
  <1>6. CASE RefreshAuditLogs(k)
    <2>1. server' = server /\ earned' = earned
      BY <1>6 DEF RefreshAuditLogs
    <2>2. page'.alerts = page.alerts /\ tasks'[k] = IdleTask
      BY <1>0, <1>6, RefreshAuditLogsTypes
    <2> QED
      BY <1>b, <2>1, <2>2
  <1>7. CASE PostIsServed(k)
    <2>1. page' = page /\ tasks[k].at = "post"
      BY <1>7 DEF PostIsServed
    <2>2. ~mock
      BY <2>1 DEF EarnedInv, ModesDiffer
    <2>3. /\ earned \subseteq earned'
          /\ \/ server' = server
             \/ \E v \in {"acknowledged", "false_positive"} :
                  server' = [server EXCEPT ![tasks[k].of] = v]
          /\ tasks[k].run = "soar" => tasks[k].of \in earned'
          /\ tasks'[k] = IdleTask \/ Continues(k, "posted")
      BY <1>0, <1>7, PostIsServedTypes
    <2>4. CASE tasks'[k] = IdleTask
      BY <1>b, <2>1, <2>2, <2>3, <2>4
    <2>5. CASE Continues(k, "posted")
      <3>1. /\ tasks'[k].at # "post" /\ tasks'[k].read = Nothing
            /\ tasks'[k].run = "soar" => tasks'[k].of \in earned'
        BY <2>3, <2>5 DEF Continues
      <3> QED
        BY <2>1, <2>2, <2>3, <3>1
    <2> QED
      BY <2>3, <2>4, <2>5
  <1>8. CASE PostFails(k)
    <2>1. server' = server /\ earned' = earned /\ page' = page
      BY <1>8 DEF PostFails
    <2>2. tasks'[k] = IdleTask
      BY <1>0, <1>8, PostFailsTypes
    <2> QED
      BY <1>b, <2>1, <2>2
  <1>9. CASE DecisionLands(k)
    <2>1. server' = server /\ earned' = earned
      BY <1>9 DEF DecisionLands
    <2>2. page'.alerts = page.alerts /\ Continues(k, "data")
      BY <1>0, <1>9, DecisionLandsTypes
    <2> QED
      BY <1>b, <2>1, <2>2
  <1>10. CASE PlaybookLands(k)
    <2>1. server' = server /\ earned' = earned /\ tasks[k].run = "soar" /\ tasks[k].at = "posted"
      BY <1>10 DEF PlaybookLands
    <2>2. /\ page'.alerts = Contain(page.alerts, {tasks[k].of})
          /\ tasks'[k] = IdleTask \/ Continues(k, "log")
      BY <1>10, PlaybookLandsTypes
    <2>3. tasks[k].of \in earned
      BY <2>1 DEF EarnedInv, PlaybooksAreEarned
    <2> QED
      BY <1>b, <2>1, <2>2, <2>3
  <1> QED
    BY <1>1, <1>2, <1>3, <1>4, <1>5, <1>6, <1>7, <1>8, <1>9, <1>10 DEF TaskStep, Fetch

LEMMA ContainingIsEarned ==
  ASSUME NEW list, NEW as, AllContainedFor(list), as \subseteq earned
  PROVE  AllContainedFor(Contain(list, as))
  BY DEF AllContainedFor, Contain, ContainedFor

LEMMA TaskStepPageEarned ==
  ASSUME TypeInv, EarnedInv, NEW k \in Task, TaskStep(k)
  PROVE  ModesDiffer' /\ ReadsAreEarned' /\ PlaybooksAreEarned' /\ PageIsEarned'
  <1>0. Others(k) /\ mock' = mock
    BY TaskStepTypes
  <1>1. \A a : ContainedFor(a) => ContainedFor(a)'
    BY TaskStepEarns, EarnedStays DEF EarnedInv
  <1>2. ModesDiffer'
    <2>1. mock' => \A j \in Task : tasks'[j].at # "post"
      BY <1>0, TaskStepEarns DEF EarnedInv, ModesDiffer, Others
    <2>2. ~mock' => \A a \in DOMAIN server' : server'[a] # "contained"
      <3>1. CASE server' = server
        BY <1>0, <3>1 DEF EarnedInv, ModesDiffer
      <3>2. ASSUME NEW v \in {"acknowledged", "false_positive"}, ~mock,
                   server' = [server EXCEPT ![tasks[k].of] = v]
            PROVE  \A a \in DOMAIN server' : server'[a] # "contained"
        BY <3>2 DEF EarnedInv, ModesDiffer
      <3> QED
        BY <3>1, <3>2, TaskStepEarns
    <2> QED
      BY <2>1, <2>2 DEF ModesDiffer
  <1>3. ReadsAreEarned'
    <2>1. \A j \in Task \ {k} : AllContainedFor(tasks[j].read)'
      BY <1>0, <1>1 DEF EarnedInv, ReadsAreEarned, AllContainedFor, Others
    <2>2. AllContainedFor(tasks[k].read)'
      <3>1. CASE tasks'[k].read = Nothing
        BY <3>1 DEF AllContainedFor, Nothing
      <3>2. CASE /\ server' = server
                 /\ \A a \in DOMAIN tasks'[k].read :
                      a \in DOMAIN server /\ tasks'[k].read[a] = server[a]
        BY <3>2 DEF AllContainedFor, ContainedFor
      <3> QED
        BY <3>1, <3>2, TaskStepEarns
    <2> QED
      BY <2>1, <2>2 DEF ReadsAreEarned
  <1>4. PlaybooksAreEarned'
    BY <1>0, TaskStepEarns DEF EarnedInv, PlaybooksAreEarned, Others
  <1>5. PageIsEarned'
    <2>1. AllContainedFor(page'.alerts)
      <3>1. CASE page'.alerts = page.alerts \/ page'.alerts = tasks[k].read
        BY <3>1 DEF EarnedInv, PageIsEarned, ReadsAreEarned
      <3>2. CASE /\ tasks[k].of \in earned
                 /\ page'.alerts = Contain(page.alerts, {tasks[k].of})
        BY <3>2, ContainingIsEarned DEF EarnedInv, PageIsEarned
      <3> QED
        BY <3>1, <3>2, TaskStepEarns
    <2> QED
      BY <1>1, <2>1 DEF PageIsEarned, AllContainedFor
  <1> QED
    BY <1>2, <1>3, <1>4, <1>5

LEMMA TaskStepScreenEarned ==
  ASSUME TypeInv, EarnedInv, NEW k \in Task, TaskStep(k)
  PROVE  ScreenIsEarned'
  <1>0. /\ Others(k) /\ SameFunction(k) /\ screen'.tab = screen.tab /\ crossed' = crossed
        /\ DashboardTypeOK /\ PlaybooksHaveAlerts
    BY TaskStepTypes DEF TypeInv
  <1>1. \A a : ContainedFor(a) => ContainedFor(a)'
    BY TaskStepEarns, EarnedStays DEF EarnedInv
  <1> SUFFICES ASSUME screen.tab = "alerts", ~crossed
               PROVE  ScreenIsEarned'
    BY <1>0 DEF ScreenIsEarned
  <1>2. screen \in AlertsQueueScreen
    BY <1>0, AlertsScreen
  <1>3. ASSUME screen'.of = screen.of
        PROVE  \A j \in Task : tasks'[j].run = "soar" /\ tasks'[j].live = "screen" =>
                 tasks'[j].of = screen'.of
    BY <1>0, <1>3 DEF EarnedInv, ScreenIsEarned, Others, SameFunction, IdleTask
  <1>4. CASE screen' = screen
    BY <1>1, <1>3, <1>4 DEF EarnedInv, ScreenIsEarned
  <1>5. CASE PostFails(k)
    <2>1. CASE tasks[k].run = "soar" /\ OnScreen(k)
      <3>1. screen' = [screen EXCEPT !.dialog = "idle"]
        BY <1>0, <1>5, <2>1, PostFailsTypes
      <3>2. screen'.of = screen.of /\ screen'.status = screen.status /\ screen'.dialog = "idle"
        BY <1>2, <3>1 DEF AlertsQueueScreen
      <3> QED
        BY <1>1, <1>3, <3>2 DEF EarnedInv, ScreenIsEarned
    <2>2. CASE ~(tasks[k].run = "soar" /\ OnScreen(k))
      <3>1. screen' = screen
        BY <1>0, <1>5, <2>2, PostFailsTypes, AfterActionTypes
      <3> QED
        BY <1>4, <3>1
    <2> QED
      BY <2>1, <2>2
  <1>6. CASE PlaybookLands(k)
    <2>1. CASE ~OnScreen(k)
      BY <1>4, <1>6, <2>1, PlaybookLandsTypes
    <2>2. CASE OnScreen(k)
      <3>1. tasks[k].run = "soar" /\ tasks[k].at = "posted"
        BY <1>6 DEF PlaybookLands
      <3>2. tasks[k].of \in earned /\ tasks[k].of = screen.of
        BY <2>2, <3>1 DEF EarnedInv, PlaybooksAreEarned, ScreenIsEarned, OnScreen
      <3>3. ContainedFor(screen.of)' /\ screen'.of = screen.of
        BY <1>1, <1>6, <2>2, <3>2, PlaybookLandsTypes DEF ContainedFor
      <3> QED
        BY <1>3, <3>3 DEF ScreenIsEarned, ContainedFor
    <2> QED
      BY <2>1, <2>2
  <1>7. CASE ~PostFails(k) /\ ~PlaybookLands(k)
    <2>1. screen' = screen
      BY <1>7 DEF TaskStep, Fetch, ReadIsServed, DataLands, DataFails, AuditLands,
                  RefreshReviewQueue, RefreshAuditLogs, AfterAction, PostIsServed,
                  DecisionLands
    <2> QED
      BY <1>4, <2>1
  <1> QED
    BY <1>5, <1>6, <1>7

LEMMA NoPlaybookRuns ==
  ASSUME ~PlaybookRuns
  PROVE  \A k \in Task : ~(tasks[k].run = "soar" /\ tasks[k].live = "screen")
  BY DEF PlaybookRuns, Busy, OnScreen

LEMMA ScreenStepKeepsEarned ==
  ASSUME TypeInv, EarnedInv, ScreenStep
  PROVE  EarnedInv'
  <1>0. UNCHANGED <<mock, server, page, tasks, earned>> /\ screen'.tab = screen.tab
    BY ScreenStepFrame
  <1>1. ModesDiffer' /\ ReadsAreEarned' /\ PlaybooksAreEarned' /\ PageIsEarned'
    BY <1>0 DEF EarnedInv, ModesDiffer, ReadsAreEarned, PlaybooksAreEarned, PageIsEarned,
                AllContainedFor, ContainedFor
  <1>2. ScreenIsEarned'
    <2>0. \A a : ContainedFor(a) => ContainedFor(a)'
      BY <1>0 DEF ContainedFor
    <2>1. ASSUME NEW a \in Alert, SelectAlert(a) PROVE ScreenIsEarned'
      <3>1. /\ screen'.of = a /\ screen'.status = page.alerts[a] /\ ~screen'.open
            /\ a \in DOMAIN page.alerts
        BY <2>1, SelectAlertTypes
      <3>2. crossed' = PlaybookRuns
        BY <2>1 DEF SelectAlert
      <3>3. page.alerts[a] = "contained" => ContainedFor(a)
        BY <3>1 DEF EarnedInv, PageIsEarned, AllContainedFor
      <3>4. ~crossed' => \A k \in Task : ~(tasks'[k].run = "soar" /\ tasks'[k].live = "screen")
        BY <1>0, <3>2, NoPlaybookRuns
      <3> QED
        BY <2>0, <3>1, <3>3, <3>4 DEF ScreenIsEarned
    <2>2. CASE CloseAlert
      <3>1. screen'.of = None
        BY <2>2, CloseAlertTypes
      <3>2. crossed' = (crossed \/ PlaybookRuns)
        BY <2>2 DEF CloseAlert
      <3>3. ~crossed' => \A k \in Task : ~(tasks'[k].run = "soar" /\ tasks'[k].live = "screen")
        BY <1>0, <3>2, NoPlaybookRuns
      <3> QED
        BY <3>1, <3>3 DEF ScreenIsEarned
    <2>3. ASSUME screen.tab = "alerts", ~crossed' => ~crossed, screen'.of = screen.of,
                 screen'.status = screen.status,
                 screen'.dialog = "idle" \/ ~screen'.open
                   \/ (screen'.dialog = screen.dialog /\ screen'.open = screen.open)
          PROVE  ScreenIsEarned'
      BY <1>0, <2>0, <2>3 DEF EarnedInv, ScreenIsEarned
    <2>4. ASSUME NEW a \in Alert, NEW d \in Detail, DetailAnswers(d, a) PROVE ScreenIsEarned'
      <3>1. crossed' = crossed /\ screen.tab = "alerts"
        BY <2>4 DEF DetailAnswers
      <3> QED
        BY <2>3, <2>4, <3>1, DetailAnswersTypes
    <2>5. CASE GenerateNarrative \/ NarrativeIsWritten
      <3>1. crossed' = crossed /\ screen.tab = "alerts"
        BY <2>5 DEF GenerateNarrative, NarrativeIsWritten
      <3> QED
        BY <2>3, <2>5, <3>1, NarrativeTypes
    <2>6. CASE Mitigate \/ HideDialog
      <3>1. crossed' = (crossed \/ PlaybookRuns) \/ crossed' = crossed
        BY <2>6 DEF Mitigate, HideDialog
      <3>2. ~crossed' => ~crossed
        BY <3>1
      <3>3. screen.tab = "alerts"
        BY <2>6 DEF Mitigate, HideDialog
      <3> QED
        BY <2>3, <2>6, <3>2, <3>3, DialogTypes
    <2>7. CASE AlertsStep
      BY <2>1, <2>2, <2>4, <2>5, <2>6, <2>7 DEF AlertsStep
    <2>8. CASE screen.tab # "alerts"
      BY <1>0, <2>8 DEF ScreenIsEarned
    <2>9. OverviewStep => screen.tab = "overview"
      BY OverviewTypes DEF OverviewScreen
    <2> QED
      BY <2>7, <2>8, <2>9, ScreenStepTabs
  <1> QED
    BY <1>1, <1>2 DEF EarnedInv

(* A step of the analyst or of the page: what it contains, it has earned.  *)
LEMMA PageStepEarns ==
  ASSUME TypeInv, EarnedInv, PageStep
  PROVE  /\ mock' = mock /\ server' = server /\ earned \subseteq earned'
         /\ PageIsEarned'
  <1>0. DashboardTypeOK /\ PageIsEarned /\ ModesDiffer /\ server' = server
    BY PageStepPage DEF TypeInv, EarnedInv
  <1>a. ASSUME earned \subseteq earned', page'.alerts = page.alerts
        PROVE  PageIsEarned'
    BY <1>0, <1>a DEF PageIsEarned, AllContainedFor, ContainedFor
  <1>1. ASSUME NEW a \in Alert, NEW action \in {"approved", "dismissed"},
               HandleAction(a, action)
        PROVE  /\ mock' = mock /\ earned \subseteq earned'
               /\ PageIsEarned'
    <2>1. CASE ResolveIncident(a, action)
      <3>1. mock' = mock
        BY <1>1 DEF HandleAction
      <3>2. /\ earned \subseteq earned'
            /\ \/ page'.alerts = page.alerts
               \/ /\ page'.alerts = Contain(page.alerts, Hits[a])
                  /\ Hits[a] \subseteq earned'
        BY <1>0, <2>1, HitsContainTypes
      <3>3. CASE page'.alerts = Contain(page.alerts, Hits[a]) /\ Hits[a] \subseteq earned'
        BY <1>0, <3>1, <3>2, <3>3 DEF PageIsEarned, AllContainedFor, ContainedFor, Contain
      <3> QED
        BY <1>a, <3>1, <3>2, <3>3
    <2>2. CASE ~ResolveIncident(a, action)
      <3>1. mock' = mock
        BY <1>1 DEF HandleAction
      <3>2. page' = page /\ earned' = earned
        BY <1>0, <1>1, <2>2, HandleActionTypes
      <3> QED
        BY <1>a, <3>1, <3>2
    <2> QED
      BY <2>1, <2>2
  <1>2. CASE ExecutePlaybook
    <2>1. mock' = mock /\ page' = page
      BY <1>2 DEF ExecutePlaybook
    <2> QED
      BY <1>0, <1>2, <1>a, <2>1, ExecutePlaybookTypes
  <1>3. CASE Retry
    <2>1. mock' = mock /\ earned' = earned
      BY <1>3 DEF Retry
    <2> QED
      BY <1>0, <1>3, <1>a, <2>1, RetryTypes
  <1>4. CASE SelectNode
    <2>1. mock' = mock /\ earned' = earned
      BY <1>4 DEF SelectNode
    <2> QED
      BY <1>0, <1>4, <1>a, <2>1, SelectNodeTypes
  <1>5. CASE RetryAudit \/ \E tab \in DashboardTab : ShowTab(tab) \/ PageMounts(tab)
    <2>1. mock' = mock /\ earned' = earned /\ page' = page
      BY <1>5 DEF RetryAudit, ShowTab, PageMounts
    <2> QED
      BY <1>0, <1>a, <2>1
  <1>6. CASE PageUnmounts
    <2>1. mock' = mock /\ earned' = earned /\ page'.alerts = Nothing
      BY <1>6, PageStarts DEF PageUnmounts
    <2> QED
      BY <1>0, <2>1 DEF PageIsEarned, AllContainedFor, Nothing
  <1> QED
    BY <1>0, <1>1, <1>2, <1>3, <1>4, <1>5, <1>6 DEF PageStep

(* Of the functions, one may have begun: a playbook of mock mode is done   *)
(* before it begins.                                                       *)
LEMMA PageStepTasksEarned ==
  ASSUME TypeInv, EarnedInv, PageStep
  PROVE  ModesDiffer' /\ ReadsAreEarned' /\ PlaybooksAreEarned'
  <1>0. /\ DashboardTypeOK /\ ModesDiffer /\ ReadsAreEarned /\ PlaybooksAreEarned
        /\ mock' = mock /\ server' = server /\ earned \subseteq earned'
    BY PageStepEarns DEF TypeInv, EarnedInv
  <1>1. \A a : ContainedFor(a) => ContainedFor(a)'
    BY <1>0 DEF ContainedFor
  <1>2. ASSUME \A k \in Task : \/ tasks'[k] = IdleTask
                               \/ /\ tasks'[k].run = tasks[k].run /\ tasks'[k].at = tasks[k].at
                                  /\ tasks'[k].of = tasks[k].of /\ tasks'[k].read = tasks[k].read
        PROVE  ModesDiffer' /\ ReadsAreEarned' /\ PlaybooksAreEarned'
    <2>1. ModesDiffer' /\ PlaybooksAreEarned'
      BY <1>0, <1>2 DEF ModesDiffer, PlaybooksAreEarned, IdleTask
    <2>2. ReadsAreEarned'
      BY <1>0, <1>1, <1>2 DEF ReadsAreEarned, AllContainedFor, IdleTask, Nothing
    <2> QED
      BY <2>1, <2>2
  <1>3. ASSUME NEW run, NEW at, NEW of, NEW live, Opens(run, at, of, live),
               Begin(run, at, of, live),
               mock => at # "post",
               run = "soar" /\ at = "posted" => of \in earned'
        PROVE  ModesDiffer' /\ ReadsAreEarned' /\ PlaybooksAreEarned'
    <2>1. PICK k \in Task : tasks'[k] = Starting(run, at, of, live) /\ Others(k)
      BY <1>0, <1>3, OpensTypes, BeginBegins
    <2>2. /\ tasks'[k].run = run /\ tasks'[k].at = at /\ tasks'[k].of = of
          /\ tasks'[k].read = Nothing
      BY <2>1 DEF Starting
    <2>3. ModesDiffer' /\ PlaybooksAreEarned'
      BY <1>0, <1>3, <2>1, <2>2 DEF ModesDiffer, PlaybooksAreEarned, Others
    <2>4. ReadsAreEarned'
      BY <1>0, <1>1, <2>1, <2>2 DEF ReadsAreEarned, AllContainedFor, Others, Nothing
    <2> QED
      BY <2>3, <2>4
  <1>4. ASSUME NEW a \in Alert, NEW action \in {"approved", "dismissed"},
               HandleAction(a, action)
        PROVE  ModesDiffer' /\ ReadsAreEarned' /\ PlaybooksAreEarned'
    <2>1. CASE ResolveIncident(a, action)
      BY <1>2, <2>1 DEF ResolveIncident
    <2>2. CASE ~ResolveIncident(a, action)
      <3> DEFINE run == IF action = "approved" THEN "approve" ELSE "dismiss"
      <3>1. Begin(run, "post", a, "screen") /\ run \in {"approve", "dismiss"} /\ ~mock
        BY <1>0, <1>4, <2>2, HandleActionTypes
      <3> HIDE DEF run
      <3>2. Opens(run, "post", a, "screen")
        BY <3>1, OwnersAre DEF Opens
      <3> QED
        BY <1>3, <3>1, <3>2
    <2> QED
      BY <2>1, <2>2
  <1>5. CASE ExecutePlaybook
    <2> DEFINE at == IF mock THEN "posted" ELSE "post"
    <2>1. Begin("soar", at, screen.of, "screen") /\ at \in {"post", "posted"}
          /\ (mock => at # "post") /\ (at = "posted" => mock)
      BY <1>5 DEF ExecutePlaybook
    <2> HIDE DEF at
    <2>2. Opens("soar", at, screen.of, "screen") /\ (mock => screen.of \in earned')
      BY <1>5, <2>1, ExecutePlaybookTypes, OwnersAre DEF Opens
    <2> QED
      BY <1>3, <2>1, <2>2
  <1>6. CASE Retry \/ \E tab \in DashboardTab : PageMounts(tab)
    <2>1. Begin("load", "data", None, "page") /\ Opens("load", "data", None, "page")
      BY <1>6, OwnersAre DEF Retry, PageMounts, Opens
    <2> QED
      BY <1>3, <2>1
  <1>7. CASE RetryAudit
    <2>1. Begin("log", "log", None, "page") /\ Opens("log", "log", None, "page")
      BY <1>7, OwnersAre DEF RetryAudit, Opens
    <2> QED
      BY <1>3, <2>1
  <1>8. CASE SelectNode
    BY <1>2, <1>8 DEF SelectNode
  <1>9. CASE \E tab \in DashboardTab : ShowTab(tab)
    BY <1>0, <1>2, <1>9, ShowTabTypes
  <1>10. CASE PageUnmounts
    BY <1>0, <1>2, <1>10, PageUnmountsTypes
  <1> QED
    BY <1>4, <1>5, <1>6, <1>7, <1>8, <1>9, <1>10 DEF PageStep

LEMMA PageStepScreenEarned ==
  ASSUME TypeInv, MountInv, EarnedInv, PageStep
  PROVE  ScreenIsEarned'
  <1>0. /\ DashboardTypeOK /\ ScreenIsEarned
        /\ mock' = mock /\ server' = server /\ earned \subseteq earned'
    BY PageStepEarns DEF TypeInv, EarnedInv
  <1>1. \A a : ContainedFor(a) => ContainedFor(a)'
    BY <1>0 DEF ContainedFor
  <1>2. ASSUME NEW run, NEW at, NEW of, NEW live, Opens(run, at, of, live),
               Begin(run, at, of, live), run = "soar" /\ live = "screen" => of = screen.of,
               \/ screen' = screen
               \/ /\ screen'.tab = "alerts" /\ screen.tab = "alerts" /\ screen'.of = screen.of
                  /\ screen'.status = screen.status /\ screen'.dialog = "running",
               crossed' = crossed
        PROVE  ScreenIsEarned'
    <2>1. PICK k \in Task : tasks'[k] = Starting(run, at, of, live) /\ Others(k)
      BY <1>0, <1>2, OpensTypes, BeginBegins
    <2>2. tasks'[k].run = run /\ tasks'[k].of = of /\ tasks'[k].live = live
      BY <2>1 DEF Starting
    <2> QED
      BY <1>0, <1>1, <1>2, <2>1, <2>2 DEF ScreenIsEarned, Others
  <1>3. ASSUME NEW a \in Alert, NEW action \in {"approved", "dismissed"},
               HandleAction(a, action)
        PROVE  ScreenIsEarned'
    <2>1. screen.tab = "incident" /\ (screen' = screen \/ screen' \in IncidentResponseScreen)
      BY <1>0, <1>3, HandleActionTypes DEF ResolveIncident
    <2> QED
      BY <2>1 DEF ScreenIsEarned, IncidentResponseScreen
  <1>4. CASE ExecutePlaybook
    <2> DEFINE at == IF mock THEN "posted" ELSE "post"
    <2>1. /\ Begin("soar", at, screen.of, "screen") /\ at \in {"post", "posted"}
          /\ crossed' = crossed
      BY <1>4 DEF ExecutePlaybook
    <2> HIDE DEF at
    <2>2. /\ screen'.tab = "alerts" /\ screen.tab = "alerts" /\ screen'.of = screen.of
          /\ screen'.status = screen.status /\ screen'.dialog = "running"
          /\ screen.of \in Alert
      BY <1>4, ExecutePlaybookTypes DEF AlertsQueueScreen
    <2>3. Opens("soar", at, screen.of, "screen")
      BY <2>1, <2>2, OwnersAre DEF Opens
    <2> QED
      BY <1>2, <2>1, <2>2, <2>3
  <1>5. CASE Retry
    <2>1. Begin("load", "data", None, "page") /\ Opens("load", "data", None, "page")
          /\ screen' = screen /\ crossed' = crossed
      BY <1>5, OwnersAre DEF Retry, Opens
    <2> QED
      BY <1>2, <2>1
  <1>6. CASE RetryAudit
    <2>1. Begin("log", "log", None, "page") /\ Opens("log", "log", None, "page")
          /\ screen' = screen /\ crossed' = crossed
      BY <1>6, OwnersAre DEF RetryAudit, Opens
    <2> QED
      BY <1>2, <2>1
  <1>7. CASE SelectNode
    <2>1. screen' = screen /\ tasks' = tasks /\ crossed' = crossed
      BY <1>7 DEF SelectNode
    <2> QED
      BY <1>0, <1>1, <2>1 DEF ScreenIsEarned
  <1>8. ASSUME NEW tab \in DashboardTab, screen' \in ScreenStarts(tab),
               \A k \in Task : ~(tasks'[k].run = "soar" /\ tasks'[k].live = "screen")
        PROVE  ScreenIsEarned'
    <2>1. screen'.tab = tab
      BY <1>8, ScreensStart
    <2>2. tab = "alerts" => screen'.of = None
      BY <1>8 DEF ScreenStarts
    <2> QED
      BY <1>8, <2>1, <2>2 DEF ScreenIsEarned
  <1>9. ASSUME NEW tab \in DashboardTab, ShowTab(tab)
        PROVE  ScreenIsEarned'
    BY <1>0, <1>8, <1>9, ShowTabTypes
  <1>10. ASSUME NEW tab \in DashboardTab, PageMounts(tab)
        PROVE  ScreenIsEarned'
    <2>1. Begin("load", "data", None, "page") /\ Opens("load", "data", None, "page")
          /\ screen' \in ScreenStarts(tab) /\ screen.tab = "none"
      BY <1>10, OwnersAre DEF PageMounts, Opens
    <2>2. PICK k \in Task : tasks'[k] = Starting("load", "data", None, "page") /\ Others(k)
      BY <1>0, <2>1, OpensTypes, BeginBegins
    <2>3. \A j \in Task : tasks[j].live = "gone"
      BY <2>1 DEF MountInv
    <2>4. \A j \in Task : ~(tasks'[j].run = "soar" /\ tasks'[j].live = "screen")
      BY <2>2, <2>3 DEF Others, Starting
    <2> QED
      BY <1>8, <2>1, <2>4
  <1>11. CASE PageUnmounts
    BY <1>0, <1>11, PageUnmountsTypes DEF ScreenIsEarned
  <1> QED
    BY <1>3, <1>4, <1>5, <1>6, <1>7, <1>9, <1>10, <1>11 DEF PageStep

LEMMA EarnedInvHolds == DashboardSpec => []EarnedInv
  <1>1. DashboardInit => EarnedInv
    <2> SUFFICES ASSUME DashboardInit PROVE EarnedInv
      OBVIOUS
    <2>1. /\ \A k \in Task : tasks[k] = IdleTask
          /\ page.alerts = Nothing /\ screen = [tab |-> "none"]
      BY PageStarts DEF DashboardInit
    <2>2. ModesDiffer
      <3>1. ASSUME ~mock PROVE \A a \in DOMAIN server : server[a] = "new"
        <4>1. PICK S \in Stores : server = [a \in S |-> "new"]
          BY <3>1 DEF DashboardInit
        <4> QED
          BY <4>1
      <3> QED
        BY <2>1, <3>1 DEF ModesDiffer, IdleTask
    <2>3. ReadsAreEarned /\ PlaybooksAreEarned
      BY <2>1 DEF ReadsAreEarned, PlaybooksAreEarned, AllContainedFor, IdleTask, Nothing
    <2>4. PageIsEarned /\ ScreenIsEarned
      BY <2>1 DEF PageIsEarned, AllContainedFor, Nothing, ScreenIsEarned
    <2> QED
      BY <2>2, <2>3, <2>4 DEF EarnedInv
  <1>2. TypeInv /\ MountInv /\ EarnedInv /\ [DashboardNext]_dashboardVars => EarnedInv'
    <2>1. ASSUME TypeInv, MountInv, EarnedInv, PageStep PROVE EarnedInv'
      <3>1. PageIsEarned'
        BY <2>1, PageStepEarns
      <3> QED
        BY <2>1, <3>1, PageStepTasksEarned, PageStepScreenEarned DEF EarnedInv
    <2>2. ASSUME TypeInv, EarnedInv, NEW k \in Task, TaskStep(k) PROVE EarnedInv'
      BY <2>2, TaskStepPageEarned, TaskStepScreenEarned DEF EarnedInv
    <2>3. ASSUME TypeInv, MountInv, EarnedInv, DashboardNext PROVE EarnedInv'
      BY <2>1, <2>2, <2>3, StepKinds, ScreenStepKeepsEarned
    <2>4. ASSUME EarnedInv, UNCHANGED dashboardVars PROVE EarnedInv'
      BY <2>4 DEF EarnedInv, ModesDiffer, ReadsAreEarned, PlaybooksAreEarned, PageIsEarned,
                  ScreenIsEarned, AllContainedFor, ContainedFor, dashboardVars
    <2> QED
      BY <2>3, <2>4
  <1> QED
    BY <1>1, <1>2, TypeInvHolds, MountInvHolds, PTL DEF DashboardSpec

(* No alert is shown as contained that nothing contained: however answers, *)
(* loads, tabs and dialogs interleave, a playbook, an approval or the      *)
(* backend stands behind it -- in the panel and the dialog as long as no   *)
(* playbook runs across a change of the selection or of the dialog.        *)
THEOREM ContainedHolds == DashboardSpec => []ContainedIsEarned
  <1>1. EarnedInv => ContainedIsEarned
    BY DEF EarnedInv, PageIsEarned, AllContainedFor, ContainedFor, ScreenIsEarned,
           ContainedIsEarned
  <1> QED
    BY <1>1, EarnedInvHolds, PTL

-----------------------------------------------------------------------------
(* Details of the selection.  Unless answers may cross, whatever is on its *)
(* way is for the selected alert, and what the panel shows without asking  *)
(* is of that alert too.                                                   *)

OnItsWay(s, d) == {a \in Alert : \/ s.asked[d][a] > 0
                                 \/ d = "narrative" /\ s.writing = a}
NoneAsked(s, d) == \A a \in Alert : s.asked[d][a] = 0

OfSelection(s, d, crossing) == s.of # None /\ ~crossing =>
  /\ OnItsWay(s, d) \subseteq {s.of}
  /\ NoneAsked(s, d) => s.shown[d] \in {s.of, None}

DetailInv == screen.tab = "alerts" =>
  /\ mock => OnItsWay(screen, "narrative") = {}
  /\ \A d \in Detail : OfSelection(screen, d, overlap[d])

LEMMA InFlightIsOnItsWay == \A d : InFlight(d) = OnItsWay(screen, d)
  BY DEF InFlight, OnItsWay

SameDetails(s, t) ==
  /\ t.of = s.of /\ t.asked = s.asked /\ t.shown = s.shown /\ t.writing = s.writing

LEMMA DetailsStay ==
  ASSUME DetailInv, screen'.tab = "alerts" => screen.tab = "alerts" /\ SameDetails(screen, screen'),
         overlap' = overlap, mock' = mock
  PROVE  DetailInv'
  BY DEF DetailInv, SameDetails, OfSelection, OnItsWay, NoneAsked

(* The effect on the selection: which details it asks for.                 *)
LEMMA InspectAsksFor ==
  ASSUME NEW s \in AlertsQueueScreen, s.of # None, NEW d \in Detail
  PROVE  /\ Inspect(s).writing = s.writing
         /\ IF mock /\ d = "narrative"
              THEN Inspect(s).asked[d] = s.asked[d] /\ Inspect(s).shown[d] = None
              ELSE /\ Inspect(s).asked[d] = [s.asked[d] EXCEPT ![s.of] = More(@)]
                   /\ Inspect(s).shown[d] = s.shown[d]
  <1> DEFINE wanted == IF mock THEN {"intel"} ELSE Detail
             asked == [e \in Detail |->
                         IF e \in wanted THEN [s.asked[e] EXCEPT ![s.of] = More(@)]
                         ELSE s.asked[e]]
             busy == [e \in Detail |-> e \in wanted \/ s.busy[e]]
             shown == [s.shown EXCEPT !["narrative"] = IF mock THEN None ELSE @]
  <1>1. d \in wanted <=> ~(mock /\ d = "narrative")
    BY DEF Detail
  <1>2. /\ d \in wanted => asked[d] = [s.asked[d] EXCEPT ![s.of] = More(@)]
        /\ d \notin wanted => asked[d] = s.asked[d]
    OBVIOUS
  <1>3. shown[d] = IF mock /\ d = "narrative" THEN None ELSE s.shown[d]
    <2>1. s.shown \in [Detail -> Alert \cup {None}]
      BY DEF AlertsQueueScreen
    <2> QED
      BY <2>1
  <1> HIDE DEF asked, busy, shown, wanted
  <1>4. Inspect(s) = [s EXCEPT !.asked = asked, !.busy = busy, !.shown = shown]
    BY DEF Inspect, asked, busy, shown, wanted, AlertsQueueScreen
  <1>5. Inspect(s).asked = asked /\ Inspect(s).shown = shown /\ Inspect(s).writing = s.writing
    BY <1>4 DEF AlertsQueueScreen
  <1> QED
    BY <1>1, <1>2, <1>3, <1>5

LEMMA InspectIsOfSelection ==
  ASSUME NEW s \in AlertsQueueScreen, s.of \in Alert, InspectOverlaps(s.of),
         overlap \in [Detail -> BOOLEAN],
         \A d \in Detail : OnItsWay(s, d) = InFlight(d),
         mock => OnItsWay(s, "narrative") = {}
  PROVE  /\ mock => OnItsWay(Inspect(s), "narrative") = {}
         /\ \A d \in Detail : OfSelection(Inspect(s), d, overlap'[d])
  <1>0. s.of # None
    BY DashboardAssumption
  <1>1. "narrative" \in Detail
    BY DEF Detail
  <1>2. ASSUME NEW d \in Detail, mock, d = "narrative"
        PROVE  OnItsWay(Inspect(s), d) = {} /\ OfSelection(Inspect(s), d, overlap'[d])
    <2>1. OnItsWay(Inspect(s), d) = {} /\ Inspect(s).shown[d] = None
      BY ZenonT(60), <1>0, <1>2, InspectAsksFor DEF OnItsWay
    <2> QED
      BY <2>1 DEF OfSelection
  <1>3. ASSUME NEW d \in Detail, ~(mock /\ d = "narrative")
        PROVE  OfSelection(Inspect(s), d, overlap'[d])
    <2>1. /\ Inspect(s).asked[d] = [s.asked[d] EXCEPT ![s.of] = More(@)]
          /\ Inspect(s).writing = s.writing /\ Inspect(s).of = s.of
      BY <1>0, <1>3, InspectAsksFor, InspectTypes
    <2>2. s.asked[d] \in [Alert -> 0..MaxAsks] /\ MaxAsks \in Nat \ {0}
      BY DashboardAssumption DEF AlertsQueueScreen
    <2>3. Inspect(s).asked[d][s.of] > 0
      <3>1. \A n \in 0..MaxAsks : More(n) > 0
        BY <2>2 DEF More
      <3>2. Inspect(s).asked[d][s.of] = More(s.asked[d][s.of])
        BY <2>1, <2>2
      <3> QED
        BY <2>2, <3>1, <3>2
    <2>4. \A a \in Alert \ {s.of} : Inspect(s).asked[d][a] = s.asked[d][a]
      BY <2>1, <2>2
    <2>5. OnItsWay(Inspect(s), d) \subseteq OnItsWay(s, d) \cup {s.of}
      BY <2>1, <2>4 DEF OnItsWay
    <2>6. overlap'[d] = CrossesWith(d, s.of)
      BY <1>3 DEF InspectOverlaps
    <2>7. ~overlap'[d] => OnItsWay(s, d) \subseteq {s.of}
      BY <2>6 DEF CrossesWith
    <2>8. ~NoneAsked(Inspect(s), d)
      BY <2>3 DEF NoneAsked
    <2> QED
      BY <2>1, <2>5, <2>7, <2>8 DEF OfSelection
  <1> QED
    BY <1>1, <1>2, <1>3

LEMMA SelectionIsOfSelection ==
  ASSUME TypeInv, DetailInv, screen.tab = "alerts", NEW s \in AlertsQueueScreen,
         s.of \in Alert, s.asked = screen.asked, s.writing = screen.writing,
         InspectOverlaps(s.of), screen' = Inspect(s), mock' = mock
  PROVE  DetailInv'
  <1>1. \A d : OnItsWay(s, d) = OnItsWay(screen, d)
    BY DEF OnItsWay
  <1>2. overlap \in [Detail -> BOOLEAN] /\ (mock => OnItsWay(s, "narrative") = {})
    BY <1>1 DEF TypeInv, DashboardTypeOK, DetailInv
  <1>3. /\ mock => OnItsWay(Inspect(s), "narrative") = {}
        /\ \A d \in Detail : OfSelection(Inspect(s), d, overlap'[d])
    BY <1>1, <1>2, InFlightIsOnItsWay, InspectIsOfSelection
  <1>4. /\ mock' => OnItsWay(screen', "narrative") = {}
        /\ \A d \in Detail : OfSelection(screen', d, overlap'[d])
    BY <1>3
  <1> QED
    BY <1>4 DEF DetailInv, OnItsWay, OfSelection, NoneAsked

LEMMA CloseIsOfSelection ==
  ASSUME TypeInv, DetailInv, CloseAlert
  PROVE  DetailInv'
  <1>1. screen \in AlertsQueueScreen /\ screen.tab = "alerts" /\ mock' = mock
    BY AlertsScreen DEF CloseAlert, TypeInv
  <1> DEFINE s == [screen EXCEPT !.of = None, !.status = "new"]
  <1>2. s.of = None /\ s.asked = screen.asked /\ s.writing = screen.writing
        /\ s \in AlertsQueueScreen
    BY <1>1 DEF AlertsQueueScreen, Status
  <1>3. screen' = Inspect(s)
    BY DEF CloseAlert
  <1> HIDE DEF s
  <1>4. /\ screen'.of = None /\ screen'.asked = screen.asked
        /\ screen'.writing = screen.writing
    BY <1>2, <1>3 DEF Inspect, AlertsQueueScreen
  <1> QED
    BY <1>1, <1>4 DEF DetailInv, OnItsWay, OfSelection

LEMMA AnswerIsOfSelection ==
  ASSUME TypeInv, DetailInv, NEW a \in Alert, NEW d \in Detail, DetailAnswers(d, a)
  PROVE  DetailInv'
  <1>1. /\ screen \in AlertsQueueScreen /\ screen.tab = "alerts" /\ mock' = mock
        /\ overlap' = overlap
    BY AlertsScreen DEF DetailAnswers, TypeInv
  <1>2. PICK found \in {a, None} :
          screen' = [screen EXCEPT !.asked[d][a] = @ - 1, !.busy[d] = FALSE,
                                   !.shown[d] = found]
    BY DEF DetailAnswers
  <1>3. /\ screen.asked \in [Detail -> [Alert -> 0..MaxAsks]] /\ screen.asked[d][a] > 0
        /\ screen.shown \in [Detail -> Alert \cup {None}] /\ MaxAsks \in Nat
    BY <1>1, DashboardAssumption DEF AlertsQueueScreen, DetailAnswers
  <1> DEFINE asked == [screen.asked EXCEPT ![d][a] = @ - 1]
             busy == [screen.busy EXCEPT ![d] = FALSE]
             shown == [screen.shown EXCEPT ![d] = found]
  <1>4. screen' = [screen EXCEPT !.asked = asked, !.busy = busy, !.shown = shown]
    BY <1>1, <1>2 DEF AlertsQueueScreen
  <1>5. /\ \A e \in Detail \ {d} : asked[e] = screen.asked[e] /\ shown[e] = screen.shown[e]
        /\ asked[d] = [screen.asked[d] EXCEPT ![a] = @ - 1] /\ shown[d] = found
    BY <1>3
  <1>6. \A b \in Alert : asked[d][b] > 0 => screen.asked[d][b] > 0
    BY <1>3, <1>5
  <1> HIDE DEF asked, busy, shown
  <1>7. /\ screen'.of = screen.of /\ screen'.writing = screen.writing
        /\ screen'.asked = asked /\ screen'.shown = shown
    BY <1>1, <1>4 DEF AlertsQueueScreen
  <1>8. \A e \in Detail : OnItsWay(screen', e) \subseteq OnItsWay(screen, e)
    BY <1>5, <1>6, <1>7 DEF OnItsWay
  <1>9. a \in OnItsWay(screen, d)
    BY <1>3 DEF OnItsWay
  <1>10. ASSUME NEW e \in Detail PROVE OfSelection(screen', e, overlap[e])
    <2>1. OfSelection(screen, e, overlap[e])
      BY <1>1 DEF DetailInv
    <2>2. CASE e = d
      BY <1>2, <1>5, <1>7, <1>8, <1>9, <2>1, <2>2 DEF OfSelection
    <2>3. CASE e # d
      BY <1>5, <1>7, <1>8, <2>1, <2>3 DEF OfSelection, NoneAsked
    <2> QED
      BY <2>2, <2>3
  <1>11. mock => OnItsWay(screen', "narrative") = {}
    BY <1>1, <1>8 DEF DetailInv, Detail
  <1> QED
    BY <1>1, <1>10, <1>11 DEF DetailInv, OnItsWay, OfSelection, NoneAsked

LEMMA NarrativeIsOfSelection ==
  ASSUME TypeInv, DetailInv, GenerateNarrative \/ NarrativeIsWritten
  PROVE  DetailInv'
  <1>1. /\ screen \in AlertsQueueScreen /\ screen.tab = "alerts" /\ mock' = mock
        /\ screen'.of = screen.of /\ screen'.asked = screen.asked
    BY AlertsScreen, NarrativeTypes DEF GenerateNarrative, NarrativeIsWritten, TypeInv
  <1>2. /\ screen.shown \in [Detail -> Alert \cup {None}] /\ overlap \in [Detail -> BOOLEAN]
        /\ None \notin Alert
    BY <1>1, DashboardAssumption DEF AlertsQueueScreen, TypeInv, DashboardTypeOK
  <1>3. "narrative" \in Detail /\ \A e \in Detail : e = "intel" \/ e = "narrative"
    BY DEF Detail
  <1>4. /\ mock => OnItsWay(screen, "narrative") = {}
        /\ \A d \in Detail : OfSelection(screen, d, overlap[d])
    BY <1>1 DEF DetailInv
  <1>5. CASE GenerateNarrative /\ mock
    <2>1. screen' = [screen EXCEPT !.shown.narrative = screen.of] /\ overlap' = overlap
          /\ screen.of # None
      BY <1>5 DEF GenerateNarrative
    <2>2. /\ screen'.writing = screen.writing
          /\ screen'.shown = [screen.shown EXCEPT !["narrative"] = screen.of]
      BY <1>1, <2>1 DEF AlertsQueueScreen
    <2>3. /\ screen'.shown["narrative"] = screen.of
          /\ screen'.shown["intel"] = screen.shown["intel"]
      BY <1>2, <1>3, <2>2
    <2>4. \A e : OnItsWay(screen', e) = OnItsWay(screen, e)
                 /\ NoneAsked(screen', e) = NoneAsked(screen, e)
      BY <1>1, <2>2 DEF OnItsWay, NoneAsked
    <2>5. \A d \in Detail : OfSelection(screen', d, overlap'[d])
      BY <1>1, <1>3, <1>4, <2>1, <2>3, <2>4 DEF OfSelection
    <2> QED
      BY <1>1, <1>4, <2>4, <2>5 DEF DetailInv, OnItsWay, OfSelection, NoneAsked
  <1>6. CASE GenerateNarrative /\ ~mock
    <2>1. /\ screen' = [screen EXCEPT !.writing = screen.of] /\ screen.of # None
          /\ overlap' = [overlap EXCEPT
               !["narrative"] = @ \/ InFlight("narrative") \ {screen.of} # {}]
      BY <1>6 DEF GenerateNarrative
    <2>2. screen'.writing = screen.of /\ screen'.shown = screen.shown
      BY <1>1, <2>1 DEF AlertsQueueScreen
    <2>3. /\ OnItsWay(screen', "narrative") \subseteq OnItsWay(screen, "narrative") \cup {screen.of}
          /\ OnItsWay(screen', "intel") = OnItsWay(screen, "intel")
          /\ \A e : NoneAsked(screen', e) = NoneAsked(screen, e)
      BY <1>1, <2>2 DEF OnItsWay, NoneAsked
    <2>4. /\ overlap'["intel"] = overlap["intel"]
          /\ ~overlap'["narrative"] =>
               ~overlap["narrative"] /\ InFlight("narrative") \subseteq {screen.of}
      <3> DEFINE crossing == overlap["narrative"]
                               \/ InFlight("narrative") \ {screen.of} # {}
      <3>1. overlap' = [overlap EXCEPT !["narrative"] = crossing]
        BY <2>1
      <3>2. ~crossing => ~overlap["narrative"] /\ InFlight("narrative") \subseteq {screen.of}
        OBVIOUS
      <3> HIDE DEF crossing
      <3>3. overlap'["narrative"] = crossing /\ overlap'["intel"] = overlap["intel"]
        BY <1>2, <1>3, <3>1
      <3> QED
        BY <3>2, <3>3
    <2>5. \A d \in Detail : OfSelection(screen', d, overlap'[d])
      BY <1>1, <1>3, <1>4, <2>2, <2>3, <2>4, InFlightIsOnItsWay DEF OfSelection
    <2> QED
      BY <1>1, <1>6, <2>5 DEF DetailInv, OnItsWay, OfSelection, NoneAsked
  <1>7. CASE NarrativeIsWritten
    <2>1. PICK v \in {screen.writing, screen.shown.narrative} :
            screen' = [screen EXCEPT !.writing = None, !.shown.narrative = v]
      BY <1>7 DEF NarrativeIsWritten
    <2>2. screen.writing \in Alert /\ overlap' = overlap
      BY <1>1, <1>7 DEF NarrativeIsWritten, AlertsQueueScreen
    <2>3. /\ screen'.writing = None
          /\ screen'.shown = [screen.shown EXCEPT !["narrative"] = v]
      BY <1>1, <2>1 DEF AlertsQueueScreen
    <2>4. /\ screen'.shown["narrative"] \in {screen.writing, screen.shown["narrative"]}
          /\ screen'.shown["intel"] = screen.shown["intel"]
      <3>1. v \in {screen.writing, screen.shown["narrative"]}
        OBVIOUS
      <3> QED
        BY <1>2, <1>3, <2>3, <3>1
    <2>5. /\ \A e : OnItsWay(screen', e) \subseteq OnItsWay(screen, e)
                    /\ NoneAsked(screen', e) = NoneAsked(screen, e)
          /\ screen.writing \in OnItsWay(screen, "narrative")
      BY <1>1, <1>2, <2>2, <2>3 DEF OnItsWay, NoneAsked
    <2>6. \A d \in Detail : OfSelection(screen', d, overlap'[d])
      BY <1>1, <1>3, <1>4, <2>2, <2>4, <2>5 DEF OfSelection
    <2>7. mock' => OnItsWay(screen', "narrative") = {}
      BY <1>1, <1>4, <2>5
    <2> QED
      BY <2>6, <2>7 DEF DetailInv, OnItsWay, OfSelection, NoneAsked
  <1> QED
    BY <1>5, <1>6, <1>7 DEF GenerateNarrative

LEMMA AlertsStepDetails ==
  ASSUME TypeInv, DetailInv, AlertsStep
  PROVE  DetailInv'
  <1>0. screen \in AlertsQueueScreen /\ screen.tab = "alerts"
    BY AlertsStepTypes, AlertsScreen DEF TypeInv
  <1>1. ASSUME NEW a \in Alert, SelectAlert(a) PROVE DetailInv'
    <2>1. page.alerts[a] \in Status
      <3>1. a \in DOMAIN page.alerts
        BY <1>1, SelectAlertTypes
      <3> QED
        BY <3>1, PartialElim DEF TypeInv, DashboardTypeOK, Page
    <2> DEFINE s == [screen EXCEPT !.of = a, !.status = page.alerts[a]]
    <2>2. /\ s \in AlertsQueueScreen /\ s.of = a /\ s.asked = screen.asked
          /\ s.writing = screen.writing
      BY ZenonT(60), <1>0, <2>1 DEF AlertsQueueScreen
    <2>3. screen' = Inspect(s) /\ InspectOverlaps(a) /\ mock' = mock
      BY <1>1 DEF SelectAlert
    <2> HIDE DEF s
    <2> QED
      BY <1>0, <2>2, <2>3, SelectionIsOfSelection
  <1>2. CASE Mitigate \/ HideDialog
    <2>1. /\ \E open \in BOOLEAN, dialog \in {"idle", screen.dialog} :
               screen' = [screen EXCEPT !.open = open, !.dialog = dialog]
          /\ overlap' = overlap /\ mock' = mock
      <3>1. CASE Mitigate
        BY <3>1 DEF Mitigate
      <3>2. CASE HideDialog
        <4>1. screen' = [screen EXCEPT !.open = FALSE] /\ overlap' = overlap /\ mock' = mock
          BY <3>2 DEF HideDialog
        <4>2. screen' = [screen EXCEPT !.open = FALSE, !.dialog = screen.dialog]
          BY <1>0, <4>1 DEF AlertsQueueScreen
        <4> QED
          BY <4>1, <4>2
      <3> QED
        BY <1>2, <3>1, <3>2
    <2>2. SameDetails(screen, screen')
      BY <1>0, <2>1 DEF SameDetails, AlertsQueueScreen
    <2> QED
      BY <1>0, <2>1, <2>2, DetailsStay
  <1> QED
    BY <1>1, <1>2, CloseIsOfSelection, AnswerIsOfSelection, NarrativeIsOfSelection
       DEF AlertsStep

LEMMA ScreenStepDetails ==
  ASSUME TypeInv, DetailInv, ScreenStep
  PROVE  DetailInv'
  <1>1. CASE AlertsStep
    BY <1>1, AlertsStepDetails
  <1>2. CASE ~AlertsStep
    <2>1. screen'.tab # "alerts"
      BY <1>2, ScreenStepTabs, OverviewTypes DEF OverviewScreen
    <2> QED
      BY <2>1 DEF DetailInv
  <1> QED
    BY <1>1, <1>2

LEMMA TaskStepDetails ==
  ASSUME TypeInv, DetailInv, NEW k \in Task, TaskStep(k)
  PROVE  DetailInv'
  <1>1. /\ screen'.tab = screen.tab /\ mock' = mock /\ DashboardTypeOK
        /\ PlaybooksHaveAlerts
    BY TaskStepTypes DEF TypeInv
  <1> SUFFICES ASSUME screen.tab = "alerts" PROVE DetailInv'
    BY <1>1 DEF DetailInv
  <1>2. screen \in AlertsQueueScreen
    BY <1>1, AlertsScreen
  <1>3. AfterAction(k) = screen
    BY DEF AfterAction
  <1>4. CASE screen' = screen /\ overlap' = overlap
    BY <1>1, <1>4, DetailsStay DEF SameDetails
  <1>5. CASE ReadIsServed(k) \/ DataLands(k) \/ DataFails(k) \/ AuditLands(k)
             \/ RefreshReviewQueue(k) \/ DecisionLands(k)
    BY <1>4, <1>5 DEF ReadIsServed, DataLands, DataFails, AuditLands, RefreshReviewQueue,
                      DecisionLands
  <1>6. CASE RefreshAuditLogs(k)
    <2>1. screen' = AfterAction(k) /\ overlap' = overlap
      BY <1>6 DEF RefreshAuditLogs
    <2> QED
      BY <1>3, <1>4, <2>1
  <1>7. CASE PostIsServed(k)
    BY <1>4, <1>7 DEF PostIsServed
  <1>8. CASE PostFails(k)
    <2>1. overlap' = overlap
      BY <1>8 DEF PostFails
    <2>2. CASE tasks[k].run = "soar" /\ OnScreen(k)
      <3>1. screen' = [screen EXCEPT !.dialog = "idle"]
        BY <1>1, <1>8, <2>2, PostFailsTypes
      <3>2. SameDetails(screen, screen')
        BY <1>2, <3>1 DEF SameDetails, AlertsQueueScreen
      <3> QED
        BY <1>1, <2>1, <3>2, DetailsStay
    <2>3. CASE ~(tasks[k].run = "soar" /\ OnScreen(k))
      <3>1. screen' = screen
        BY <1>1, <1>3, <1>8, <2>3, PostFailsTypes
      <3> QED
        BY <1>4, <2>1, <3>1
    <2> QED
      BY <2>2, <2>3
  <1>9. CASE PlaybookLands(k)
    <2> DEFINE done == [screen EXCEPT !.dialog = "success"]
               s == [done EXCEPT !.status = "contained"]
    <2>1. \/ screen' = screen /\ overlap' = overlap
          \/ screen' = done /\ overlap' = overlap
          \/ screen.of # None /\ screen' = Inspect(s) /\ InspectOverlaps(screen.of)
      BY <1>9 DEF PlaybookLands
    <2>2. SameDetails(screen, done) /\ SameDetails(screen, s) /\ s \in AlertsQueueScreen
          /\ done.tab = "alerts"
      BY <1>2 DEF SameDetails, AlertsQueueScreen, Status
    <2> HIDE DEF s, done
    <2>3. CASE screen' = done /\ overlap' = overlap
      BY <1>1, <2>2, <2>3, DetailsStay
    <2>4. CASE screen.of # None /\ screen' = Inspect(s) /\ InspectOverlaps(screen.of)
      <3>1. s.of = screen.of /\ s.of \in Alert /\ s.asked = screen.asked
            /\ s.writing = screen.writing
        BY <1>2, <2>2, <2>4 DEF SameDetails, AlertsQueueScreen
      <3> QED
        BY <1>1, <2>2, <2>4, <3>1, SelectionIsOfSelection
    <2> QED
      BY <1>4, <2>1, <2>3, <2>4
  <1> QED
    BY <1>5, <1>6, <1>7, <1>8, <1>9 DEF TaskStep, Fetch

LEMMA PageStepDetails ==
  ASSUME TypeInv, DetailInv, PageStep
  PROVE  DetailInv'
  <1>0. DashboardTypeOK
    BY DEF TypeInv
  <1>1. CASE PageUnmounts
    BY <1>0, <1>1, PageUnmountsTypes DEF DetailInv
  <1>2. ASSUME NEW tab \in DashboardTab, screen' \in ScreenStarts(tab) PROVE DetailInv'
    <2>1. screen'.tab = tab
      BY <1>2, ScreensStart
    <2>2. CASE tab = "alerts"
      <3>1. /\ screen'.of = None /\ screen'.writing = None
            /\ screen'.asked = [d \in Detail |-> [a \in Alert |-> 0]]
        BY <1>2, <2>2 DEF ScreenStarts
      <3>2. OnItsWay(screen', "narrative") = {}
        BY <3>1, DashboardAssumption DEF OnItsWay, Detail
      <3> QED
        BY <3>1, <3>2 DEF DetailInv, OfSelection, OnItsWay
    <2>3. CASE tab # "alerts"
      BY <2>1, <2>3 DEF DetailInv
    <2> QED
      BY <2>2, <2>3
  <1>3. CASE \E tab \in DashboardTab : ShowTab(tab) \/ PageMounts(tab)
    BY <1>2, <1>3 DEF ShowTab, PageMounts
  <1>4. CASE ExecutePlaybook
    <2>1. /\ screen \in AlertsQueueScreen /\ screen.tab = "alerts"
          /\ screen' = [screen EXCEPT !.dialog = "running"]
          /\ overlap' = overlap /\ mock' = mock
      BY <1>0, <1>4, AlertsScreen DEF ExecutePlaybook
    <2>2. SameDetails(screen, screen')
      BY <2>1 DEF SameDetails, AlertsQueueScreen
    <2> QED
      BY <2>1, <2>2, DetailsStay
  <1>5. ASSUME NEW a \in Alert, NEW action \in {"approved", "dismissed"},
               HandleAction(a, action)
        PROVE  DetailInv'
    <2>1. screen.tab = "incident"
      BY <1>5 DEF HandleAction
    <2>2. screen' = screen \/ screen' \in IncidentResponseScreen
      BY <1>0, <1>5, HandleActionTypes DEF ResolveIncident
    <2> QED
      BY <2>1, <2>2 DEF DetailInv, IncidentResponseScreen
  <1>6. CASE Retry \/ RetryAudit \/ SelectNode
    <2>1. screen' = screen /\ overlap' = overlap /\ mock' = mock
      BY <1>6 DEF Retry, RetryAudit, SelectNode
    <2> QED
      BY <2>1, DetailsStay DEF SameDetails
  <1> QED
    BY <1>1, <1>3, <1>4, <1>5, <1>6 DEF PageStep

LEMMA DetailInvHolds == DashboardSpec => []DetailInv
  <1>1. DashboardInit => DetailInv
    BY DEF DashboardInit, DetailInv
  <1>2. TypeInv /\ DetailInv /\ [DashboardNext]_dashboardVars => DetailInv'
    <2>1. ASSUME DetailInv, UNCHANGED dashboardVars PROVE DetailInv'
      BY <2>1, DetailsStay DEF dashboardVars, SameDetails
    <2>2. ASSUME TypeInv, DetailInv, DashboardNext PROVE DetailInv'
      BY <2>2, StepKinds, TaskStepDetails, PageStepDetails, ScreenStepDetails
    <2> QED
      BY <2>1, <2>2
  <1> QED
    BY <1>1, <1>2, TypeInvHolds, PTL DEF DashboardSpec

(* Whatever was selected, closed and asked for in between, an alert whose  *)
(* answers did not overlap with those of another is never shown with the   *)
(* intelligence or the narrative of that other.                            *)
THEOREM DetailsAreOfSelection == DashboardSpec => []DetailsBelongToSelection
  <1>1. TypeInv /\ WorkInv /\ DetailInv => DetailsBelongToSelection
    <2> SUFFICES ASSUME TypeInv, WorkInv, DetailInv, screen.tab = "alerts", screen.of # None,
                        NEW d \in Detail, InFlight(d) = {}, ~overlap[d]
                 PROVE  /\ Panel(d) \in {screen.of, None}
                        /\ d = "intel" => InfoPanel.mitre \in {InfoPanel.of, None}
      BY DEF DetailsBelongToSelection
    <2>1. screen.asked \in [Detail -> [Alert -> 0..MaxAsks]] /\ MaxAsks \in Nat
      BY AlertsScreen, DashboardAssumption DEF TypeInv, AlertsQueueScreen
    <2>2. \A a \in Alert : screen.asked[d][a] \in Nat /\ ~(screen.asked[d][a] > 0)
      BY <2>1 DEF InFlight
    <2>3. NoneAsked(screen, d) /\ ~screen.busy[d]
      BY <2>2 DEF NoneAsked, WorkInv, PanelAtWork, Asked
    <2>4. screen.shown[d] \in {screen.of, None}
      BY <2>3 DEF DetailInv, OfSelection
    <2> QED
      BY <2>3, <2>4 DEF Panel, InfoPanel
  <1> QED
    BY <1>1, TypeInvHolds, WorkInvHolds, DetailInvHolds, PTL

-----------------------------------------------------------------------------
(* A page at rest mirrors the backend.  While nothing blurs the page, at   *)
(* most one function is in progress, and what it has still to read, or to  *)
(* write, is exactly what the page may lag behind in.                      *)

ListIsCurrent ==
  /\ DOMAIN page.alerts = ListItems(DOMAIN server)
  /\ \A a \in DOMAIN page.alerts : \/ page.alerts[a] = server[a]
                                  \/ /\ page.alerts[a] = "contained"
                                     /\ a \in earned
QueueIsCurrent == PendingIncidents = ListItems(NewAnomalies)

InHand(task) ==
  /\ task.live # "gone"
  /\ task.at = "dataRead" => task.read = Listed(DOMAIN server)
  /\ task.at = "queueRead" => task.read = Listed(NewAnomalies)
  /\ task.at \in {"audit", "queue", "queueRead"} => ListIsCurrent
  /\ \/ task.at \in {"post", "log"}
     \/ task.at = "posted" /\ task.run = "soar"
     => ListIsCurrent /\ QueueIsCurrent

IdleAtRest == \A k \in Task : tasks[k].run = "idle" => tasks[k].at = "idle"

OneInHand ==
  /\ \A j, k \in Busy : j = k
  /\ \A k \in Busy : InHand(tasks[k])
  /\ Busy = {} => ListIsCurrent /\ QueueIsCurrent

QuietInv == IdleAtRest /\ (~mock /\ screen.tab # "none" /\ ~blurred => OneInHand)

LEMMA ListingStays ==
  ASSUME mock' = mock, server' = server
  PROVE  /\ ListItems(DOMAIN server)' = ListItems(DOMAIN server)
         /\ ListItems(NewAnomalies)' = ListItems(NewAnomalies)
         /\ Listed(DOMAIN server)' = Listed(DOMAIN server)
         /\ Listed(NewAnomalies)' = Listed(NewAnomalies)
  BY DEF ListItems, NewAnomalies, Listed

LEMMA ListStaysCurrent ==
  ASSUME ListIsCurrent, mock' = mock, server' = server, earned \subseteq earned',
         page'.alerts = page.alerts
  PROVE  ListIsCurrent'
  BY ListingStays DEF ListIsCurrent

LEMMA QueueStaysCurrent ==
  ASSUME QueueIsCurrent, mock' = mock, server' = server,
         page'.incidents = page.incidents
  PROVE  QueueIsCurrent'
  BY ListingStays DEF QueueIsCurrent, PendingIncidents

(* The incidents on the page through the steps of a function that read     *)
(* something else.                                                         *)
LEMMA IncidentsStay ==
  ASSUME TypeInv, NEW k \in Task, AuditLands(k) \/ RefreshAuditLogs(k) \/ PlaybookLands(k)
  PROVE  page'.incidents = page.incidents
  <1>1. page \in Page
    BY DEF TypeInv, DashboardTypeOK
  <1>2. CASE AuditLands(k) \/ RefreshAuditLogs(k)
    <2>1. \/ page' = [page EXCEPT !.logs = "backend", !.own = {}, !.logError = FALSE]
          \/ page' = [page EXCEPT !.logs = "none", !.own = {}, !.logError = TRUE]
          \/ page' = [page EXCEPT !.logError = TRUE]
      BY Zenon, <1>2 DEF AuditLands, RefreshAuditLogs
    <2> QED
      BY <1>1, <2>1 DEF Page
  <1>3. CASE PlaybookLands(k)
    <2> DEFINE list == Contain(page.alerts, {tasks[k].of})
               q == [page EXCEPT !.alerts = list]
    <2>1. page' = [q EXCEPT !.own = @ \cup {tasks[k].of}]
      BY <1>3 DEF PlaybookLands, AddAuditLog
    <2>2. q.incidents = page.incidents /\ DOMAIN q = DOMAIN page
      BY <1>1 DEF Page
    <2> HIDE DEF q
    <2> QED
      BY <1>1, <2>1, <2>2 DEF Page
  <1> QED
    BY <1>2, <1>3

(* A function that the page waits for alone leaves it as it should be.     *)
LEMMA TaskStepInHand ==
  ASSUME TypeInv, MountInv, EarnedInv, NEW k \in Task, TaskStep(k),
         ~mock, ~blurred', InHand(tasks[k]), tasks[k].run # "idle"
  PROVE  /\ tasks'[k].run # "idle" => InHand(tasks[k])'
         /\ tasks'[k].run = "idle" => ListIsCurrent' /\ QueueIsCurrent'
  <1>0. /\ DashboardTypeOK /\ PlaybooksHaveAlerts /\ page \in Page
        /\ tasks[k].live # "gone" /\ server \in Partial(Status) /\ mock' = mock
    BY TaskStepTypes DEF TypeInv, DashboardTypeOK, InHand
  <1>1. CASE ReadIsServed(k)
    <2>1. /\ tasks'[k].run = tasks[k].run /\ tasks'[k].live = tasks[k].live
          /\ tasks'[k].read = Wanted(k)
          /\ tasks'[k].at = IF tasks[k].at = "data" THEN "dataRead" ELSE "queueRead"
          /\ tasks[k].at \in {"data", "queue"}
          /\ UNCHANGED <<server, page, earned>>
      BY <1>0, <1>1, ServedIsRead DEF ReadIsServed
    <2>2. tasks[k].at = "queue" => ListIsCurrent'
      BY <1>0, <2>1, ListStaysCurrent DEF InHand
    <2>3. tasks[k].at = "data" => tasks'[k].read = Listed(DOMAIN server)'
      BY <1>0, <2>1, ListingStays DEF Wanted
    <2>4. tasks[k].at = "queue" => tasks'[k].read = Listed(NewAnomalies)'
      BY <1>0, <2>1, ListingStays DEF Wanted
    <2> QED
      BY <1>0, <2>1, <2>2, <2>3, <2>4 DEF InHand
  <1>2. CASE DataLands(k)
    <2>1. /\ page'.alerts = tasks[k].read /\ tasks[k].read = Listed(DOMAIN server)
          /\ Continues(k, "audit") /\ UNCHANGED <<server, earned>>
      BY <1>0, <1>2, DataLandsTypes DEF DataLands, InHand
    <2>2. /\ DOMAIN page'.alerts = ListItems(DOMAIN server)
          /\ \A a \in DOMAIN page'.alerts : page'.alerts[a] = server[a]
      BY <1>0, <2>1, ListedIsPartial
    <2>3. ListIsCurrent'
      BY <1>0, <2>1, <2>2, ListingStays DEF ListIsCurrent
    <2> QED
      BY <1>0, <2>1, <2>3 DEF InHand, Continues
  <1>3. CASE AuditLands(k)
    <2>1. /\ page'.alerts = page.alerts /\ tasks[k].at = "audit"
          /\ Continues(k, "queue") /\ UNCHANGED <<server, earned>>
      BY <1>0, <1>3, AuditLandsTypes DEF AuditLands
    <2>2. ListIsCurrent'
      BY <1>0, <2>1, ListStaysCurrent DEF InHand
    <2> QED
      BY <1>0, <2>1, <2>2 DEF InHand, Continues
  <1>4. CASE RefreshReviewQueue(k)
    <2>1. /\ tasks[k].at = "queueRead"
          /\ page' = [page EXCEPT !.incidents = MapQueueToIncidents(tasks[k].read),
                                  !.loading = FALSE]
          /\ UNCHANGED <<server, earned>>
      BY <1>4 DEF RefreshReviewQueue
    <2>2. /\ page'.alerts = page.alerts
          /\ page'.incidents = MapQueueToIncidents(Listed(NewAnomalies))
      BY <1>0, <2>1 DEF InHand, Page
    <2>3. ListIsCurrent'
      BY <1>0, <2>1, <2>2, ListStaysCurrent DEF InHand
    <2>6. DOMAIN Listed(NewAnomalies) = ListItems(NewAnomalies)
      BY <1>0, NewAnomaliesStored, ListedIsPartial
    <2>4. QueueIsCurrent'
      BY <1>0, <2>1, <2>2, <2>6, ListingStays
         DEF QueueIsCurrent, PendingIncidents, MapQueueToIncidents
    <2>5. Returned(k)
      BY <1>0, <1>4, RefreshReviewQueueTypes
    <2> QED
      BY <1>0, <2>3, <2>4, <2>5 DEF InHand, Returned, Continues, IdleTask
  <1>5. CASE RefreshAuditLogs(k)
    <2>1. /\ tasks[k].at = "log" /\ tasks'[k] = IdleTask /\ page'.alerts = page.alerts
          /\ page'.incidents = page.incidents /\ UNCHANGED <<server, earned>>
      BY <1>0, <1>5, RefreshAuditLogsTypes, IncidentsStay DEF RefreshAuditLogs
    <2>2. ListIsCurrent' /\ QueueIsCurrent'
      BY <1>0, <2>1, ListStaysCurrent, QueueStaysCurrent DEF InHand
    <2> QED
      BY <2>1, <2>2 DEF IdleTask
  <1>6. CASE PostIsServed(k)
    <2>1. /\ tasks[k].at = "post" /\ Continues(k, "posted") /\ page' = page
          /\ earned \subseteq earned'
          /\ tasks[k].run = "soar" => server' = server
      BY <1>0, <1>6, PostIsServedTypes DEF PostIsServed, Mounted
    <2>2. tasks[k].run = "soar" => ListIsCurrent' /\ QueueIsCurrent'
      BY <1>0, <2>1, ListStaysCurrent, QueueStaysCurrent DEF InHand
    <2> QED
      BY <1>0, <2>1, <2>2 DEF InHand, Continues
  <1>7. CASE PostFails(k)
    <2>1. /\ tasks[k].at = "post" \/ (tasks[k].at = "posted" /\ tasks[k].run = "soar")
          /\ tasks'[k] = IdleTask /\ UNCHANGED <<server, page, earned>>
      BY <1>0, <1>7, PostFailsTypes DEF PostFails
    <2>2. ListIsCurrent' /\ QueueIsCurrent'
      BY <1>0, <2>1, ListStaysCurrent, QueueStaysCurrent DEF InHand
    <2> QED
      BY <2>1, <2>2 DEF IdleTask
  <1>8. CASE DecisionLands(k)
    <2>1. Continues(k, "data")
      BY <1>0, <1>8, DecisionLandsTypes
    <2> QED
      BY <1>0, <2>1 DEF InHand, Continues
  <1>9. CASE PlaybookLands(k)
    <2>1. /\ tasks[k].run = "soar" /\ tasks[k].at = "posted" /\ tasks[k].of \in earned
          /\ page'.alerts = Contain(page.alerts, {tasks[k].of})
          /\ tasks'[k] = IdleTask \/ Continues(k, "log")
          /\ page'.incidents = page.incidents /\ UNCHANGED <<server, earned>>
      BY <1>9, PlaybookLandsTypes, IncidentsStay
         DEF PlaybookLands, EarnedInv, PlaybooksAreEarned
    <2>2. QueueIsCurrent'
      BY <1>0, <2>1, QueueStaysCurrent DEF InHand
    <2>3. ListIsCurrent'
      BY <1>0, <2>1, ListingStays DEF InHand, ListIsCurrent, Contain
    <2> QED
      BY <1>0, <2>1, <2>2, <2>3 DEF InHand, Continues, IdleTask
  <1>10. ~DataFails(k)
    BY DEF DataFails
  <1> QED
    BY <1>1, <1>2, <1>3, <1>4, <1>5, <1>6, <1>7, <1>8, <1>9, <1>10 DEF TaskStep, Fetch

LEMMA TaskStepStarts ==
  ASSUME TypeInv, NEW k \in Task, TaskStep(k)
  PROVE  tasks[k].at # "idle" /\ (~blurred' => ~blurred)
  <1>0. blurred \in BOOLEAN
    BY DEF TypeInv, DashboardTypeOK
  <1>1. CASE ReadIsServed(k) \/ DecisionLands(k)
    BY <1>1 DEF ReadIsServed, DecisionLands
  <1>6. CASE DataLands(k)
    BY <1>6 DEF DataLands
  <1>7. CASE AuditLands(k)
    BY <1>7 DEF AuditLands
  <1>8. CASE RefreshAuditLogs(k)
    BY <1>8 DEF RefreshAuditLogs
  <1>9. CASE PlaybookLands(k)
    BY <1>9 DEF PlaybookLands
  <1>2. CASE DataFails(k)
    BY <1>2 DEF DataFails
  <1>3. CASE RefreshReviewQueue(k)
    BY <1>3 DEF RefreshReviewQueue
  <1>4. CASE PostIsServed(k)
    <2>1. tasks[k].at = "post"
          /\ blurred' = (blurred \/ (~Mounted(k) /\ tasks[k].run # "soar"))
      BY <1>4 DEF PostIsServed
    <2> QED
      BY <1>0, <2>1
  <1>5. CASE PostFails(k)
    <2>1. tasks[k].at \in {"post", "posted"}
          /\ blurred' = (blurred \/ (tasks[k].at = "posted" /\ tasks[k].run # "soar"))
      BY <1>5 DEF PostFails
    <2> QED
      BY <1>0, <2>1
  <1> QED
    BY <1>1, <1>2, <1>3, <1>4, <1>5, <1>6, <1>7, <1>8, <1>9 DEF TaskStep, Fetch

LEMMA TaskStepKeepsQuiet ==
  ASSUME TypeInv, MountInv, EarnedInv, QuietInv, NEW k \in Task, TaskStep(k)
  PROVE  QuietInv'
  <1>1. /\ Others(k) /\ SameFunction(k) /\ screen'.tab = screen.tab /\ mock' = mock
        /\ tasks[k].at # "idle" /\ (~blurred' => ~blurred)
    BY TaskStepTypes, TaskStepStarts
  <1>2. tasks[k].run # "idle"
    BY <1>1 DEF QuietInv, IdleAtRest
  <1>3. IdleAtRest'
    BY <1>1, <1>2 DEF QuietInv, IdleAtRest, Others, SameFunction, IdleTask
  <1>4. ASSUME ~mock', screen'.tab # "none", ~blurred' PROVE OneInHand'
    <2>1. ~mock /\ OneInHand /\ k \in Busy
      BY <1>1, <1>2, <1>4 DEF QuietInv, Busy
    <2>2. \A j \in Task \ {k} : tasks'[j].run = "idle"
      BY <1>1, <2>1 DEF OneInHand, Others, Busy
    <2>3. /\ tasks'[k].run # "idle" => InHand(tasks[k])'
          /\ tasks'[k].run = "idle" => ListIsCurrent' /\ QueueIsCurrent'
      BY <1>2, <1>4, <2>1, TaskStepInHand DEF OneInHand
    <2>4. Busy' = IF tasks'[k].run = "idle" THEN {} ELSE {k}
      BY <2>2 DEF Busy
    <2>5. CASE tasks'[k].run = "idle"
      BY <2>3, <2>4, <2>5 DEF OneInHand
    <2>6. CASE tasks'[k].run # "idle"
      BY <2>3, <2>4, <2>6 DEF OneInHand
    <2> QED
      BY <2>5, <2>6
  <1> QED
    BY <1>3, <1>4 DEF QuietInv

LEMMA PageStepCurrent ==
  ASSUME TypeInv, PageStep, ~PageUnmounts, ~mock
  PROVE  /\ page'.alerts = page.alerts /\ page'.incidents = page.incidents
         /\ server' = server /\ earned \subseteq earned' /\ mock' = mock
  <1>0. DashboardTypeOK /\ page \in Page
    BY DEF TypeInv, DashboardTypeOK
  <1>1. ASSUME NEW a \in Alert, NEW action \in {"approved", "dismissed"},
               HandleAction(a, action)
        PROVE  UNCHANGED <<page, server, earned, mock>>
    BY <1>0, <1>1, HandleActionTypes DEF HandleAction, ResolveIncident
  <1>2. CASE ExecutePlaybook
    BY <1>2 DEF ExecutePlaybook
  <1>3. CASE Retry
    <2>1. page' = [page EXCEPT !.loading = TRUE, !.error = FALSE]
          /\ UNCHANGED <<server, earned, mock>>
      BY <1>3 DEF Retry, FetchStarts
    <2> QED
      BY <1>0, <2>1 DEF Page
  <1>4. CASE SelectNode
    <2>1. /\ \E node \in BOOLEAN : page' = [page EXCEPT !.node = node]
          /\ UNCHANGED <<server, earned, mock>>
      BY <1>4 DEF SelectNode
    <2> QED
      BY <1>0, <2>1 DEF Page
  <1>5. CASE RetryAudit \/ \E tab \in DashboardTab : ShowTab(tab) \/ PageMounts(tab)
    BY <1>5 DEF RetryAudit, ShowTab, PageMounts
  <1> QED
    BY <1>1, <1>2, <1>3, <1>4, <1>5 DEF PageStep

(* Only a load begins when the page mounts.                                *)
LEMMA PageStepBegins ==
  ASSUME TypeInv, PageStep, ~PageUnmounts, ~mock
  PROVE  \/ \E run, at, of, live : /\ Opens(run, at, of, live)
                                   /\ Begin(run, at, of, live)
                                   /\ screen.tab = "none" => run = "load"
         \/ /\ blurred' = blurred /\ screen.tab # "none"
            /\ tasks' = tasks \/ \E tab \in DashboardTab : ShowTab(tab)
  <1>0. DashboardTypeOK
    BY DEF TypeInv
  <1>1. ASSUME NEW a \in Alert, NEW action \in {"approved", "dismissed"},
               HandleAction(a, action)
        PROVE  \E run \in {"approve", "dismiss"} :
                 /\ Opens(run, "post", a, "screen") /\ Begin(run, "post", a, "screen")
                 /\ screen.tab # "none"
    <2> DEFINE run == IF action = "approved" THEN "approve" ELSE "dismiss"
    <2>1. Begin(run, "post", a, "screen") /\ run \in {"approve", "dismiss"}
          /\ screen.tab = "incident"
      BY <1>0, <1>1, HandleActionTypes DEF ResolveIncident
    <2> HIDE DEF run
    <2>2. Opens(run, "post", a, "screen")
      BY <2>1, OwnersAre DEF Opens
    <2> QED
      BY <2>1, <2>2
  <1>2. CASE ExecutePlaybook
    <2>1. Begin("soar", "post", screen.of, "screen") /\ screen.tab = "alerts"
      BY <1>2 DEF ExecutePlaybook
    <2>2. Opens("soar", "post", screen.of, "screen")
      BY <1>2, ExecutePlaybookTypes, OwnersAre DEF Opens
    <2> QED
      BY <2>1, <2>2
  <1>3. CASE Retry \/ \E tab \in DashboardTab : PageMounts(tab)
    <2>1. Begin("load", "data", None, "page") /\ Opens("load", "data", None, "page")
      BY <1>3, OwnersAre DEF Retry, PageMounts, Opens
    <2> QED
      BY <2>1
  <1>4. CASE RetryAudit
    <2>1. Begin("log", "log", None, "page") /\ Opens("log", "log", None, "page")
          /\ screen.tab = "audit"
      BY <1>4, OwnersAre DEF RetryAudit, Opens
    <2> QED
      BY <2>1
  <1>5. CASE SelectNode \/ \E tab \in DashboardTab : ShowTab(tab)
    BY <1>5 DEF SelectNode, ShowTab
  <1> QED
    BY <1>1, <1>2, <1>3, <1>4, <1>5 DEF PageStep

LEMMA UnmountsRest ==
  ASSUME TypeInv, QuietInv, PageUnmounts
  PROVE  IdleAtRest' /\ screen'.tab = "none"
  BY PageUnmountsTypes DEF TypeInv, QuietInv, IdleAtRest, IdleTask

LEMMA ShowTabIsQuiet ==
  ASSUME TypeInv, QuietInv, NEW tab \in DashboardTab, ShowTab(tab)
  PROVE  QuietInv'
  <1>1. /\ UNCHANGED <<mock, server, page, earned, blurred>> /\ screen.tab # "none"
        /\ \A k \in Task : /\ tasks'[k].run = tasks[k].run /\ tasks'[k].at = tasks[k].at
                           /\ tasks'[k].read = tasks[k].read
                           /\ tasks'[k].live = "gone" <=> tasks[k].live = "gone"
    BY ShowTabTypes DEF ShowTab, TypeInv
  <1>2. Busy' = Busy /\ IdleAtRest'
    BY <1>1 DEF Busy, QuietInv, IdleAtRest
  <1>3. /\ ListIsCurrent => ListIsCurrent'
        /\ QueueIsCurrent => QueueIsCurrent'
    BY <1>1, ListStaysCurrent, QueueStaysCurrent
  <1>4. \A k \in Task : InHand(tasks[k]) => InHand(tasks[k])'
    BY <1>1, <1>3, ListingStays DEF InHand
  <1>5. OneInHand => OneInHand'
    BY <1>2, <1>3, <1>4 DEF OneInHand, Busy
  <1> QED
    BY <1>1, <1>2, <1>5 DEF QuietInv

(* A function that begins while nothing is blurred is the only one, and    *)
(* begins from a page at rest, or reads everything.                        *)
LEMMA BeginIsQuiet ==
  ASSUME TypeInv, QuietInv, NEW run, NEW at, NEW of, NEW live,
         Opens(run, at, of, live), Begin(run, at, of, live),
         screen.tab = "none" => run = "load",
         mock' = mock,
         ListIsCurrent => ListIsCurrent', QueueIsCurrent => QueueIsCurrent'
  PROVE  IdleAtRest' /\ (~mock' /\ ~blurred' => OneInHand')
  <1>1. tasks \in [Task -> TaskState]
    BY DEF TypeInv, DashboardTypeOK
  <1>2. PICK k \in Task : /\ IsNext(k)
                          /\ tasks' = [tasks EXCEPT ![k] = Starting(run, at, of, live)]
                          /\ blurred' = IF Busy # {} THEN TRUE
                                        ELSE IF run = "load" THEN FALSE ELSE blurred
    BY DEF Begin
  <1>3. tasks'[k] = Starting(run, at, of, live) /\ \A j \in Task \ {k} : tasks'[j] = tasks[j]
    BY <1>1, <1>2
  <1>4. tasks'[k].run = run /\ tasks'[k].at = at /\ tasks'[k].live = live /\ run # "idle"
    BY <1>3 DEF Starting, Opens
  <1>5. IdleAtRest'
    BY <1>3, <1>4 DEF QuietInv, IdleAtRest
  <1>6. ASSUME ~mock', ~blurred' PROVE OneInHand'
    <2>1. Busy = {} /\ (run = "load" \/ ~blurred)
      BY <1>2, <1>6
    <2>2. Busy' = {k}
      BY <1>3, <1>4, <2>1 DEF Busy
    <2>3. run # "load" => ListIsCurrent' /\ QueueIsCurrent'
      BY <1>6, <2>1 DEF QuietInv, OneInHand
    <2>4. InHand(tasks[k])'
      BY <1>4, <2>3 DEF InHand, Opens
    <2> QED
      BY <2>2, <2>4 DEF OneInHand
  <1> QED
    BY <1>5, <1>6

LEMMA PageStepKeepsQuiet ==
  ASSUME TypeInv, QuietInv, PageStep
  PROVE  QuietInv'
  <1>1. CASE PageUnmounts
    BY <1>1, UnmountsRest DEF QuietInv
  <1>2. CASE ~PageUnmounts /\ ~mock
    <2>1. /\ page'.alerts = page.alerts /\ page'.incidents = page.incidents
          /\ server' = server /\ earned \subseteq earned' /\ mock' = mock
      BY <1>2, PageStepCurrent
    <2>2. /\ ListIsCurrent => ListIsCurrent'
          /\ QueueIsCurrent => QueueIsCurrent'
      BY <2>1, ListStaysCurrent, QueueStaysCurrent
    <2>3. ASSUME NEW run, NEW at, NEW of, NEW live, Opens(run, at, of, live),
                 Begin(run, at, of, live), screen.tab = "none" => run = "load"
          PROVE  QuietInv'
      BY <2>1, <2>2, <2>3, BeginIsQuiet DEF QuietInv
    <2>4. CASE tasks' = tasks /\ blurred' = blurred /\ screen.tab # "none"
      <3>1. Busy' = Busy /\ IdleAtRest'
        BY <2>4 DEF Busy, QuietInv, IdleAtRest
      <3>2. \A k \in Task : InHand(tasks[k]) => InHand(tasks[k])'
        BY <2>1, <2>2, <2>4, ListingStays DEF InHand
      <3>3. OneInHand => OneInHand'
        BY <2>2, <3>1, <3>2 DEF OneInHand, Busy
      <3> QED
        BY <2>1, <2>4, <3>1, <3>3 DEF QuietInv
    <2> QED
      BY <1>2, <2>3, <2>4, PageStepBegins, ShowTabIsQuiet
  <1>3. CASE ~PageUnmounts /\ mock
    <2>1. mock' = mock
      BY <1>3 DEF PageStep, HandleAction, ExecutePlaybook, Retry, RetryAudit, SelectNode,
                  ShowTab, PageMounts
    <2>2. IdleAtRest'
      <3>1. CASE tasks' = tasks
        BY <3>1 DEF QuietInv, IdleAtRest
      <3>2. CASE \E tab \in DashboardTab : ShowTab(tab)
        BY <3>2, ShowTabIsQuiet DEF QuietInv
      <3>3. ASSUME NEW run, NEW at, NEW of, NEW live, Opens(run, at, of, live),
                   Begin(run, at, of, live)
            PROVE  IdleAtRest'
        <4>1. PICK k \in Task : tasks'[k] = Starting(run, at, of, live) /\ Others(k)
          BY <3>3, OpensTypes, BeginBegins DEF TypeInv
        <4>2. tasks'[k].run # "idle"
          BY <3>3, <4>1 DEF Starting, Opens
        <4> QED
          BY <4>1, <4>2 DEF QuietInv, IdleAtRest, Others
      <3> QED
        BY <1>3, <3>1, <3>2, <3>3, PageStepOpens
    <2> QED
      BY <1>3, <2>1, <2>2 DEF QuietInv
  <1> QED
    BY <1>1, <1>2, <1>3

LEMMA QuietInvHolds == DashboardSpec => []QuietInv
  <1>1. DashboardInit => QuietInv
    BY DEF DashboardInit, QuietInv, IdleAtRest, IdleTask
  <1>2. TypeInv /\ MountInv /\ EarnedInv /\ QuietInv /\ [DashboardNext]_dashboardVars
          => QuietInv'
    <2>1. ASSUME TypeInv, QuietInv, UNCHANGED <<mock, server, page, tasks, earned, blurred>>,
                 screen'.tab = screen.tab
          PROVE  QuietInv'
      <3>1. ListIsCurrent' = ListIsCurrent /\ QueueIsCurrent' = QueueIsCurrent
        BY <2>1, ListingStays DEF ListIsCurrent, QueueIsCurrent, PendingIncidents
      <3>2. \A k \in Task : InHand(tasks[k])' = InHand(tasks[k])
        BY <2>1, <3>1, ListingStays DEF InHand
      <3>3. Busy' = Busy /\ IdleAtRest' = IdleAtRest
        BY <2>1 DEF Busy, IdleAtRest
      <3> QED
        BY <2>1, <3>1, <3>2, <3>3 DEF QuietInv, OneInHand, Busy
    <2>2. ASSUME TypeInv, QuietInv, ScreenStep PROVE QuietInv'
      BY <2>1, <2>2, ScreenStepFrame
    <2>3. ASSUME QuietInv, TypeInv, UNCHANGED dashboardVars PROVE QuietInv'
      BY <2>1, <2>3 DEF dashboardVars
    <2>4. ASSUME TypeInv, MountInv, EarnedInv, QuietInv, DashboardNext PROVE QuietInv'
      BY <2>2, <2>4, StepKinds, TaskStepKeepsQuiet, PageStepKeepsQuiet
    <2> QED
      BY <2>3, <2>4
  <1> QED
    BY <1>1, <1>2, TypeInvHolds, MountInvHolds, EarnedInvHolds, PTL DEF DashboardSpec

(* With no function in progress, and nothing failed or overlapping since   *)
(* the last load, the list on the page is the newest PageLimit anomalies   *)
(* and the review queue the newest PageLimit of the new ones, as the       *)
(* backend has them, however decisions, playbooks, retries, tabs and moves *)
(* between pages followed each other, and whatever the limit.              *)
THEOREM QuietPagesAreCurrent == DashboardSpec => []QuietIsCurrent
  <1>1. QuietInv => QuietIsCurrent
    BY DEF QuietInv, OneInHand, ListIsCurrent, QueueIsCurrent, QuietIsCurrent
  <1> QED
    BY <1>1, QuietInvHolds, PTL
=============================================================================
