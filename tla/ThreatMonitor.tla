--------------------------- MODULE ThreatMonitor ---------------------------
(***************************************************************************)
(* app/dashboard/threat-monitor/page.tsx: one list of anomalies, searched, *)
(* filtered, sorted and cut into pages in the browser.                     *)
(***************************************************************************)
EXTENDS Figures, Sequences

CONSTANTS
  Listing,       \* the lists GET /anomalies may answer
  Query,         \* search texts
  Matches,       \* Matches[q]: identifiers of the anomalies q is found in
  ItemsPerPage,  \* itemsPerPage
  MaxPage        \* bound: pages a user steps past the end of the list

EmptySearch == ""

ASSUME MonitorAssumption ==
  /\ \A list \in Listing :
       /\ DOMAIN list = 1..Len(list) /\ Len(list) \in Nat
       /\ \A i \in DOMAIN list : list[i] \in AnomalyListItem({list[i].id})
       /\ \A i, j \in DOMAIN list : list[i].id = list[j].id => i = j
  /\ EmptySearch \in Query
  /\ ItemsPerPage \in Nat \ {0}
  /\ MaxPage \in Nat

VARIABLES
  monitor,  \* state of the page
  shrunk    \* history: a refresh left fewer pages than the current one

monitorVars == <<monitor, shrunk>>

SortKey == {"detected_at", "score"}
Monitor == [alerts : Listing \cup {<<>>}, loading : BOOLEAN,
            error : {"none", "shape", "network"},
            search : Query, severity : Severity \cup {"all"},
            status : AnomalyStatus \cup {"all"},
            sortBy : SortKey, sortOrder : {"asc", "desc"}, page : Nat \ {0}]

MonitorTypeOK == monitor \in Monitor /\ shrunk \in BOOLEAN

-----------------------------------------------------------------------------
(* Derived values, computed on every render                                *)

(* The rows of a state that match its search and filters, by position.     *)
FilteredRows(m) ==
  {i \in DOMAIN m.alerts :
     /\ m.alerts[i].id \in Matches[m.search]
     /\ m.severity \in {"all", m.alerts[i].severity}
     /\ m.status \in {"all", m.alerts[i].status}}

Key(m, i) == IF m.sortBy = "score" THEN m.alerts[i].score ELSE m.alerts[i].at

(* Array.sort is stable: equal keys keep the order of the list.            *)
Before(m, i, j) ==
  \/ IF m.sortOrder = "asc" THEN Key(m, i) < Key(m, j) ELSE Key(m, i) > Key(m, j)
  \/ Key(m, i) = Key(m, j) /\ i < j

(* The place of row i in filteredAlerts, from 0.                           *)
Place(m, i) == Cardinality({j \in FilteredRows(m) : Before(m, j, i)})

TotalPages(m) == LET n == Cardinality(FilteredRows(m))
                 IN IF n = 0 THEN 1 ELSE (n + ItemsPerPage - 1) \div ItemsPerPage

(* paginatedAlerts of page p.                                              *)
PageRows(m, p) ==
  LET startIndex == (p - 1) * ItemsPerPage
  IN {i \in FilteredRows(m) : /\ Place(m, i) >= startIndex
                              /\ Place(m, i) < startIndex + ItemsPerPage}

(* What the table shows.                                                   *)
MonitorTable == IF monitor.loading THEN "loading"
                ELSE IF PageRows(monitor, monitor.page) = {} THEN "none found" ELSE "rows"
(* The pagination row.                                                     *)
Pager == ~monitor.loading /\ FilteredRows(monitor) # {}

(* The badge says what the list says, also while it loads or is missing.   *)
ThreatPosture == Posture({monitor.alerts[i] : i \in DOMAIN monitor.alerts})

-----------------------------------------------------------------------------
MonitorStart == [alerts |-> <<>>, loading |-> TRUE, error |-> "none",
                 search |-> EmptySearch, severity |-> "all", status |-> "all",
                 sortBy |-> "detected_at", sortOrder |-> "desc", page |-> 1]

(* The page mounts and fetches.                                            *)
MonitorInit == monitor = MonitorStart /\ shrunk = FALSE

(* Every change of what is shown returns to the first page.                *)
Shows(m) == monitor' = [m EXCEPT !.page = 1] /\ shrunk' = FALSE

(* fetchAlerts, from the Refresh button, which is disabled while it runs.  *)
FetchAlerts ==
  /\ ~monitor.loading
  /\ monitor' = [monitor EXCEPT !.loading = TRUE, !.error = "none"]
  /\ UNCHANGED shrunk

(* The answer: a list, something else, which empties the list, or none,    *)
(* which keeps it.  The page number stays.                                 *)
AlertsArrive ==
  /\ monitor.loading
  /\ \/ \E list \in Listing :
          monitor' = [monitor EXCEPT !.alerts = list, !.loading = FALSE]
     \/ monitor' = [monitor EXCEPT !.alerts = <<>>, !.loading = FALSE, !.error = "shape"]
     \/ monitor' = [monitor EXCEPT !.loading = FALSE, !.error = "network"]
  /\ shrunk' = (shrunk \/ monitor.page > TotalPages(monitor'))

HandleSort(field) ==
  Shows(IF monitor.sortBy = field
          THEN [monitor EXCEPT !.sortOrder = IF @ = "asc" THEN "desc" ELSE "asc"]
          ELSE [monitor EXCEPT !.sortBy = field, !.sortOrder = "desc"])

HandleSearchChangeOnPage(text) ==
  monitor' = [monitor EXCEPT !.search = text] /\ UNCHANGED shrunk

HandleSearchChange(text) == Shows([monitor EXCEPT !.search = text])

(* handleFilterChange with each of its setters.                            *)
HandleFilterChange ==
  \/ \E s \in Severity \cup {"all"} : Shows([monitor EXCEPT !.severity = s])
  \/ \E s \in AnomalyStatus \cup {"all"} : Shows([monitor EXCEPT !.status = s])

PreviousOfFirst ==
  /\ Pager
  /\ monitor' = [monitor EXCEPT !.page = @ - 1]
  /\ UNCHANGED shrunk

Previous ==
  /\ Pager
  /\ monitor.page # 1
  /\ monitor' = [monitor EXCEPT !.page = @ - 1]
  /\ UNCHANGED shrunk

(* Disabled on the last page only: past it the user can go on.             *)
NextPage ==
  /\ Pager
  /\ monitor.page # TotalPages(monitor)
  /\ monitor.page < TotalPages(monitor) + MaxPage
  /\ monitor' = [monitor EXCEPT !.page = @ + 1]
  /\ UNCHANGED shrunk

MonitorNext == \/ FetchAlerts \/ AlertsArrive
               \/ \E field \in SortKey : HandleSort(field)
               \/ \E text \in Query : HandleSearchChange(text)
               \/ HandleFilterChange
               \/ Previous \/ NextPage

MonitorSpec == MonitorInit /\ [][MonitorNext]_monitorVars

-----------------------------------------------------------------------------
(* Whatever was searched, sorted and refreshed, stepping through the pages *)
(* shows every matching row exactly once, no page holds more than          *)
(* itemsPerPage, and "No anomalies found" is shown only if none matches -- *)
(* unless a refresh left fewer pages than the one the user is on.          *)
PagesShowEverything ==
  /\ \A i \in FilteredRows(monitor) :
       \E p \in 1..TotalPages(monitor) :
         \A q \in 1..TotalPages(monitor) : i \in PageRows(monitor, q) <=> q = p
  /\ \A p \in 1..TotalPages(monitor) :
       Cardinality(PageRows(monitor, p)) <= ItemsPerPage
  /\ MonitorTable = "none found" /\ ~shrunk => FilteredRows(monitor) = {}
=============================================================================
