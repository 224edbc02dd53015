--------------------------- MODULE ScreensProofs ---------------------------
(***************************************************************************)
(* The parts of the console around the dashboard, for any lists, queries   *)
(* and page sizes: the shell, the topology page and the threat monitor;    *)
(* and the console they make up together with the dashboard.               *)
(***************************************************************************)
EXTENDS Console, DashboardProofs, FiniteSetTheorems, TLAPS

-----------------------------------------------------------------------------
(* Shell                                                                   *)

ShellInv == ShellTypeOK /\ ThemeAgrees

\* The states things start in.
LEMMA Starts ==
  /\ NewBar \in Bar /\ ~NewBar.synced
  /\ NewSidebar \in [collapsed : BOOLEAN, open : SUBSET Section]
  /\ NewLanding \in [grid : Grid, step : 0..3, scrolled : BOOLEAN]
  <1>1. NewBar \in Bar /\ ~NewBar.synced
    BY DEF Bar, NewBar
  <1>2. NewSidebar \in [collapsed : BOOLEAN, open : SUBSET Section]
    BY DEF NewSidebar
  <1>3. NewLanding \in [grid : Grid, step : 0..3, scrolled : BOOLEAN]
    BY DEF NewLanding, Grid
  <1> QED
    BY <1>1, <1>2, <1>3

LEMMA ShellInitInvariant == ShellInit => ShellInv
  <1> SUFFICES ASSUME ShellInit PROVE ShellInv
    OBVIOUS
  <1>1. place \in Address
    BY DEF ShellInit, Address
  <1> QED
    BY <1>1, Starts DEF ShellInit, ShellInv, ShellTypeOK, ThemeAgrees

LEMMA ThemeStepsKeep == ShellInv /\ (SyncTheme \/ ToggleTheme) => ShellInv'
  <1> SUFFICES ASSUME ShellInv, SyncTheme \/ ToggleTheme PROVE ShellInv'
    OBVIOUS
  <1>1. CASE SyncTheme
    BY <1>1 DEF SyncTheme, ShellInv, ShellTypeOK, ThemeAgrees, Bar
  <1>2. CASE ToggleTheme
    BY <1>2 DEF ToggleTheme, ShellInv, ShellTypeOK, ThemeAgrees,
                Bar, OnLanding
  <1> QED
    BY <1>1, <1>2

LEMMA MenuStepsKeep == ShellInv /\ (ToggleMenu \/ OutsideClick \/ ToggleSidebar) => ShellInv'
  BY ZenonT(60) DEF ToggleMenu, OutsideClick, ToggleSidebar, ShellInv, ShellTypeOK, ThemeAgrees, Bar

LEMMA SectionsKeep == ASSUME NEW s \in Section, ShellInv, ToggleSection(s) PROVE ShellInv'
  BY DEF ToggleSection, ShellInv, ShellTypeOK, ThemeAgrees

LEMMA LinksAreAddresses ==
  ASSUME NEW l \in SidebarLink
  PROVE  [at |-> l.at, tab |-> l.tab] \in Address
  BY DEF SidebarLink, Address

LEMMA LinksKeep == ASSUME NEW l \in SidebarLink, ShellInv, FollowLink(l) PROVE ShellInv'
  BY LinksAreAddresses
  DEF FollowLink, GoesTo, ShellInv, ShellTypeOK, ThemeAgrees

LEMMA MovesKeep ==
  ShellInv /\ (OpenSettings \/ LaunchPlatform \/ BackToLanding \/ BackFromError) => ShellInv'
  <1> SUFFICES ASSUME ShellInv PROVE
        OpenSettings \/ LaunchPlatform \/ BackToLanding \/ BackFromError => ShellInv'
    OBVIOUS
  <1> USE DEF GoesTo, ShellInv, ShellTypeOK, ThemeAgrees, Address
  <1>1. CASE OpenSettings
    <2>1. bar' \in Bar /\ bar'.synced = bar.synced /\ bar'.theme = bar.theme
      BY <1>1 DEF OpenSettings, Bar
    <2> QED
      BY <1>1, <2>1 DEF OpenSettings
  <1>2. CASE LaunchPlatform
    BY <1>2, Starts DEF LaunchPlatform
  <1>3. CASE BackToLanding
    BY <1>3, Starts DEF BackToLanding
  <1>4. CASE BackFromError
    BY <1>4 DEF BackFromError, OnLanding
  <1> QED
    BY <1>1, <1>2, <1>3, <1>4

LEMMA LandingKeeps == ShellInv /\ (HeroClick \/ FeatureStep \/ HandleScroll) => ShellInv'
  <1> SUFFICES ASSUME ShellInv, HeroClick \/ FeatureStep \/ HandleScroll PROVE ShellInv'
    OBVIOUS
  <1> DEFINE Landing == [grid : Grid, step : 0..3, scrolled : BOOLEAN]
  <1>1. landing \in Landing
    BY DEF ShellInv, ShellTypeOK
  <1>2. landing' \in Landing
    <2>1. CASE HeroClick
      BY <1>1, <2>1 DEF HeroClick
    <2>2. CASE FeatureStep
      <3>1. landing.step \in 0..3
        BY <1>1
      <3>2. (landing.step + 1) % 4 \in 0..3
        BY <3>1
      <3> QED
        BY <1>1, <2>2, <3>2 DEF FeatureStep
    <2>3. CASE HandleScroll
      BY <1>1, <2>3 DEF HandleScroll
    <2> QED
      BY <2>1, <2>2, <2>3
  <1>3. UNCHANGED <<place, dark, bar, sidebar, crashed>>
    BY DEF HeroClick, FeatureStep, HandleScroll
  <1> QED
    BY <1>2, <1>3 DEF ShellInv, ShellTypeOK, ThemeAgrees

LEMMA ErrorsKeep == ShellInv /\ (RenderFails \/ Reset \/ Reload) => ShellInv'
  <1> SUFFICES ASSUME ShellInv PROVE RenderFails \/ Reset \/ Reload => ShellInv'
    OBVIOUS
  <1> USE DEF ShellInv, ShellTypeOK, ThemeAgrees
  <1>1. CASE RenderFails
    BY <1>1, Starts DEF RenderFails
  <1>2. CASE Reset
    BY <1>2 DEF Reset
  <1>3. CASE Reload
    BY <1>3, Starts DEF Reload
  <1> QED
    BY <1>1, <1>2, <1>3

LEMMA ShellStepsKeep == ShellInv /\ [ShellNext]_shellVars => ShellInv'
  <1> SUFFICES ASSUME ShellInv, [ShellNext]_shellVars PROVE ShellInv'
    OBVIOUS
  <1>1. CASE UNCHANGED shellVars
    BY <1>1 DEF shellVars, ShellInv, ShellTypeOK, ThemeAgrees
  <1>2. CASE ShellNext
    BY <1>2, ThemeStepsKeep, MenuStepsKeep, SectionsKeep, LinksKeep, MovesKeep,
       LandingKeeps, ErrorsKeep
    DEF ShellNext
  <1> QED
    BY <1>1, <1>2

(* The bar shows the theme of the document through toggles, errors,        *)
(* reloads and moves between the landing page and the console.             *)
THEOREM ThemesAgree == ShellSpec => []ThemeAgrees
  <1>1. ShellInv => ThemeAgrees
    BY DEF ShellInv
  <1> QED
    BY <1>1, ShellInitInvariant, ShellStepsKeep, PTL DEF ShellSpec

-----------------------------------------------------------------------------
(* Topology                                                                *)

LEMMA NoNodeIsNoNode == NoNode \notin GraphNodes
  BY TopologyAssumption

LEMMA FallbackIsOfTheGraph == FallbackNodes \subseteq GraphNodes
  BY DEF FallbackNodes, GraphNodes, Assets, Attacks, Techniques

TopologyInv ==
  /\ TopologyTypeOK
  /\ topology.selected # NoNode => topology.selected \in topology.nodes
  /\ topology.loading => topology.nodes = {} /\ topology.selected = NoNode
  /\ ~topology.loading => topology.nodes # {}

LEMMA TopologyInitInvariant == TopologyInit => TopologyInv
  BY DEF TopologyInit, TopologyInv, TopologyTypeOK, TopologyState

LEMMA TopologyStepsKeep == TopologyInv /\ [TopologyNext]_topology => TopologyInv'
  <1> SUFFICES ASSUME TopologyInv, [TopologyNext]_topology PROVE TopologyInv'
    OBVIOUS
  <1> USE DEF TopologyInv, TopologyTypeOK, TopologyState
  <1>1. CASE UNCHANGED topology
    BY <1>1
  <1>2. CASE GraphArrives
    <2>1. /\ GraphNodes # {} /\ Assets # {} /\ FallbackNodes # {}
          /\ Assets \subseteq GraphNodes
      BY DEF GraphNodes, Assets, FallbackNodes
    <2>2. PICK drawn \in {"answer", "fallback"},
               nodes \in {GraphNodes, Assets, FallbackNodes}, failed \in BOOLEAN :
            Draws(drawn, nodes, failed)
      BY <1>2 DEF GraphArrives
    <2>3. nodes \in SUBSET GraphNodes /\ nodes # {}
      BY <2>1, <2>2, FallbackIsOfTheGraph
    <2>4. topology.selected = NoNode
      BY <1>2 DEF GraphArrives
    <2> QED
      BY <2>2, <2>3, <2>4 DEF Draws
  <1>3. CASE ClickGraph
    BY <1>3 DEF ClickGraph, Viewer
  <1>4. CASE SearchNode
    BY <1>4 DEF SearchNode
  <1>5. CASE PickResult
    BY <1>5 DEF PickResult
  <1> QED
    BY <1>1, <1>2, <1>3, <1>4, <1>5 DEF TopologyNext

LEMMA TopologyInvDraws == TopologyInv => SelectionIsDrawn
  BY NoNodeIsNoNode
  DEF TopologyInv, TopologyTypeOK, TopologyState, SelectionIsDrawn, Viewer, PaintNode, Inspected

(* What the inspector describes is on the screen and lit, and an answer    *)
(* or a failure always draws something.                                    *)
THEOREM SelectionsAreDrawn == TopologySpec => []SelectionIsDrawn
  BY TopologyInvDraws, TopologyInitInvariant, TopologyStepsKeep, PTL DEF TopologySpec

-----------------------------------------------------------------------------
(* Sorting and paging of the threat monitor: the place of a row counts the *)
(* rows before it, places are the numbers from 0 on, and the pages cut     *)
(* them into intervals.                                                    *)

LEMMA Bounds == ItemsPerPage \in Nat \ {0} /\ EmptySearch \in Query
  BY MonitorAssumption

-----------------------------------------------------------------------------
(* Rows                                                                    *)

\* What a list gives its rows.
LEMMA ListsAreFinite ==
  ASSUME NEW list \in Listing \cup {<<>>}
  PROVE  /\ IsFiniteSet(DOMAIN list)
         /\ DOMAIN list \subseteq Nat
         /\ \A i \in DOMAIN list : list[i].at \in Nat /\ list[i].score \in Nat
  <1>1. CASE list \in Listing
    <2>1. DOMAIN list = 1..Len(list) /\ Len(list) \in Nat
      BY <1>1, MonitorAssumption
    <2>2. IsFiniteSet(1..Len(list))
      BY <2>1, FS_Interval
    <2>3. ASSUME NEW i \in DOMAIN list
          PROVE  list[i].at \in Nat /\ list[i].score \in Nat
      BY <1>1, MonitorAssumption DEF AnomalyListItem
    <2> QED
      BY <2>1, <2>2, <2>3
  <1>2. CASE list = <<>>
    <2>1. DOMAIN list = {}
      BY <1>2
    <2> QED
      BY <2>1, FS_EmptySet
  <1> QED
    BY <1>1, <1>2

LEMMA RowsAreFinite ==
  ASSUME NEW m \in Monitor
  PROVE  /\ FilteredRows(m) \subseteq Nat
         /\ IsFiniteSet(FilteredRows(m))
         /\ Cardinality(FilteredRows(m)) \in Nat
         /\ \A i \in FilteredRows(m) : Key(m, i) \in Nat
  <1>1. m.alerts \in Listing \cup {<<>>} /\ m.sortBy \in SortKey
    BY DEF Monitor
  <1>2. FilteredRows(m) \subseteq DOMAIN m.alerts
    BY DEF FilteredRows
  <1>3. IsFiniteSet(FilteredRows(m)) /\ Cardinality(FilteredRows(m)) \in Nat
    BY <1>1, <1>2, ListsAreFinite, FS_Subset, FS_CardinalityType
  <1> QED
    BY <1>1, <1>2, <1>3, ListsAreFinite DEF Key

\* Before is a strict total order of the rows.
LEMMA BeforeIsOrder ==
  ASSUME NEW m \in Monitor, NEW i \in FilteredRows(m), NEW j \in FilteredRows(m),
         NEW k \in FilteredRows(m)
  PROVE  /\ ~Before(m, i, i)
         /\ Before(m, i, j) /\ Before(m, j, k) => Before(m, i, k)
         /\ i # j => Before(m, i, j) \/ Before(m, j, i)
  <1>1. Key(m, i) \in Nat /\ Key(m, j) \in Nat /\ Key(m, k) \in Nat
        /\ i \in Nat /\ j \in Nat /\ k \in Nat
    BY RowsAreFinite
  <1> QED
    BY <1>1 DEF Before

-----------------------------------------------------------------------------
(* Places                                                                  *)

Above(m, i) == {j \in FilteredRows(m) : Before(m, j, i)}

LEMMA PlaceOf ==
  ASSUME NEW m \in Monitor, NEW i \in FilteredRows(m)
  PROVE  /\ IsFiniteSet(Above(m, i)) /\ i \notin Above(m, i)
         /\ Place(m, i) = Cardinality(Above(m, i)) /\ Place(m, i) \in Nat
         /\ IsFiniteSet(Above(m, i) \cup {i})
         /\ Cardinality(Above(m, i) \cup {i}) = Place(m, i) + 1
  <1>1. Above(m, i) \in SUBSET FilteredRows(m) /\ i \notin Above(m, i)
    BY BeforeIsOrder DEF Above
  <1>2. IsFiniteSet(Above(m, i)) /\ Cardinality(Above(m, i)) \in Nat
    BY <1>1, RowsAreFinite, FS_Subset, FS_CardinalityType
  <1>3. Place(m, i) = Cardinality(Above(m, i))
    BY DEF Place, Above
  <1> QED
    BY <1>1, <1>2, <1>3, FS_AddElement

LEMMA PlacesGrow ==
  ASSUME NEW m \in Monitor, NEW i \in FilteredRows(m), NEW j \in FilteredRows(m),
         Before(m, j, i)
  PROVE  Place(m, j) < Place(m, i)
  <1>1. Above(m, j) \cup {j} \in SUBSET Above(m, i)
    BY BeforeIsOrder DEF Above
  <1>2. Place(m, i) \in Nat /\ Place(m, i) = Cardinality(Above(m, i))
        /\ IsFiniteSet(Above(m, i))
    BY PlaceOf
  <1>3. Place(m, j) \in Nat /\ Cardinality(Above(m, j) \cup {j}) = Place(m, j) + 1
    BY PlaceOf
  <1>4. Cardinality(Above(m, j) \cup {j}) <= Cardinality(Above(m, i))
    BY <1>1, <1>2, FS_Subset
  <1> QED
    BY <1>2, <1>3, <1>4

LEMMA PlacesAreBelow ==
  ASSUME NEW m \in Monitor, NEW i \in FilteredRows(m)
  PROVE  Place(m, i) \in 0..(Cardinality(FilteredRows(m)) - 1)
  <1>1. Above(m, i) \cup {i} \in SUBSET FilteredRows(m)
    BY DEF Above
  <1>2. Place(m, i) \in Nat /\ Cardinality(Above(m, i) \cup {i}) = Place(m, i) + 1
    BY PlaceOf
  <1>3. IsFiniteSet(FilteredRows(m)) /\ Cardinality(FilteredRows(m)) \in Nat
    BY RowsAreFinite
  <1>4. Cardinality(Above(m, i) \cup {i}) <= Cardinality(FilteredRows(m))
    BY <1>1, <1>3, FS_Subset
  <1> QED
    BY <1>2, <1>3, <1>4

LEMMA PlacesAreDistinct ==
  ASSUME NEW m \in Monitor, NEW i \in FilteredRows(m), NEW j \in FilteredRows(m), i # j
  PROVE  Place(m, i) # Place(m, j)
  <1>1. Place(m, i) \in Nat /\ Place(m, j) \in Nat
    BY PlaceOf
  <1> QED
    BY <1>1, BeforeIsOrder, PlacesGrow

\* Every number below the number of rows is the place of one.
LEMMA PlacesAreTaken ==
  ASSUME NEW m \in Monitor, NEW x \in 0..(Cardinality(FilteredRows(m)) - 1)
  PROVE  \E i \in FilteredRows(m) : Place(m, i) = x
  <1> DEFINE rows == FilteredRows(m)
             n == Cardinality(rows)
             f == [i \in rows |-> Place(m, i)]
  <1>1. n \in Nat
    BY RowsAreFinite
  <1>2. f \in Injection(rows, 0..(n - 1))
    BY PlacesAreBelow, PlacesAreDistinct DEF Injection, IsInjective
  <1>3. IsFiniteSet(0..(n - 1)) /\ Cardinality(0..(n - 1)) = n
    BY <1>1, FS_Interval
  <1>4. f \in Surjection(rows, 0..(n - 1))
    BY <1>2, <1>3, FS_Injection
  <1> QED
    BY <1>4 DEF Surjection

-----------------------------------------------------------------------------
(* Pages                                                                   *)

\* Place x of n is on page x \div ItemsPerPage + 1 and on no other.
LEMMA PagesPartition ==
  ASSUME NEW I \in Nat \ {0}, NEW n \in Nat, NEW x \in 0..(n - 1)
  PROVE  LET total == (n + I - 1) \div I
         IN \E p \in 1..total :
              \A q \in 1..total : x >= (q - 1) * I /\ x < (q - 1) * I + I <=> q = p
  <1> DEFINE total == (n + I - 1) \div I
             p == (x \div I) + 1
  <1>1. x \div I \in Nat /\ I * (x \div I) <= x /\ x < I * (x \div I) + I
    OBVIOUS
  <1>2. total \in Nat /\ I * total <= n + I - 1 /\ n + I - 1 < I * total + I
    OBVIOUS
  <1> HIDE DEF total
  <1>3. x \div I < total
    <2> DEFINE d == x \div I
    <2>1. d \in Nat /\ I * d < I * total
      BY <1>1, <1>2
    <2> HIDE DEF d
    <2>2. d < total
      BY <1>2, <2>1
    <2> QED
      BY <2>2 DEF d
  <1>4. p \in 1..total
    BY <1>1, <1>2, <1>3
  <1>5. ASSUME NEW q \in 1..total
        PROVE  x >= (q - 1) * I /\ x < (q - 1) * I + I <=> q = p
    <2> DEFINE d == x \div I
    <2>1. d \in Nat /\ I * d <= x /\ x < I * d + I
      BY <1>1
    <2>2. q \in Nat /\ q >= 1
      BY <1>2
    <2> HIDE DEF d
    <2>3. q - 1 > d => (q - 1) * I >= I * d + I
      BY <2>1, <2>2
    <2>4. q - 1 < d => (q - 1) * I + I <= I * d
      BY <2>1, <2>2
    <2>5. q - 1 = d => x >= (q - 1) * I /\ x < (q - 1) * I + I
      BY <2>1, <2>2
    <2>6. x >= (q - 1) * I /\ x < (q - 1) * I + I <=> q - 1 = d
      <3>1. (q - 1) * I \in Int /\ I * d \in Int
        BY <2>1, <2>2
      <3> QED
        BY <2>1, <2>2, <2>3, <2>4, <2>5, <3>1
    <2> QED
      BY <2>1, <2>2, <2>6 DEF d
  <1> QED
    BY <1>4, <1>5 DEF total

LEMMA TotalIsPositive == ASSUME NEW m \in Monitor PROVE TotalPages(m) \in Nat \ {0}
  <1> DEFINE n == Cardinality(FilteredRows(m))
  <1>1. n \in Nat /\ ItemsPerPage \in Nat \ {0}
    BY RowsAreFinite, Bounds
  <1>2. n # 0 => (n + ItemsPerPage - 1) \div ItemsPerPage >= 1
    <2> HIDE DEF n
    <2>1. SUFFICES ASSUME n # 0 PROVE (n + ItemsPerPage - 1) \div ItemsPerPage >= 1
      OBVIOUS
    <2>2. n + ItemsPerPage - 1 >= ItemsPerPage
      BY <1>1, <2>1
    <2> QED
      BY <1>1, <2>2
  <1> QED
    BY <1>1, <1>2 DEF TotalPages

\* A matching row is on exactly one page.
LEMMA RowIsOnOnePage ==
  ASSUME NEW m \in Monitor, NEW i \in FilteredRows(m)
  PROVE  \E p \in 1..TotalPages(m) :
           \A q \in 1..TotalPages(m) : i \in PageRows(m, q) <=> q = p
  <1> DEFINE n == Cardinality(FilteredRows(m))
  <1>1. n \in Nat /\ ItemsPerPage \in Nat \ {0} /\ Place(m, i) \in 0..(n - 1)
    BY RowsAreFinite, Bounds, PlacesAreBelow
  <1>2. TotalPages(m) = (n + ItemsPerPage - 1) \div ItemsPerPage
    BY <1>1 DEF TotalPages
  <1>3. ASSUME NEW q \in 1..TotalPages(m)
        PROVE  i \in PageRows(m, q) <=>
                 /\ Place(m, i) >= (q - 1) * ItemsPerPage
                 /\ Place(m, i) < (q - 1) * ItemsPerPage + ItemsPerPage
    BY DEF PageRows
  <1> HIDE DEF n
  <1>4. \E p \in 1..TotalPages(m) :
          \A q \in 1..TotalPages(m) :
             /\ Place(m, i) >= (q - 1) * ItemsPerPage
             /\ Place(m, i) < (q - 1) * ItemsPerPage + ItemsPerPage
             <=> q = p
    <2> DEFINE x == Place(m, i)
               I == ItemsPerPage
               total == TotalPages(m)
    <2>1. n \in Nat /\ I \in Nat \ {0} /\ x \in 0..(n - 1) /\ total = (n + I - 1) \div I
      BY <1>1, <1>2
    <2> HIDE DEF x, I, total
    <2>2. \E p \in 1..total :
            \A q \in 1..total : x >= (q - 1) * I /\ x < (q - 1) * I + I <=> q = p
      BY <2>1, PagesPartition
    <2> QED
      BY <2>2, Zenon DEF x, I, total
  <1> QED
    BY <1>3, <1>4, Zenon

\* No page holds more rows than itemsPerPage.
LEMMA PagesAreShort ==
  ASSUME NEW m \in Monitor, NEW p \in Nat \ {0}
  PROVE  Cardinality(PageRows(m, p)) <= ItemsPerPage
  <1> DEFINE first == (p - 1) * ItemsPerPage
             rows == PageRows(m, p)
             f == [i \in rows |-> Place(m, i)]
  <1>1. ItemsPerPage \in Nat \ {0} /\ first \in Nat
    <2> DEFINE I == ItemsPerPage
    <2>1. I \in Nat \ {0}
      BY Bounds
    <2> HIDE DEF I
    <2>2. (p - 1) * I \in Nat
      BY <2>1
    <2> QED
      BY <2>1, <2>2 DEF I
  <1>2. rows \subseteq FilteredRows(m)
        /\ \A i \in rows : Place(m, i) >= first /\ Place(m, i) < first + ItemsPerPage
    BY DEF PageRows
  <1>3. \A i \in rows : Place(m, i) \in Nat
    BY <1>2, PlaceOf
  <1> HIDE DEF first
  <1>4. f \in Injection(rows, first..(first + ItemsPerPage - 1))
    <2>1. \A i \in rows : Place(m, i) \in first..(first + ItemsPerPage - 1)
      BY <1>1, <1>2, <1>3
    <2> QED
      BY <1>2, <2>1, PlacesAreDistinct DEF Injection, IsInjective
  <1>5. /\ IsFiniteSet(first..(first + ItemsPerPage - 1))
        /\ Cardinality(first..(first + ItemsPerPage - 1)) = ItemsPerPage
    BY <1>1, FS_Interval
  <1> QED
    BY <1>4, <1>5, FS_Injection

\* A page within the total shows something whenever something matches.
LEMMA PagesAreFilled ==
  ASSUME NEW m \in Monitor, FilteredRows(m) # {}, NEW p \in 1..TotalPages(m)
  PROVE  PageRows(m, p) # {}
  <1> DEFINE n == Cardinality(FilteredRows(m))
             I == ItemsPerPage
             total == (n + I - 1) \div I
  <1>1. n \in Nat \ {0} /\ I \in Nat \ {0}
    BY RowsAreFinite, Bounds, FS_EmptySet
  <1>2. TotalPages(m) = total
    BY <1>1 DEF TotalPages
  <1>3. p \in Nat \ {0} /\ p <= total /\ total \in Nat
    BY <1>2, TotalIsPositive
  <1>4. (p - 1) * I \in 0..(n - 1)
    <2> HIDE DEF n, I
    <2>1. I * total <= n + I - 1
      BY <1>1
    <2> HIDE DEF total
    <2>2. I * p <= I * total
      BY <1>1, <1>3
    <2>3. (p - 1) * I = I * p - I /\ I * p \in Nat /\ (p - 1) * I \in Nat /\ I * total \in Nat
      BY <1>1, <1>3
    <2> QED
      BY <1>1, <2>1, <2>2, <2>3
  <1>5. PICK i \in FilteredRows(m) : Place(m, i) = (p - 1) * I
    BY <1>4, PlacesAreTaken
  <1>6. (p - 1) * I \in Nat /\ I \in Nat \ {0}
    BY <1>1, <1>4
  <1>7. i \in PageRows(m, p)
    BY <1>5, <1>6 DEF PageRows
  <1> QED
    BY <1>7

-----------------------------------------------------------------------------
(* The page                                                                *)

MonitorInv == MonitorTypeOK /\ (shrunk \/ monitor.page <= TotalPages(monitor))

LEMMA MonitorInitInvariant == MonitorInit => MonitorInv
  <1> SUFFICES ASSUME MonitorInit PROVE MonitorInv
    OBVIOUS
  <1>1. MonitorStart.search \in Query /\ MonitorStart.page = 1 /\ MonitorStart.page \in Nat \ {0}
    BY Bounds DEF MonitorStart
  <1>2. MonitorStart \in Monitor
    BY <1>1 DEF MonitorStart, Monitor, SortKey
  <1>3. TotalPages(monitor) \in Nat \ {0} /\ 1 <= TotalPages(monitor)
    BY <1>2, TotalIsPositive DEF MonitorInit
  <1> QED
    BY <1>1, <1>2, <1>3 DEF MonitorInit, MonitorInv, MonitorTypeOK

LEMMA ShowingKeeps ==
  ASSUME NEW m \in Monitor, Shows(m)
  PROVE  MonitorInv'
  <1>1. monitor' \in Monitor /\ monitor'.page = 1 /\ shrunk' = FALSE
    BY DEF Shows, Monitor
  <1>2. TotalPages(monitor') \in Nat \ {0} /\ monitor'.page <= TotalPages(monitor')
    BY <1>1, TotalIsPositive
  <1> QED
    BY <1>1, <1>2 DEF MonitorInv, MonitorTypeOK

LEMMA MonitorStepsKeep == MonitorInv /\ [MonitorNext]_monitorVars => MonitorInv'
  <1> SUFFICES ASSUME MonitorInv, [MonitorNext]_monitorVars PROVE MonitorInv'
    OBVIOUS
  <1>0. /\ monitor \in Monitor /\ shrunk \in BOOLEAN
        /\ TotalPages(monitor) \in Nat \ {0} /\ monitor.page \in Nat \ {0}
    BY TotalIsPositive DEF MonitorInv, MonitorTypeOK, Monitor
  <1>1. CASE UNCHANGED monitorVars
    BY <1>1 DEF monitorVars, MonitorInv, MonitorTypeOK, TotalPages, FilteredRows
  <1>2. CASE FetchAlerts
    <2>1. monitor' \in Monitor /\ monitor'.page = monitor.page
      BY <1>0, <1>2 DEF FetchAlerts, Monitor
    <2>2. TotalPages(monitor') = TotalPages(monitor)
      BY <1>0, <1>2 DEF FetchAlerts, TotalPages, FilteredRows, Monitor
    <2> QED
      BY <1>2, <2>1, <2>2 DEF FetchAlerts, MonitorInv, MonitorTypeOK
  <1>3. CASE AlertsArrive
    <2>1. monitor' \in Monitor /\ monitor'.page = monitor.page
      BY <1>0, <1>3 DEF AlertsArrive, Monitor
    <2>2. TotalPages(monitor') \in Nat \ {0}
      BY <2>1, TotalIsPositive
    <2>3. shrunk' \in BOOLEAN /\ (~shrunk' => ~(monitor'.page > TotalPages(monitor')))
      BY <1>3, <2>1 DEF AlertsArrive
    <2> QED
      BY <1>0, <2>1, <2>2, <2>3 DEF MonitorInv, MonitorTypeOK
  <1>4. ASSUME NEW field \in SortKey, HandleSort(field) PROVE MonitorInv'
    <2>1. PICK m \in Monitor : Shows(m)
      BY <1>0, <1>4 DEF HandleSort, Monitor
    <2> QED
      BY <2>1, ShowingKeeps
  <1>5. ASSUME NEW text \in Query, HandleSearchChange(text) PROVE MonitorInv'
    <2>1. PICK m \in Monitor : Shows(m)
      BY <1>0, <1>5 DEF HandleSearchChange, Monitor
    <2> QED
      BY <2>1, ShowingKeeps
  <1>6. CASE HandleFilterChange
    <2>1. PICK m \in Monitor : Shows(m)
      BY <1>0, <1>6 DEF HandleFilterChange, Monitor
    <2> QED
      BY <2>1, ShowingKeeps
  <1>7. CASE Previous
    <2>1. monitor' \in Monitor /\ monitor'.page = monitor.page - 1
      BY <1>0, <1>7 DEF Previous, Monitor
    <2>2. TotalPages(monitor') = TotalPages(monitor)
      BY <1>0, <1>7 DEF Previous, TotalPages, FilteredRows, Monitor
    <2> QED
      BY <1>0, <1>7, <2>1, <2>2 DEF Previous, MonitorInv, MonitorTypeOK
  <1>8. CASE NextPage
    <2>1. monitor' \in Monitor /\ monitor'.page = monitor.page + 1
      BY SMTT(60), <1>0, <1>8 DEF NextPage, Monitor
    <2>2. TotalPages(monitor') = TotalPages(monitor)
      BY <1>0, <1>8 DEF NextPage, TotalPages, FilteredRows, Monitor
    <2> QED
      BY <1>0, <1>8, <2>1, <2>2 DEF NextPage, MonitorInv, MonitorTypeOK
  <1> QED
    BY <1>1, <1>2, <1>3, <1>4, <1>5, <1>6, <1>7, <1>8 DEF MonitorNext

(* The state of the threat monitor keeps its type.                         *)
THEOREM MonitorTypeCorrect == MonitorSpec => []MonitorTypeOK
  <1>1. MonitorInv => MonitorTypeOK
    BY DEF MonitorInv
  <1> QED
    BY <1>1, MonitorInitInvariant, MonitorStepsKeep, PTL DEF MonitorSpec

(* Whatever is searched, filtered, sorted and refreshed: every matching    *)
(* row is on exactly one page, pages are no longer than itemsPerPage, and  *)
(* "No anomalies found" means that, unless the list shrank below the page. *)
THEOREM PagesShowAll == MonitorSpec => []PagesShowEverything
  <1>1. MonitorInv => PagesShowEverything
    <2> SUFFICES ASSUME MonitorInv PROVE PagesShowEverything
      OBVIOUS
    <2>1. /\ monitor \in Monitor /\ TotalPages(monitor) \in Nat \ {0}
          /\ monitor.page \in Nat \ {0}
      BY TotalIsPositive DEF MonitorInv, MonitorTypeOK, Monitor
    <2>2. ASSUME MonitorTable = "none found", ~shrunk PROVE FilteredRows(monitor) = {}
      <3>1. PageRows(monitor, monitor.page) = {}
        BY <2>2 DEF MonitorTable
      <3>2. monitor.page \in 1..TotalPages(monitor)
        <4>1. monitor.page <= TotalPages(monitor)
          BY <2>2, Zenon DEF MonitorInv
        <4> QED
          BY <2>1, <4>1
      <3> QED
        BY <2>1, <3>1, <3>2, PagesAreFilled
    <2>3. \A p \in 1..TotalPages(monitor) :
            Cardinality(PageRows(monitor, p)) <= ItemsPerPage
      BY <2>1, PagesAreShort
    <2> QED
      BY <2>1, <2>2, <2>3, RowIsOnOnePage DEF PagesShowEverything
  <1> QED
    BY <1>1, MonitorInitInvariant, MonitorStepsKeep, PTL DEF MonitorSpec

-----------------------------------------------------------------------------
(* The console: each of its steps is a step of one page, or of the shell.  *)

LEMMA ConsoleFollows ==
  ConsoleSpec => /\ DashboardSpec /\ MonitorSpec /\ ShellSpec
                 /\ TopologyInit /\ [][TopologyNext]_topology
                 /\ [](part \in Part)
  <1>1. ConsoleInit => /\ DashboardInit /\ MonitorInit /\ TopologyInit /\ ShellInit
                       /\ part \in Part
    BY DEF ConsoleInit
  <1>2. [ConsoleNext]_consoleVars =>
          /\ [DashboardNext]_dashboardVars /\ [MonitorNext]_monitorVars
          /\ [TopologyNext]_topology /\ [ShellNext]_shellVars
          /\ part' = part
    BY DEF ConsoleNext, consoleVars
  <1>3. part \in Part /\ part' = part => (part \in Part)'
    OBVIOUS
  <1> QED
    BY <1>1, <1>2, <1>3, PTL DEF ConsoleSpec, DashboardSpec, MonitorSpec, ShellSpec

(* Whichever page is followed, every page and the shell keep their types.  *)
THEOREM ConsoleTypeCorrect == ConsoleSpec => []ConsoleTypeOK
  <1>1. TopologyInv => TopologyTypeOK
    BY DEF TopologyInv
  <1>2. ShellInv => ShellTypeOK
    BY DEF ShellInv
  <1>3. MonitorInv => MonitorTypeOK
    BY DEF MonitorInv
  <1>4. ConsoleSpec => []TopologyTypeOK
    BY <1>1, ConsoleFollows, TopologyInitInvariant, TopologyStepsKeep, PTL
  <1>5. ConsoleSpec => []ShellTypeOK
    BY <1>2, ConsoleFollows, ShellInitInvariant, ShellStepsKeep, PTL DEF ShellSpec
  <1>6. ConsoleSpec => []MonitorTypeOK
    BY <1>3, ConsoleFollows, MonitorInitInvariant, MonitorStepsKeep, PTL DEF MonitorSpec
  <1>7. ConsoleSpec => []DashboardTypeOK
    BY ConsoleFollows, DashboardTypeCorrect, PTL
  <1>8. part \in Part /\ DashboardTypeOK /\ MonitorTypeOK /\ TopologyTypeOK /\ ShellTypeOK
          => ConsoleTypeOK
    BY DEF ConsoleTypeOK
  <1> QED
    BY <1>4, <1>5, <1>6, <1>7, <1>8, ConsoleFollows, PTL

(* What a page promises on its own it promises as part of the console.     *)
THEOREM ConsoleKeepsPromises ==
  ConsoleSpec => [](/\ ContainedIsEarned /\ DetailsBelongToSelection /\ QuietIsCurrent
                    /\ SpinnersAreHonest /\ AllClearIsKnown
                    /\ PagesShowEverything /\ SelectionIsDrawn
                    /\ ThemeAgrees)
  <1>1. ConsoleSpec => []SelectionIsDrawn
    BY TopologyInvDraws, ConsoleFollows, TopologyInitInvariant, TopologyStepsKeep, PTL
  <1> QED
    BY <1>1, ConsoleFollows, ContainedHolds, DetailsAreOfSelection, QuietPagesAreCurrent,
       SpinnersHold, AllClearHolds, PagesShowAll, ThemesAgree, PTL
=============================================================================
