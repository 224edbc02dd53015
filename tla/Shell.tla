------------------------------- MODULE Shell -------------------------------
(***************************************************************************)
(* What surrounds the pages: the sidebar, the top bar and the layout of    *)
(* the console, and the landing page.  The colour theme lives in a class   *)
(* of the document, which outlives the components that show it.            *)
(***************************************************************************)
EXTENDS Naturals, FiniteSets, GridTwin

VARIABLES
  place,    \* the address: see Place
  dark,     \* the document has the class "dark"
  bar,      \* state of the bar on the screen: Navbar or TopNavbar
  sidebar,  \* collapsed, and the sections that are folded out
  landing,  \* state of the widgets of the landing page
  crashed   \* an error boundary shows its message in place of the page

shellVars == <<place, dark, bar, sidebar, landing, crashed>>

Section == {"operations", "response"}
(* SIDEBAR_SECTIONS: the links of the sidebar.                             *)
SidebarLink ==
  {[at |-> "dashboard", tab |-> t, in |-> "operations"] : t \in {"overview", "alerts", "topology", "twin"}}
    \cup {[at |-> "dashboard", tab |-> t, in |-> "response"] : t \in {"incident", "audit"}}
    \cup {[at |-> p, tab |-> "none", in |-> "operations"] : p \in {"threat-monitor", "topology"}}

Address == [at : {"landing", "dashboard", "threat-monitor", "topology"},
            tab : {"none", "overview", "alerts", "topology", "twin", "incident",
                   "audit", "settings"}]
Bar == [theme : {"dark", "light"}, synced : BOOLEAN, menu : BOOLEAN]
NewBar == [theme |-> "dark", synced |-> FALSE, menu |-> FALSE]
NewSidebar == [collapsed |-> FALSE, open |-> Section]
NewLanding == [grid |-> "nominal", step |-> 0, scrolled |-> FALSE]

ShellTypeOK ==
  /\ place \in Address
  /\ dark \in BOOLEAN
  /\ bar \in Bar
  /\ sidebar \in [collapsed : BOOLEAN, open : SUBSET Section]
  /\ landing \in [grid : Grid, step : 0..3, scrolled : BOOLEAN]
  /\ crashed \in BOOLEAN

(* The root layout renders the document dark.                              *)
ShellInit ==
  /\ place = [at |-> "landing", tab |-> "none"]
  /\ dark = TRUE
  /\ bar = NewBar
  /\ sidebar = NewSidebar
  /\ landing = NewLanding
  /\ crashed = FALSE

OnLanding == place.at = "landing"
(* The bar of the landing page is part of it, that of the console belongs  *)
(* to the layout, which no error of a page removes.                        *)
HasBar == OnLanding => ~crashed

-----------------------------------------------------------------------------
(* Theme                                                                   *)

(* The effect of a bar that was just mounted reads the class, before any   *)
(* click is handled.                                                       *)
SyncTheme ==
  /\ HasBar
  /\ ~bar.synced
  /\ bar' = [bar EXCEPT !.theme = IF dark THEN "dark" ELSE "light", !.synced = TRUE]
  /\ UNCHANGED <<place, dark, sidebar, landing, crashed>>

(* toggleTheme computes the new theme from the bar's own state and sets    *)
(* class and state from it; in the console it also closes the menu.        *)
ToggleTheme ==
  /\ bar.synced
  /\ LET theme == IF bar.theme = "dark" THEN "light" ELSE "dark"
     IN /\ dark' = (theme = "dark")
        /\ bar' = [bar EXCEPT !.theme = theme, !.menu = OnLanding /\ @]
  /\ UNCHANGED <<place, sidebar, landing, crashed>>

-----------------------------------------------------------------------------
(* Menus                                                                   *)

(* The profile menu of the console, the mobile menu of the landing page.   *)
ToggleMenu ==
  /\ bar.synced
  /\ bar' = [bar EXCEPT !.menu = ~@]
  /\ UNCHANGED <<place, dark, sidebar, landing, crashed>>

(* A click outside the profile closes its menu.                            *)
OutsideClick ==
  /\ ~OnLanding /\ bar.synced
  /\ bar' = [bar EXCEPT !.menu = FALSE]
  /\ UNCHANGED <<place, dark, sidebar, landing, crashed>>

-----------------------------------------------------------------------------
(* Sidebar and navigation                                                  *)

ToggleSidebar ==
  /\ ~OnLanding
  /\ sidebar' = [sidebar EXCEPT !.collapsed = ~@]
  /\ UNCHANGED <<place, dark, bar, landing, crashed>>

(* Section titles are shown only while the sidebar is not collapsed.       *)
ToggleSection(s) ==
  /\ ~OnLanding
  /\ ~sidebar.collapsed
  /\ sidebar' = [sidebar EXCEPT !.open = IF s \in @ THEN @ \ {s} ELSE @ \cup {s}]
  /\ UNCHANGED <<place, dark, bar, landing, crashed>>

(* Collapsed, the icons of every section are shown.                        *)
VisibleLinks == {l \in SidebarLink : sidebar.collapsed \/ l.in \in sidebar.open}

(* An error boundary gives way when the path changes, not for another tab  *)
(* of the same path (external: the framework's boundary).                  *)
GoesTo(address) ==
  /\ place' = address
  /\ crashed' = (crashed /\ address.at = place.at)

(* Within the console the layout stays mounted.                            *)
FollowLink(l) ==
  /\ ~OnLanding
  /\ l \in VisibleLinks
  /\ GoesTo([at |-> l.at, tab |-> l.tab])
  /\ UNCHANGED <<dark, bar, sidebar, landing>>

(* Profile & Settings of the menu, or the user card of the sidebar.        *)
OpenSettings ==
  /\ ~OnLanding
  /\ bar.menu \/ ~sidebar.collapsed
  /\ GoesTo([at |-> "dashboard", tab |-> "settings"])
  /\ bar' = [bar EXCEPT !.menu = FALSE]
  /\ UNCHANGED <<dark, sidebar, landing>>

(* Launch Platform, and the logo of the sidebar back to the landing page:  *)
(* another bar mounts, the document stays.                                 *)
LaunchPlatform ==
  /\ OnLanding /\ ~crashed
  /\ GoesTo([at |-> "dashboard", tab |-> "none"])
  /\ bar' = NewBar
  /\ sidebar' = NewSidebar
  /\ landing' = NewLanding
  /\ UNCHANGED dark

BackToLanding ==
  /\ ~OnLanding
  /\ GoesTo([at |-> "landing", tab |-> "none"])
  /\ bar' = NewBar
  /\ UNCHANGED <<dark, sidebar, landing>>

-----------------------------------------------------------------------------
(* Landing page                                                            *)

(* The substation of the hero section: the buttons its state shows.        *)
HeroClick ==
  /\ OnLanding /\ ~crashed
  /\ \E grid \in Grid : /\ <<landing.grid, grid>> \in TwinMoves
                        /\ landing' = [landing EXCEPT !.grid = grid]
  /\ UNCHANGED <<place, dark, bar, sidebar, crashed>>

(* The incident console of the features section advances every 4 s.        *)
FeatureStep ==
  /\ OnLanding /\ ~crashed
  /\ landing' = [landing EXCEPT !.step = (@ + 1) % 4]
  /\ UNCHANGED <<place, dark, bar, sidebar, crashed>>

(* What that console makes of the steps of its incident.                   *)
IncidentSteps == [i \in 0..3 |-> IF i = landing.step THEN "processing"
                                 ELSE IF i < landing.step THEN "passed" ELSE "ahead"]

HandleScroll ==
  /\ OnLanding /\ ~crashed
  /\ landing' = [landing EXCEPT !.scrolled = ~@]
  /\ UNCHANGED <<place, dark, bar, sidebar, crashed>>

-----------------------------------------------------------------------------
(* Error boundaries and reloads                                            *)

(* A page throws while it renders: the boundary shows a message instead.   *)
RenderFails ==
  /\ ~crashed
  /\ crashed' = TRUE
  /\ bar' = IF OnLanding THEN NewBar ELSE bar
  /\ landing' = NewLanding
  /\ UNCHANGED <<place, dark, sidebar>>

(* Try again.                                                              *)
Reset ==
  /\ crashed
  /\ crashed' = FALSE
  /\ UNCHANGED <<place, dark, bar, sidebar, landing>>

(* Back to overview, or Back home: on the path that failed the message     *)
(* stays.                                                                  *)
BackFromError ==
  /\ crashed
  /\ GoesTo([at |-> IF OnLanding THEN "landing" ELSE "dashboard", tab |-> "none"])
  /\ UNCHANGED <<dark, bar, sidebar, landing>>

(* The document is loaded anew, dark.                                      *)
Reload ==
  /\ dark' = TRUE
  /\ bar' = NewBar
  /\ sidebar' = NewSidebar
  /\ landing' = NewLanding
  /\ crashed' = FALSE
  /\ UNCHANGED place

ShellNext == \/ SyncTheme \/ ToggleTheme \/ ToggleMenu \/ OutsideClick
             \/ ToggleSidebar \/ \E s \in Section : ToggleSection(s)
             \/ \E l \in SidebarLink : FollowLink(l)
             \/ OpenSettings \/ LaunchPlatform \/ BackToLanding
             \/ HeroClick \/ FeatureStep \/ HandleScroll
             \/ RenderFails \/ Reset \/ BackFromError \/ Reload

ShellSpec == ShellInit /\ [][ShellNext]_shellVars

(* The icon of the bar shows the theme of the document, after any toggles, *)
(* errors, reloads and moves between the landing page and the console: a   *)
(* toggle never needs a second click.                                      *)
ThemeAgrees == bar.synced => (bar.theme = "dark" <=> dark)
=============================================================================
