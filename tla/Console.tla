------------------------------ MODULE Console ------------------------------
(***************************************************************************)
(* The web console, page by page: the dashboard, the threat monitor, the   *)
(* topology and what surrounds them.  The route decides which page is      *)
(* mounted; pages share no state of their own, so that each behaviour      *)
(* follows one of them and leaves the others as they start.                *)
(***************************************************************************)
EXTENDS Dashboard, ThreatMonitor, Topology, Shell

VARIABLE part  \* the page that is followed

consoleVars == <<part, dashboardVars, monitorVars, topology, shellVars>>

Part == {"dashboard", "monitor", "topology", "shell"}

ConsoleTypeOK ==
  /\ part \in Part
  /\ DashboardTypeOK
  /\ MonitorTypeOK
  /\ TopologyTypeOK
  /\ ShellTypeOK

ConsoleInit ==
  /\ part \in Part
  /\ DashboardInit
  /\ part # "dashboard" => ~mock /\ server = Nothing
  /\ MonitorInit
  /\ TopologyInit
  /\ ShellInit

ConsoleNext ==
  /\ UNCHANGED part
  /\ \/ /\ part = "dashboard" /\ DashboardNext
        /\ UNCHANGED <<monitorVars, topology, shellVars>>
     \/ /\ part = "monitor" /\ MonitorNext
        /\ UNCHANGED <<dashboardVars, topology, shellVars>>
     \/ /\ part = "topology" /\ TopologyNext
        /\ UNCHANGED <<dashboardVars, monitorVars, shellVars>>
     \/ /\ part = "shell" /\ ShellNext
        /\ UNCHANGED <<dashboardVars, monitorVars, topology>>

ConsoleSpec == ConsoleInit /\ [][ConsoleNext]_consoleVars
=============================================================================
