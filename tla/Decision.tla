------------------------------ MODULE Decision ------------------------------
(***************************************************************************)
(* The pure part of the correlation service: from a detection's label and  *)
(* confidence to a MITRE technique, a blast radius and a response          *)
(* decision (correlate.py, decision.py and label_to_mitre.json).           *)
(*                                                                         *)
(* A confidence is a percentage.  Thresholds are compared with >= only, so *)
(* whole percentages stand for the floats of the code.                     *)
(***************************************************************************)
EXTENDS Naturals

DosVariants == {"DoS Hulk", "DoS GoldenEye", "DoS Slowhttptest", "DoS slowloris"}

\* The keys of label_to_mitre.json.
KnownLabels == {"PortScan", "DDoS", "Heartbleed", "Bot"} \union DosVariants

Confidence == 0 .. 100

DecisionLevels == {"auto_execute", "recommend", "alert_only", "monitor"}
ResponseActions == {"block_ip", "isolate_endpoint"}

---------------------------------------------------------------------------
(* MITRE attribution.                                                      *)

\* Spellings the resolver accepts besides the keys themselves: a key in
\* another case, and the aliases of the ML classes.  A sample of each kind.
Spelling ==
  [ s \in {"ddos", "BOT", "botnet", "dos", "port_scan"} |->
      CASE s \in {"ddos", "dos"}   -> "DDoS"
        [] s \in {"BOT", "botnet"} -> "Bot"
        [] s = "port_scan"         -> "PortScan" ]

MitreId ==
  [ l \in KnownLabels |->
      CASE l = "PortScan"    -> "T1046"
        [] l = "DDoS"        -> "T1498"
        [] l \in DosVariants -> "T1499"
        [] l = "Heartbleed"  -> "T1190"
        [] l = "Bot"         -> "T1071" ]

Techniques == {"T1046", "T1498", "T1499", "T1190", "T1071", "T0000"}

\* A label no spelling resolves is attributed to the unclassified T0000.
CorrelateTechnique(attack) ==
  IF attack \in KnownLabels THEN MitreId[attack]
  ELSE IF attack \in DOMAIN Spelling THEN MitreId[Spelling[attack]]
  ELSE "T0000"

---------------------------------------------------------------------------
(* Blast radius.                                                           *)

StaticEstimate ==
  [ l \in KnownLabels |->
      CASE l = "PortScan"    -> 1
        [] l = "DDoS"        -> 10
        [] l \in DosVariants -> 2
        [] l = "Heartbleed"  -> 5
        [] l = "Bot"         -> 3 ]

\* The static estimate is looked up under the exact label, aliases excluded.
StaticBlastRadius(attack) ==
  IF attack \in KnownLabels THEN StaticEstimate[attack] ELSE 1

\* What the graph query returns: the count when it is answered, 0 when the
\* database cannot be reached.
CountConnectedAssets(answered, count) == IF answered THEN count ELSE 0

---------------------------------------------------------------------------
(* The decision matrix.                                                    *)

RecommendedAction(attack) ==
  IF attack \in {"PortScan", "DDoS"} \union DosVariants THEN "block_ip"
  ELSE IF attack \in {"Heartbleed", "Bot"} THEN "isolate_endpoint"
  ELSE "none"

DecisionLevel(confidence, radius) ==
  CASE confidence >= 90 /\ radius <= 3 -> "auto_execute"
    [] confidence >= 90 /\ radius > 3  -> "recommend"
    [] confidence < 90 /\ confidence >= 75 -> "recommend"
    [] confidence < 75 /\ confidence >= 50 -> "alert_only"
    [] OTHER                           -> "monitor"

\* compute_decision: `graphUsed` says whether the graph is configured, and
\* `assets` what its query returned then.
ComputeDecision(attack, confidence, graphUsed, assets) ==
  LET radius == IF graphUsed THEN assets ELSE StaticBlastRadius(attack)
      level  == DecisionLevel(confidence, radius)
  IN  [ level  |-> level,
        human  |-> level \in {"recommend", "alert_only"},
        action |-> IF level \in {"auto_execute", "recommend"}
                     THEN RecommendedAction(attack) ELSE "none",
        radius |-> radius ]

Decisions ==
  [ level : DecisionLevels, human : BOOLEAN,
    action : ResponseActions \union {"none"}, radius : Nat ]
=============================================================================
