------------------------------ MODULE Figures ------------------------------
(***************************************************************************)
(* The figures the console derives from a list of anomalies: the metrics,  *)
(* gauges, posture and recent activity of the overview, and the summary    *)
(* row of the threat monitor.                                              *)
(***************************************************************************)
EXTENDS Naturals, FiniteSets

Severity == {"critical", "high", "medium", "low"}
AnomalyStatus == {"new", "investigating", "acknowledged", "contained", "false_positive"}

(* AnomalyListItem; at and score are the places in the order of their      *)
(* values.                                                                 *)
AnomalyListItem(Id) == [id : Id, severity : Severity, status : AnomalyStatus,
                        at : Nat, score : Nat]

OfSeverity(rows, s) == {r \in rows : r.severity = s}
Count(rows, s) == Cardinality(OfSeverity(rows, s))
ActiveCount(rows) == Cardinality({r \in rows : r.status \in {"new", "investigating"}})
ContainedCount(rows) == Cardinality({r \in rows : r.status = "contained"})

(* The rule both screens use, on the numbers of critical and high ones.    *)
PostureOf(critical, high) ==
  IF critical > 5 \/ high > 15 THEN "critical"
  ELSE IF critical > 0 \/ high > 5 THEN "elevated" ELSE "guarded"
Posture(rows) == PostureOf(Count(rows, "critical"), Count(rows, "high"))

(* The overview's cards; the number of nodes only if the graph had them.   *)
Metrics(rows, nodes) ==
  [active |-> ActiveCount(rows), critical |-> Count(rows, "critical"),
   high |-> Count(rows, "high"), contained |-> ContainedCount(rows),
   total |-> Cardinality(rows), cards |-> IF nodes THEN 6 ELSE 5]

(* A card turns red for a severity of "high", which only active ones set.  *)
MetricCard(metrics) == IF metrics.active > 0 THEN "red" ELSE "plain"

(* ThreatSeverityGauges: the number in the middle is the sum of the parts. *)
GaugeTotal(rows) == Count(rows, "critical") + Count(rows, "high")
                      + Count(rows, "medium") + Count(rows, "low")

(* The six latest; among equal times the order of the list decides, here   *)
(* any of them.                                                            *)
RecentAlerts(rows) ==
  {S \in SUBSET rows : /\ Cardinality(S) = IF Cardinality(rows) < 6 THEN Cardinality(rows) ELSE 6
                       /\ \A r \in S, q \in rows \ S : r.at >= q.at}
=============================================================================
