----------------------------- MODULE MCConsole -----------------------------
(* The dashboard with no alert, one, or three of which an answer lists     *)
(* two, all of the asset and reason of any mock incident; on the threat    *)
(* monitor lists of up to three anomalies in two pages.                    *)
EXTENDS Console, TLC

MCHits == [a \in Alert |-> Alert]
MCStores == {{}, {"a2"}, Alert}
MCAge == [a \in Alert |-> CASE a = "a1" -> 0 [] a = "a2" -> 1 [] OTHER -> 2]

Row(i, severity, status, at, score) ==
  [id |-> i, severity |-> severity, status |-> status, at |-> at, score |-> score]
Rows == <<Row(1, "critical", "new", 3, 1), Row(2, "high", "contained", 2, 2),
          Row(3, "critical", "new", 2, 2)>>
MCListing == {SubSeq(Rows, 1, n) : n \in 0..3}
MCMatches == [q \in Query |-> IF q = "" THEN 1..3 ELSE {2, 3}]
=============================================================================
