----------------------------- MODULE MCResponse -----------------------------
(***************************************************************************)
(* Small instances of the correlation-response service.                    *)
(***************************************************************************)
EXTENDS StoreRefinement, TLC

Detection(attack, confidence, asset) ==
  [signal |-> "s1", attack |-> attack, confidence |-> confidence, asset |-> asset]

\* One detection per band of the matrix that static estimates can reach, and
\* the BENIGN one that is skipped.
MCDetections ==
  { Detection("DDoS", 95, "x"), Detection("Bot", 90, "x"), Detection("BENIGN", 99, "x") }

\* Three assets exhibit T1498 already: the next one makes its radius high.
MCPriorEdges ==
  { [asset |-> s, technique |-> "T1498", id |-> "stray"] : s \in {"a", "b", "c"} }

MCGraphDetections == { Detection("DDoS", 95, "x"), Detection("DDoS", 92, "y") }

\* What touches the rows of one anomaly.
MCGraphOps == {"correlate", "decide", "narrative"} \union ReviewOps

Symmetry == Permutations(Requests)
=============================================================================
