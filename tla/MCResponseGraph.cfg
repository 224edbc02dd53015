\* Every handler that works on one anomaly, over a graph where three assets already
\* exhibit T1498, so that the next detection crosses the threshold.
CONSTANTS
  Requests     = {r1, r2, r3}
  AnomalyIds   = {"a1", "a2", "stray"}
  StrayIds     = {"stray"}
  Detections  <- MCGraphDetections
  Ops         <- MCGraphOps
  GraphEnabled = TRUE
  PriorEdges  <- MCPriorEdges
  PageSize     = 2
  MaxFaults    = 2
  None         = None
SYMMETRY Symmetry
SPECIFICATION Spec
INVARIANT DecideNeverRelaxes
PROPERTY ImplementsStore
