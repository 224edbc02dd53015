\* A graph that does not answer while a detection is correlated.
CONSTANTS
  Requests     = {r1, r2, r3, r4}
  AnomalyIds   = {"a1", "a2", "stray"}
  StrayIds     = {"stray"}
  Detections  <- MCGraphDetections
  Ops         <- MCGraphOps
  GraphEnabled = TRUE
  PriorEdges  <- MCPriorEdges
  PageSize     = 2
  MaxFaults    = 1
  None         = None
SYMMETRY Symmetry
SPECIFICATION Spec
INVARIANT UnavailableGraphFallsBack
