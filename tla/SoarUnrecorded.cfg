\* A SOAR action on an identifier of no anomaly, with no failure.
CONSTANTS
  Requests     = {r1, r2, r3}
  AnomalyIds   = {"a1", "a2", "stray"}
  StrayIds     = {"stray"}
  Detections  <- MCDetections
  Ops         <- AllOps
  GraphEnabled = FALSE
  PriorEdges   = {}
  PageSize     = 2
  MaxFaults    = 0
  None         = None
SYMMETRY Symmetry
SPECIFICATION Spec
INVARIANT SoarActionsAreRecorded
