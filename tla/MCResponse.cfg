\* Every handler, no graph: three requests, one failure.
CONSTANTS
  Requests     = {r1, r2, r3}
  AnomalyIds   = {"a1", "a2", "stray"}
  StrayIds     = {"stray"}
  Detections  <- MCDetections
  Ops         <- AllOps
  GraphEnabled = FALSE
  PriorEdges   = {}
  PageSize     = 2
  MaxFaults    = 1
  None         = None
SYMMETRY Symmetry
SPECIFICATION Spec
INVARIANTS
  TypeOK
  CorrelateIsDurable
  ReferencesExist
  StatusIsAccounted
  ReviewTrail
  NarrativeIsTraced
  SoarIsTraced
  PageWithinTotal
  DecideAgrees
