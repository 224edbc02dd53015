\* Two ingests of one tenant, that may carry the same signal id, and B; one
\* failure.  No backfill.
CONSTANTS
  Ingests        = {i1, i2}
  Kinds         <- MCKinds
  ClientIds      = {"c1"}
  MintedIds      = {"m1", "m2", "m3", "m4"}
  ForwardEnabled = TRUE
  Backfills      = {}
  BackfillLimit  = 2
  Requests       = {r1, r2}
  AnomalyIds     = {"a1", "a2"}
  MaxFaults      = 1
  None           = None
SPECIFICATION Spec
INVARIANTS
  TypeOK
  ForwardOkIsDurable
  AnomalyRefersToSignal
  OneAnomalyPerSignal
  IngestSurvivesB
PROPERTY IngestIsAnswered
