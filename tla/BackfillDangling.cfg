\* One signal without an id of its own, and one run of the backfill bridge.
CONSTANTS
  Ingests        = {i1}
  Kinds         <- MCKinds
  ClientIds      = {"c1"}
  MintedIds      = {"m1", "m2"}
  ForwardEnabled = FALSE
  Backfills      = {f1}
  BackfillLimit  = 5
  Requests       = {r1}
  AnomalyIds     = {"a1"}
  MaxFaults      = 0
  None           = None
SPECIFICATION Spec
INVARIANT AnomalyRefersToSignal
