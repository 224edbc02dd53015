\* An ingest and two runs of the backfill bridge, with the live handoff on; one
\* failure.
CONSTANTS
  Ingests        = {i1}
  Kinds         <- MCKinds
  ClientIds      = {"c1"}
  MintedIds      = {m1, m2}
  ForwardEnabled = TRUE
  Backfills      = {f1, f2}
  BackfillLimit  = 5
  Requests       = {r1, r2, r3}
  AnomalyIds     = {a1, a2, a3}
  MaxFaults      = 1
  None           = None
SYMMETRY Symmetry
SPECIFICATION Spec
INVARIANT BackfillIsBounded
