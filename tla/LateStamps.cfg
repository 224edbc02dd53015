\* Stamps that reach their bucket a tick after they were taken.
CONSTANTS
  Threads  = {t1, t2}
  Keys     = {k1}
  MaxHits  = 2
  Window   = 3
  MaxDelay = 1
  MaxTime  = 6
SYMMETRY Symmetry
SPECIFICATION LimiterSpec
INVARIANT AtMostMaxHitsPerWindow
