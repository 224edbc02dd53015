\* Limiter: three threads and one key, two hits per three ticks; a caller waits for
\* the lock for a tick at most.  Cache: two keys; a TTL of three ticks, forced
\* fetches every other tick, fetches that take a tick at most.
CONSTANTS
  Threads  = {t1, t2, t3}
  Keys     = {k1}
  MaxHits  = 2
  Window   = 3
  MaxDelay = 1
  Kids     = {kid1, kid2}
  Ttl      = 3
  MinForce = 2
  MaxFetch = 1
  NoKid    = NoKid
  MaxTime  = 7
SYMMETRY Symmetry
SPECIFICATION WorkerSpec
INVARIANTS
  WorkerTypeOK
  BucketBound
  BucketFollowsGrants
  GrantsAreSpread
PROPERTIES
  RefusalIsJustified
  WithdrawnKeyExpires
  NewKeyIsAcceptedSoon
  FetchesAreSpread
