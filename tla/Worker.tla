------------------------------- MODULE Worker -------------------------------
(***************************************************************************)
(* What a worker process of the services keeps in memory for all requests: *)
(* the buckets of the rate limiter and the key set of the token check.     *)
(* They share the clock and nothing else, and no request uses both: signup *)
(* is limited and needs no token.  Each behaviour follows one of them and  *)
(* leaves the other as it starts.                                          *)
(***************************************************************************)
EXTENDS RateLimiter, JwksCache

VARIABLE part  \* what is followed

workerVars == <<part, limiterVars, cacheVars>>

WorkerTypeOK ==
  /\ part \in {"limiter", "cache"}
  /\ LimiterTypeOK
  /\ CacheTypeOK

WorkerInit ==
  /\ part \in {"limiter", "cache"}
  /\ LimiterInit
  /\ CacheInit
  /\ part = "limiter" => published = {}

WorkerNext ==
  /\ UNCHANGED part
  /\ \/ /\ part = "limiter" /\ LimiterNext
        /\ UNCHANGED <<provider, cache, fetchedAt, lastForce, call, history>>
     \/ /\ part = "cache" /\ CacheNext
        /\ UNCHANGED <<hits, thread, granted>>

WorkerSpec == WorkerInit /\ [][WorkerNext]_workerVars
=============================================================================
