----------------------------- MODULE JwksCache -----------------------------
(***************************************************************************)
(* Token verification and the cached key set of shared/auth.py, in one     *)
(* worker process, beside a provider that publishes and withdraws keys.    *)
(*                                                                         *)
(* The dependencies that verify tokens are coroutines that never await:    *)
(* a verification, its blocking fetches included, has the event loop of    *)
(* the worker for itself, so that there is one call at a time.  Tokens are *)
(* signed asymmetrically and name their key.                               *)
(*                                                                         *)
(* MaxFetch bounds how long a fetch takes.                                 *)
(***************************************************************************)
EXTENDS WorkerClock

CONSTANTS Kids, Ttl, MinForce, MaxFetch, NoKid

ASSUME JwksCacheAssumption ==
  /\ Ttl \in Nat /\ MinForce \in Nat /\ MaxFetch \in Nat /\ MaxTime \in Nat
  /\ MaxFetch < MinForce /\ MinForce <= Ttl
  /\ NoKid \notin Kids

VARIABLES
  published,  \* keys the provider signs with or still vouches for
  changed,    \* when each key was last published or withdrawn
  cache,      \* _jwks
  fetchedAt,  \* _fetched_at
  lastForce,  \* _last_force
  call,       \* the verification under way
  previous,   \* when the fetch before that of the cache began
  failedAt    \* when a fetch last failed

cacheVars == <<clock, published, changed, cache, fetchedAt, lastForce, call, previous, failedAt>>

provider == <<published, changed>>
history  == <<previous, failedAt>>

Fetching == {"fetching", "fetched"}
Pcs      == {"idle", "missed", "accepted", "refused", "failed"} \union Fetching

\* `forced` says whether the call is in its second get.
Call ==
  [ pc : Pcs, kid : Kids \union {NoKid}, forced : BOOLEAN,
    start : 0 .. clock, keys : SUBSET Kids ]

NoCall == [pc |-> "idle", kid |-> NoKid, forced |-> FALSE, start |-> 0, keys |-> {}]

\* _jwks is None
EmptyCache == [loaded |-> FALSE, keys |-> {}]

\* Further back than any interval reaches.
Never == -MinForce

CacheTypeOK ==
  /\ clock     \in 0 .. MaxTime
  /\ published \subseteq Kids
  /\ changed   \in [Kids -> 0 .. clock]
  /\ cache     \in [loaded : BOOLEAN, keys : SUBSET Kids]
  /\ fetchedAt \in 0 .. clock
  /\ lastForce \in 0 .. clock
  /\ call      \in Call
  /\ previous  \in 0 .. clock \union {Never}
  /\ failedAt  \in 0 .. clock \union {Never}

CacheInit ==
  /\ clock = 0
  /\ published \in SUBSET Kids
  /\ changed   = [k \in Kids |-> 0]
  /\ cache     = EmptyCache
  /\ fetchedAt = 0
  /\ lastForce = 0
  /\ call      = NoCall
  /\ previous  = Never
  /\ failedAt  = Never

---------------------------------------------------------------------------
(* The environment.                                                        *)

\* A fetch that runs into its timeout is over.
CacheTick ==
  /\ clock < MaxTime
  /\ call.pc \in Fetching => clock - call.start < MaxFetch
  /\ clock' = clock + 1
  /\ UNCHANGED <<provider, cache, fetchedAt, lastForce, call, history>>

Rotate(k) ==
  /\ published' = IF k \in published THEN published \ {k} ELSE published \union {k}
  /\ changed'   = [changed EXCEPT ![k] = clock]
  /\ UNCHANGED <<clock, cache, fetchedAt, lastForce, call, history>>

\* reset(), or a new worker: the verification under way is lost.
Restart ==
  /\ cache' = EmptyCache
  /\ fetchedAt' = 0
  /\ lastForce' = 0
  /\ call' = NoCall
  /\ previous' = Never
  /\ UNCHANGED <<clock, provider, failedAt>>

---------------------------------------------------------------------------
(* _JwksCache.get and the part of _decode_token that calls it.             *)

Expired == ~cache.loaded \/ clock - fetchedAt > Ttl

MayForceAlways == TRUE

MayForceOncePerTtl == clock - lastForce > Ttl

MayForce == clock - lastForce >= MinForce

StartFetch(kid, forced) ==
  call' = [pc |-> "fetching", kid |-> kid, forced |-> forced, start |-> clock, keys |-> {}]

\* Is the key of the token among the keys?  If not, the first time, ask again.
Judge(kid, forced, keys) ==
  call' = [NoCall EXCEPT !.kid = kid, !.forced = forced,
             !.pc = IF kid \in keys THEN "accepted"
                    ELSE IF forced THEN "refused" ELSE "missed"]

Get(kid, forced) ==
  /\ \/ /\ Expired
        /\ StartFetch(kid, forced)
        /\ UNCHANGED lastForce
     \/ /\ ~Expired /\ forced /\ MayForce
        /\ lastForce' = clock
        /\ StartFetch(kid, forced)
     \/ /\ ~Expired /\ ~(forced /\ MayForce)
        /\ Judge(kid, forced, cache.keys)
        /\ UNCHANGED lastForce
  /\ UNCHANGED <<clock, provider, cache, fetchedAt, history>>

Verify(kid) == call.pc = "idle" /\ Get(kid, FALSE)

AskAgain == call.pc = "missed" /\ Get(call.kid, TRUE)

\* The provider answers with the keys it has then, which arrive later.
ProviderAnswers ==
  /\ call.pc = "fetching"
  /\ call' = [call EXCEPT !.pc = "fetched", !.keys = published]
  /\ UNCHANGED <<clock, provider, cache, fetchedAt, lastForce, history>>

ReceiveUntilExpiry ==
  /\ call.pc = "fetched"
  /\ cache'     = [loaded |-> TRUE, keys |-> call.keys]
  /\ fetchedAt' = call.start + Ttl
  /\ previous'  = IF cache.loaded THEN fetchedAt ELSE Never
  /\ Judge(call.kid, call.forced, call.keys)
  /\ UNCHANGED <<clock, provider, lastForce, failedAt>>

ReceiveStampedLate ==
  /\ call.pc = "fetched"
  /\ cache'     = [loaded |-> TRUE, keys |-> call.keys]
  /\ fetchedAt' = clock
  /\ previous'  = IF cache.loaded THEN fetchedAt ELSE Never
  /\ Judge(call.kid, call.forced, call.keys)
  /\ UNCHANGED <<clock, provider, lastForce, failedAt>>

Receive ==
  /\ call.pc = "fetched"
  /\ cache'     = [loaded |-> TRUE, keys |-> call.keys]
  /\ fetchedAt' = call.start
  /\ previous'  = IF cache.loaded THEN fetchedAt ELSE Never
  /\ Judge(call.kid, call.forced, call.keys)
  /\ UNCHANGED <<clock, provider, lastForce, failedAt>>

\* The exception leaves get; the request is answered 500.
FetchFails ==
  /\ call.pc \in Fetching
  /\ call' = [NoCall EXCEPT !.pc = "failed"]
  /\ failedAt' = clock
  /\ UNCHANGED <<clock, provider, cache, fetchedAt, lastForce, previous>>

Return ==
  /\ call.pc \in {"accepted", "refused", "failed"}
  /\ call' = NoCall
  /\ UNCHANGED <<clock, provider, cache, fetchedAt, lastForce, history>>

CacheNext ==
  \/ CacheTick \/ Restart
  \/ \E k \in Kids : Rotate(k) \/ Verify(k)
  \/ AskAgain \/ ProviderAnswers \/ Receive \/ FetchFails \/ Return

CacheSpec == CacheInit /\ [][CacheNext]_cacheVars

---------------------------------------------------------------------------
(* Properties.                                                             *)

Becomes(pc) == call.pc # pc /\ call'.pc = pc

\* A withdrawn key is accepted for a TTL after its withdrawal at most, however
\* long the fetch took that brought it ("bounds staleness after key rotation",
\* shared/supabase_config.py, line 26).
WithdrawnKeyExpires ==
  [][ Becomes("accepted") =>
        call'.kid \in published \/ clock - changed[call'.kid] <= Ttl ]_cacheVars

\* A token is refused for its key only if the key is not published, has been for
\* less than the interval of forced fetches, or a fetch failed within that
\* interval ("a rotated signing key is picked up without a service restart",
\* shared/auth.py, lines 9-10).
NewKeyIsAcceptedSoon ==
  [][ Becomes("refused") =>
        \/ call'.kid \notin published
        \/ clock - changed[call'.kid] < MinForce
        \/ clock - failedAt < MinForce ]_cacheVars

\* The provider serves at most two fetches that succeed per interval, whatever
\* keys the tokens name: one for an expired cache and one forced.
FetchesAreSpread ==
  [][ Receive => call.start - previous >= MinForce ]_cacheVars
=============================================================================
