----------------------------- MODULE JwksProofs -----------------------------
(***************************************************************************)
(* The key cache, for any keys and any intervals: types, and the three     *)
(* action properties of JwksCache, from one inductive invariant.           *)
(***************************************************************************)
EXTENDS JwksCache, TLAPS

\* What differs between a set of keys known since t and the published one has
\* changed since t.
Since(keys, t) ==
  \A k \in Kids : (k \in keys <=> k \in published) \/ changed[k] >= t

CacheIsCurrent == cache.loaded => Since(cache.keys, fetchedAt)

AnswerIsCurrent == call.pc = "fetched" => Since(call.keys, call.start)

\* A forced fetch ended in the cache, failed, or is under way.
ForceIsCounted ==
  \/ lastForce <= fetchedAt
  \/ lastForce <= failedAt
  \/ call.pc \in Fetching /\ lastForce = call.start

\* Of the last two fetches the second was forced, or the first had expired.
CacheIsSpread ==
  /\ cache.loaded => previous <= lastForce \/ fetchedAt - previous >= MinForce
  /\ previous <= fetchedAt
  /\ ~cache.loaded => previous = Never

\* The same of the fetch under way.
FetchIsSpread ==
  call.pc \in Fetching =>
    /\ clock - call.start <= MaxFetch
    /\ fetchedAt <= call.start
    /\ call.start - previous >= MinForce
    /\ cache.loaded => lastForce = call.start \/ call.start - fetchedAt >= MinForce

\* A call that saw a key or missed one names it.
CallNamesKey == call.pc \in Fetching \union {"missed"} => call.kid \in Kids

IInv ==
  /\ CacheTypeOK
  /\ CacheIsCurrent
  /\ AnswerIsCurrent
  /\ ForceIsCounted
  /\ CacheIsSpread
  /\ FetchIsSpread
  /\ CallNamesKey

LEMMA InitInvariant == CacheInit => IInv
  BY JwksCacheAssumption
  DEF CacheInit, IInv, CacheTypeOK, CacheIsCurrent, AnswerIsCurrent, ForceIsCounted, CacheIsSpread,
      FetchIsSpread, CallNamesKey, NoCall, Call, Pcs, Fetching, Never, EmptyCache

LEMMA TickKeeps == IInv /\ CacheTick => IInv'
  BY JwksCacheAssumption
  DEF CacheTick, provider, history, IInv, CacheTypeOK, CacheIsCurrent, AnswerIsCurrent, ForceIsCounted,
      CacheIsSpread, FetchIsSpread, CallNamesKey, Since, Call, Pcs, Fetching, Never

LEMMA RotateKeeps == ASSUME NEW k \in Kids, IInv, Rotate(k) PROVE IInv'
  BY JwksCacheAssumption
  DEF Rotate, history, IInv, CacheTypeOK, CacheIsCurrent, AnswerIsCurrent, ForceIsCounted,
      CacheIsSpread, FetchIsSpread, CallNamesKey, Since, Call, Pcs, Fetching, Never

LEMMA RestartKeeps == IInv /\ Restart => IInv'
  BY JwksCacheAssumption
  DEF Restart, provider, IInv, CacheTypeOK, CacheIsCurrent, AnswerIsCurrent, ForceIsCounted,
      CacheIsSpread, FetchIsSpread, CallNamesKey, NoCall, EmptyCache, Call, Pcs, Fetching, Never

\* A step that leaves the clock alone leaves the calls there can be.
LEMMA NoCallIsCall == CacheTypeOK /\ clock' = clock => NoCall \in Call /\ Call' = Call
  BY DEF CacheTypeOK, NoCall, Call, Pcs

\* What a judged call looks like.
LEMMA JudgedCall ==
  ASSUME NEW kid \in Kids, NEW forced \in BOOLEAN, NEW keys, CacheTypeOK, clock' = clock,
         Judge(kid, forced, keys)
  PROVE  /\ call' \in Call'
         /\ call'.kid = kid
         /\ call'.pc \in {"accepted", "refused", "missed"}
         /\ call'.pc = "accepted" <=> kid \in keys
         /\ call'.pc = "refused" => forced
<1>1. NoCall \in Call /\ Call' = Call
  BY NoCallIsCall
<1> DEFINE pc == IF kid \in keys THEN "accepted" ELSE IF forced THEN "refused" ELSE "missed"
<1>2. pc \in {"accepted", "refused", "missed"}
  OBVIOUS
<1>3. call' = [NoCall EXCEPT !.kid = kid, !.forced = forced, !.pc = pc]
  BY DEF Judge
<1>4. call' \in Call
  BY <1>1, <1>2, <1>3 DEF Call, Pcs
<1>5. call'.kid = kid /\ call'.pc = pc
  BY <1>3 DEF NoCall
<1> QED
  BY <1>1, <1>2, <1>4, <1>5

LEMMA GetKeeps ==
  ASSUME NEW kid \in Kids, NEW forced \in BOOLEAN, IInv, call.pc \notin Fetching, Get(kid, forced)
  PROVE  IInv'
<1>1. /\ clock' = clock /\ published' = published /\ changed' = changed /\ cache' = cache
      /\ fetchedAt' = fetchedAt /\ previous' = previous /\ failedAt' = failedAt
  BY DEF Get, provider, history
<1>2. CASE lastForce' = lastForce /\ Judge(kid, forced, cache.keys)
  <2>1. call' \in Call' /\ call'.kid = kid /\ call'.pc \in {"accepted", "refused", "missed"}
    BY <1>1, <1>2, JudgedCall DEF IInv
  <2> QED
    BY <1>1, <1>2, <2>1
    DEF IInv, CacheTypeOK, CacheIsCurrent, AnswerIsCurrent, ForceIsCounted, CacheIsSpread,
        FetchIsSpread, CallNamesKey, Since, Fetching
<1>3. CASE StartFetch(kid, forced) /\ \/ Expired /\ lastForce' = lastForce
                                      \/ MayForce /\ lastForce' = clock
  <2>1. call' \in Call' /\ call'.kid = kid /\ call'.pc = "fetching" /\ call'.start = clock
    BY <1>1, <1>3 DEF StartFetch, Call, Pcs, Fetching, IInv, CacheTypeOK
  <2>2. CacheTypeOK' /\ CacheIsCurrent' /\ AnswerIsCurrent' /\ CallNamesKey'
    BY <1>1, <1>3, <2>1 DEF IInv, CacheTypeOK, CacheIsCurrent, AnswerIsCurrent, CallNamesKey, Since
  <2>3. ForceIsCounted'
    BY <1>1, <1>3, <2>1 DEF IInv, ForceIsCounted, Fetching
  <2>4. CacheIsSpread'
    BY <1>1, <1>3, JwksCacheAssumption DEF IInv, CacheTypeOK, CacheIsSpread, Never
  <2>5. FetchIsSpread'
    BY <1>1, <1>3, <2>1, JwksCacheAssumption
    DEF Expired, MayForce, IInv, CacheTypeOK, CacheIsSpread, FetchIsSpread, Never
  <2> QED
    BY <2>2, <2>3, <2>4, <2>5 DEF IInv
<1> QED
  BY <1>2, <1>3 DEF Get

LEMMA ProviderAnswersKeeps == IInv /\ ProviderAnswers => IInv'
  BY ZenonT(60), JwksCacheAssumption
  DEF ProviderAnswers, provider, history, IInv, CacheTypeOK, CacheIsCurrent, AnswerIsCurrent,
      ForceIsCounted, CacheIsSpread, FetchIsSpread, CallNamesKey, Since, Call, Pcs, Fetching, Never

LEMMA ReceiveKeeps == IInv /\ Receive => IInv'
<1> SUFFICES ASSUME IInv, Receive PROVE IInv'
  OBVIOUS
<1>1. /\ clock' = clock /\ published' = published /\ changed' = changed
      /\ lastForce' = lastForce /\ failedAt' = failedAt /\ call.pc = "fetched"
      /\ cache'.loaded /\ cache'.keys = call.keys /\ fetchedAt' = call.start
  BY DEF Receive, provider
<1>2. call' \in Call' /\ call'.pc \in {"accepted", "refused", "missed"} /\ call'.kid \in Kids
  BY <1>1, JudgedCall DEF Receive, IInv, CacheTypeOK, Call, CallNamesKey, Fetching
<1>3. /\ call.start \in 0 .. clock /\ fetchedAt <= call.start
      /\ cache.loaded => lastForce = call.start \/ call.start - fetchedAt >= MinForce
  BY <1>1 DEF IInv, CacheTypeOK, Call, FetchIsSpread, Fetching
<1>4. CacheTypeOK'
  BY <1>1, <1>2, <1>3, JwksCacheAssumption DEF Receive, IInv, CacheTypeOK, Call, Never
<1>5. CacheIsCurrent' /\ AnswerIsCurrent' /\ CallNamesKey' /\ FetchIsSpread'
  BY <1>1, <1>2
  DEF IInv, CacheIsCurrent, AnswerIsCurrent, CallNamesKey, FetchIsSpread, Since, Fetching
<1>6. ForceIsCounted'
  BY <1>1, <1>3 DEF IInv, CacheTypeOK, ForceIsCounted
<1>7. CacheIsSpread'
  BY <1>1, <1>3, JwksCacheAssumption DEF Receive, IInv, CacheTypeOK, CacheIsSpread, Never
<1> QED
  BY <1>4, <1>5, <1>6, <1>7 DEF IInv

LEMMA FetchFailsKeeps == IInv /\ FetchFails => IInv'
<1> SUFFICES ASSUME IInv, FetchFails PROVE IInv'
  OBVIOUS
<1>1. /\ clock' = clock /\ published' = published /\ changed' = changed /\ cache' = cache
      /\ fetchedAt' = fetchedAt /\ lastForce' = lastForce /\ previous' = previous
      /\ failedAt' = clock
  BY DEF FetchFails, provider
<1>2. call' \in Call' /\ call'.pc = "failed"
  <2>1. NoCall \in Call /\ Call' = Call
    BY <1>1, NoCallIsCall DEF IInv
  <2>2. call' = [NoCall EXCEPT !.pc = "failed"]
    BY DEF FetchFails
  <2>3. call' \in Call
    BY <2>1, <2>2 DEF Call, Pcs
  <2> QED
    BY <2>1, <2>2, <2>3 DEF NoCall
<1> QED
  BY <1>1, <1>2, JwksCacheAssumption
  DEF IInv, CacheTypeOK, CacheIsCurrent, AnswerIsCurrent, ForceIsCounted, CacheIsSpread,
      FetchIsSpread, CallNamesKey, Since, Fetching

LEMMA ReturnKeeps == IInv /\ Return => IInv'
  BY JwksCacheAssumption
  DEF Return, provider, history, IInv, CacheTypeOK, CacheIsCurrent, AnswerIsCurrent, ForceIsCounted,
      CacheIsSpread, FetchIsSpread, CallNamesKey, NoCall, Since, Call, Pcs, Fetching, Never

\* The invariant holds in every reachable state.
THEOREM Invariance == CacheSpec => []IInv
<1>1. CacheInit => IInv
  BY InitInvariant
<1>2. IInv /\ [CacheNext]_cacheVars => IInv'
  <2> SUFFICES ASSUME IInv, [CacheNext]_cacheVars PROVE IInv'
    OBVIOUS
  <2>1. CASE CacheTick
    BY <2>1, TickKeeps
  <2>2. CASE Restart
    BY <2>2, RestartKeeps
  <2>3. ASSUME NEW k \in Kids, Rotate(k) PROVE IInv'
    BY <2>3, RotateKeeps
  <2>4. ASSUME NEW k \in Kids, Verify(k) PROVE IInv'
    BY <2>4, GetKeeps DEF Verify, Fetching
  <2>5. CASE AskAgain
    <3>1. call.kid \in Kids
      BY <2>5 DEF AskAgain, IInv, CallNamesKey
    <3> QED
      BY <2>5, <3>1, GetKeeps DEF AskAgain, Fetching
  <2>6. CASE ProviderAnswers
    BY <2>6, ProviderAnswersKeeps
  <2>7. CASE Receive
    BY <2>7, ReceiveKeeps
  <2>8. CASE FetchFails
    BY <2>8, FetchFailsKeeps
  <2>9. CASE Return
    BY <2>9, ReturnKeeps
  <2>10. CASE UNCHANGED cacheVars
    BY <2>10
    DEF cacheVars, IInv, CacheTypeOK, CacheIsCurrent, AnswerIsCurrent, ForceIsCounted, CacheIsSpread,
        FetchIsSpread, CallNamesKey, Since, Call
  <2> QED
    BY <2>1, <2>2, <2>3, <2>4, <2>5, <2>6, <2>7, <2>8, <2>9, <2>10 DEF CacheNext
<1> QED
  BY <1>1, <1>2, PTL DEF CacheSpec

---------------------------------------------------------------------------
(* The properties of JwksCache.                                            *)

\* Every variable of the key cache keeps its type, for any keys and intervals.
THEOREM TypeCorrect == CacheSpec => []CacheTypeOK
<1>1. IInv => CacheTypeOK
  BY DEF IInv
<1> QED
  BY Invariance, <1>1, PTL

\* Only a judgement of the cached keys or of an answer makes a verdict.
LEMMA VerdictSteps ==
  ASSUME IInv, [CacheNext]_cacheVars, NEW pc \in {"accepted", "refused"}, Becomes(pc)
  PROVE  \/ \E kid \in Kids, forced \in BOOLEAN :
              /\ call.pc \notin Fetching /\ ~Expired /\ ~(forced /\ MayForce)
              /\ Judge(kid, forced, cache.keys)
         \/ Receive
<1>1. ~(\/ CacheTick \/ Restart \/ ProviderAnswers \/ FetchFails \/ Return \/ UNCHANGED cacheVars
        \/ \E k \in Kids : Rotate(k))
  <2>1. call' # call
    BY DEF Becomes
  <2>2. ~(CacheTick \/ UNCHANGED cacheVars \/ \E k \in Kids : Rotate(k))
    BY <2>1 DEF CacheTick, cacheVars, Rotate
  <2>3. ~(Restart \/ Return)
    BY DEF Becomes, Restart, Return, NoCall
  <2>4. ~FetchFails
    BY DEF Becomes, FetchFails, NoCall
  <2>5. ~ProviderAnswers
    BY DEF Becomes, ProviderAnswers, IInv, CacheTypeOK, Call
  <2> QED
    BY <2>2, <2>3, <2>4, <2>5
<1>2. ASSUME NEW k \in Kids, NEW forced \in BOOLEAN, Get(k, forced), call.pc \notin Fetching
      PROVE  /\ ~Expired /\ ~(forced /\ MayForce)
             /\ Judge(k, forced, cache.keys)
  BY <1>2 DEF Becomes, Get, StartFetch
<1>3. ASSUME NEW k \in Kids, Verify(k)
      PROVE  /\ call.pc \notin Fetching /\ ~Expired /\ ~(FALSE /\ MayForce)
             /\ Judge(k, FALSE, cache.keys)
  BY <1>2, <1>3 DEF Verify, Fetching
<1>4. CASE AskAgain
  <2>1. call.kid \in Kids /\ call.pc \notin Fetching
    BY <1>4 DEF AskAgain, IInv, CallNamesKey, Fetching
  <2> QED
    BY <1>2, <1>4, <2>1 DEF AskAgain
<1> QED
  BY <1>1, <1>3, <1>4 DEF CacheNext

\* A withdrawn key is accepted for a TTL after its withdrawal at most.
THEOREM WithdrawnKeysExpire == CacheSpec => WithdrawnKeyExpires
<1>1. IInv /\ [CacheNext]_cacheVars =>
        [Becomes("accepted") =>
           call'.kid \in published \/ clock - changed[call'.kid] <= Ttl]_cacheVars
  <2> SUFFICES ASSUME IInv, [CacheNext]_cacheVars, Becomes("accepted"), call'.kid \notin published
               PROVE  clock - changed[call'.kid] <= Ttl
    OBVIOUS
  <2>1. CASE \E kid \in Kids, forced \in BOOLEAN :
               /\ call.pc \notin Fetching /\ ~Expired /\ ~(forced /\ MayForce)
               /\ Judge(kid, forced, cache.keys)
    <3>1. PICK kid \in Kids, forced \in BOOLEAN : ~Expired /\ Judge(kid, forced, cache.keys)
      BY <2>1
    <3>2. call'.kid = kid /\ kid \in cache.keys
      BY <3>1 DEF Judge, Becomes, NoCall
    <3> QED
      BY <3>1, <3>2, JwksCacheAssumption DEF Expired, IInv, CacheIsCurrent, Since, CacheTypeOK
  <2>2. CASE Receive
    <3>1. call.pc = "fetched" /\ call'.kid = call.kid /\ call.kid \in call.keys
      BY <2>2 DEF Receive, Judge, Becomes, NoCall
    <3>2. call.kid \in Kids /\ clock - call.start <= MaxFetch /\ call.start \in 0 .. clock
      BY <3>1 DEF IInv, CallNamesKey, FetchIsSpread, Fetching, CacheTypeOK, Call
    <3> QED
      BY <3>1, <3>2, JwksCacheAssumption DEF IInv, AnswerIsCurrent, Since, CacheTypeOK
  <2> QED
    BY <2>1, <2>2, VerdictSteps
<1> QED
  BY <1>1, Invariance, PTL DEF CacheSpec, WithdrawnKeyExpires

\* A token is refused for its key only if the key is not published, is newer
\* than the interval of forced fetches, or a fetch failed within that interval.
THEOREM NewKeysAreAcceptedSoon == CacheSpec => NewKeyIsAcceptedSoon
<1>1. IInv /\ [CacheNext]_cacheVars =>
        [Becomes("refused") =>
           \/ call'.kid \notin published
           \/ clock - changed[call'.kid] < MinForce
           \/ clock - failedAt < MinForce]_cacheVars
  <2> SUFFICES ASSUME IInv, [CacheNext]_cacheVars, Becomes("refused"), call'.kid \in published
               PROVE  \/ clock - changed[call'.kid] < MinForce
                      \/ clock - failedAt < MinForce
    OBVIOUS
  <2>1. CASE \E kid \in Kids, forced \in BOOLEAN :
               /\ call.pc \notin Fetching /\ ~Expired /\ ~(forced /\ MayForce)
               /\ Judge(kid, forced, cache.keys)
    <3>1. PICK kid \in Kids, forced \in BOOLEAN :
            /\ call.pc \notin Fetching /\ ~Expired /\ ~(forced /\ MayForce)
            /\ Judge(kid, forced, cache.keys)
      BY <2>1
    <3>2. call'.kid = kid /\ kid \notin cache.keys /\ forced
      BY <3>1 DEF Judge, Becomes, NoCall
    <3>3. clock - lastForce < MinForce
      BY <3>1, <3>2, JwksCacheAssumption DEF MayForce, IInv, CacheTypeOK
    <3>4. changed[kid] >= fetchedAt /\ changed[kid] \in 0 .. clock
      BY <3>1, <3>2 DEF Expired, IInv, CacheIsCurrent, Since, CacheTypeOK
    <3>5. lastForce <= fetchedAt \/ lastForce <= failedAt
      BY <3>1 DEF IInv, ForceIsCounted
    <3> QED
      BY <3>2, <3>3, <3>4, <3>5, JwksCacheAssumption DEF IInv, CacheTypeOK, Never
  <2>2. CASE Receive
    <3>1. call.pc = "fetched" /\ call'.kid = call.kid /\ call.kid \notin call.keys
      BY <2>2 DEF Receive, Judge, Becomes, NoCall
    <3>2. call.kid \in Kids /\ clock - call.start <= MaxFetch /\ call.start \in 0 .. clock
      BY <3>1 DEF IInv, CallNamesKey, FetchIsSpread, Fetching, CacheTypeOK, Call
    <3> QED
      BY <3>1, <3>2, JwksCacheAssumption DEF IInv, AnswerIsCurrent, Since, CacheTypeOK
  <2> QED
    BY <2>1, <2>2, VerdictSteps
<1> QED
  BY <1>1, Invariance, PTL DEF CacheSpec, NewKeyIsAcceptedSoon

\* Of any three fetches that succeed in a row, the last begins an interval of
\* forced fetches after the first, or later.
THEOREM FetchesSpread == CacheSpec => FetchesAreSpread
<1>1. IInv /\ [CacheNext]_cacheVars => [Receive => call.start - previous >= MinForce]_cacheVars
  BY DEF Receive, IInv, FetchIsSpread, Fetching
<1> QED
  BY <1>1, Invariance, PTL DEF CacheSpec, FetchesAreSpread
=============================================================================
