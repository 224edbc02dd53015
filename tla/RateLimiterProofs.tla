------------------------- MODULE RateLimiterProofs -------------------------
(***************************************************************************)
(* Proofs about the rate limiter, for every number of threads and keys,    *)
(* limit, window and lock wait.                                            *)
(***************************************************************************)
EXTENDS RateLimiter, SequenceTheorems, WellFoundedInduction, TLAPS

\* Every nonempty set of naturals has a least element.
LEMMA LeastNat ==
  ASSUME NEW T, T \subseteq Nat, T # {}
  PROVE  \E x \in T : \A y \in T : x <= y
<1>0. OpToRel(<, Nat) = {ss \in Nat \X Nat : ss[1] < ss[2]}
  BY Zenon DEF OpToRel
<1>1. PICK x \in T : \A y \in T : ~ (<<y, x>> \in {ss \in Nat \X Nat : ss[1] < ss[2]})
  BY <1>0, WFMin, NatLessThanWellFounded
<1>2. ASSUME NEW y \in T, ~ (x <= y)  PROVE FALSE
  <2>1. x \in Nat /\ y \in Nat /\ y < x
    BY <1>2
  <2>2. <<y, x>> \in {ss \in Nat \X Nat : ss[1] < ss[2]}
    BY <2>1
  <2> QED BY <1>1, <2>2
<1> QED BY <1>2

\* What pruning a bucket leaves: a suffix, the stamps before which are all at
\* or before the cutoff, and whose first is later than it.
LEMMA KeptProperties ==
  ASSUME NEW b \in Seq(Int), NEW cutoff \in Int
  PROVE  \E f \in 1 .. Len(b) + 1 :
           /\ Kept(b, cutoff) = SubSeq(b, f, Len(b))
           /\ f = Len(b) + 1 \/ b[f] > cutoff
           /\ \A m \in 1 .. f - 1 : b[m] <= cutoff
<1> DEFINE T == {n \in 1 .. Len(b) + 1 : n = Len(b) + 1 \/ b[n] > cutoff}
<1> DEFINE IsFirst(n) == /\ n = Len(b) + 1 \/ b[n] > cutoff
                         /\ \A m \in 1 .. n - 1 : b[m] <= cutoff
<1>0. Len(b) \in Nat
  BY LenProperties
<1>1. T \subseteq Nat /\ Len(b) + 1 \in T
  BY <1>0
<1>2. PICK f \in T : \A y \in T : f <= y
  <2> HIDE DEF T
  <2> QED BY <1>1, LeastNat
<1>3. f \in 1 .. Len(b) + 1 /\ IsFirst(f)
  <2>1. f \in 1 .. Len(b) + 1 /\ (f = Len(b) + 1 \/ b[f] > cutoff)
    BY <1>2
  <2>2. ASSUME NEW m \in 1 .. f - 1  PROVE b[m] <= cutoff
    <3>1. m \notin T /\ m \in 1 .. Len(b)
      BY <1>0, <1>2, <2>1
    <3>2. b[m] \in Int
      BY <3>1, ElementOfSeq
    <3> QED BY <3>1, <3>2, <1>0
  <2> QED BY <2>1, <2>2
<1>4. Kept(b, cutoff) = SubSeq(b, CHOOSE n \in 1 .. Len(b) + 1 : IsFirst(n), Len(b))
  BY DEF Kept
<1>5. PICK c \in 1 .. Len(b) + 1 : /\ IsFirst(c)
                                   /\ c = CHOOSE n \in 1 .. Len(b) + 1 : IsFirst(n)
  <2> HIDE DEF IsFirst
  <2> QED BY <1>3
<1> QED BY <1>4, <1>5

---------------------------------------------------------------------------
(* How a bucket follows its grants through each change.                    *)

LEMMA FollowsLater ==
  ASSUME NEW c \in Nat, NEW b \in Seq(Int), NEW g \in Seq(0 .. c), Follows(b, g, c)
  PROVE  Follows(b, g, c + 1)
<1>1. \A n \in 1 .. Len(g) : g[n] \in 0 .. c
  BY ElementOfSeq
<1>2. Len(b) \in Nat /\ Len(g) \in Nat
  BY LenProperties
<1> QED BY <1>1, <1>2, RateLimiterAssumption DEF Follows

LEMMA StaleGrant ==
  ASSUME NEW time \in Nat, NEW now \in 0 .. time
  PROVE  \A stamp, grant \in Int :
           stamp <= now - Window /\ grant <= stamp + MaxDelay =>
             grant <= time - Window + MaxDelay
  BY RateLimiterAssumption

LEMMA FollowsKept ==
  ASSUME NEW c \in Nat, NEW b \in Seq(0 .. c), NEW g \in Seq(0 .. c),
         NEW now \in 0 .. c, Follows(b, g, c)
  PROVE  /\ Kept(b, now - Window) \in Seq(0 .. c)
         /\ Len(Kept(b, now - Window)) <= Len(b)
         /\ Follows(Kept(b, now - Window), g, c)
<1> DEFINE p == Kept(b, now - Window)
<1>1. /\ b \in Seq(Int) /\ now - Window \in Int
      /\ Len(b) \in Nat /\ Len(g) \in Nat
  BY SeqMonotonic, LenProperties, RateLimiterAssumption
<1>2. PICK f \in 1 .. Len(b) + 1 :
           /\ p = SubSeq(b, f, Len(b))
           /\ \A m \in 1 .. f - 1 : b[m] <= now - Window
  BY <1>1, KeptProperties
<1>3. /\ \A i \in 1 .. Len(b) : b[i] \in 0 .. c
      /\ \A n \in 1 .. Len(g) : g[n] \in 0 .. c
  BY ElementOfSeq
<1> HIDE DEF p
<1>4. /\ p \in Seq(0 .. c)
      /\ Len(p) = Len(b) - f + 1
      /\ \A i \in 1 .. Len(b) - f + 1 : p[i] = b[f + i - 1]
  <2>1. \A i \in f .. Len(b) : b[i] \in 0 .. c
    BY <1>1, <1>3
  <2>2. /\ SubSeq(b, f, Len(b)) \in Seq(0 .. c)
        /\ Len(SubSeq(b, f, Len(b))) = IF f <= Len(b) THEN Len(b) - f + 1 ELSE 0
        /\ \A i \in 1 .. Len(b) - f + 1 : SubSeq(b, f, Len(b))[i] = b[f + i - 1]
    BY <1>1, <2>1, SubSeqProperties
  <2>3. (IF f <= Len(b) THEN Len(b) - f + 1 ELSE 0) = Len(b) - f + 1
    BY <1>1
  <2> QED BY <1>2, <2>2, <2>3
<1>5. Follows(p, g, c)
  <2> DEFINE gone == Len(g) - Len(b)
  <2>1. /\ gone >= 0
        /\ \A i \in 1 .. Len(b) : b[i] <= g[gone + i] /\ g[gone + i] <= b[i] + MaxDelay
        /\ \A n \in 1 .. gone : g[n] <= c - Window + MaxDelay
    BY DEF Follows
  <2>2. Len(g) - Len(p) = gone + f - 1
    BY <1>1, <1>4
  <2>3. ASSUME NEW i \in 1 .. Len(p)
        PROVE  p[i] <= g[gone + f - 1 + i] /\ g[gone + f - 1 + i] <= p[i] + MaxDelay
    <3>1. f + i - 1 \in 1 .. Len(b) /\ p[i] = b[f + i - 1]
      BY <1>1, <1>4
    <3>2. gone + (f + i - 1) = gone + f - 1 + i
      BY <1>1
    <3> QED BY <2>1, <3>1, <3>2
  <2>4. ASSUME NEW n \in 1 .. gone + f - 1  PROVE g[n] <= c - Window + MaxDelay
    <3>1. CASE n <= gone
      BY <1>1, <2>1, <3>1
    <3>2. CASE n > gone
      <4>0. n - gone \in 1 .. f - 1 /\ gone + (n - gone) = n
        BY <1>1, <3>2
      <4>1. PICK m \in 1 .. f - 1 : gone + m = n
        BY <4>0
      <4>2. m \in 1 .. Len(b) /\ n \in 1 .. Len(g)
        BY <1>1, <2>1, <4>1
      <4>3. b[m] <= now - Window /\ g[n] <= b[m] + MaxDelay
        BY <1>2, <2>1, <4>1, <4>2
      <4>4. b[m] \in Int /\ g[n] \in Int
        BY <1>3, <4>2
      <4>5. \A stamp, grant \in Int :
              stamp <= now - Window /\ grant <= stamp + MaxDelay =>
                grant <= c - Window + MaxDelay
        BY StaleGrant
      <4> QED BY <4>3, <4>4, <4>5
    <3> QED BY <1>1, <3>1, <3>2
  <2>5. gone + f - 1 >= 0 /\ gone \in Int
    BY <1>1, <2>1
  <2> HIDE DEF gone
  <2> QED BY <2>2, <2>3, <2>4, <2>5 DEF Follows
<1> QED BY <1>1, <1>4, <1>5 DEF p

LEMMA FollowsAppended ==
  ASSUME NEW c \in Nat, NEW b \in Seq(0 .. c), NEW g \in Seq(0 .. c),
         NEW now \in 0 .. c, c - now <= MaxDelay, Follows(b, g, c)
  PROVE  Follows(Append(b, now), Append(g, c), c)
<1> DEFINE bb == Append(b, now)
<1> DEFINE gg == Append(g, c)
<1> DEFINE gone == Len(g) - Len(b)
<1>1. Len(b) \in Nat /\ Len(g) \in Nat
  BY LenProperties
<1>2. /\ Len(bb) = Len(b) + 1 /\ bb[Len(b) + 1] = now
      /\ \A i \in 1 .. Len(b) : bb[i] = b[i]
  BY AppendProperties
<1>3. /\ Len(gg) = Len(g) + 1 /\ gg[Len(g) + 1] = c
      /\ \A i \in 1 .. Len(g) : gg[i] = g[i]
  BY AppendProperties
<1> HIDE DEF bb, gg
<1>4. Len(gg) - Len(bb) = gone /\ gone >= 0
  BY <1>1, <1>2, <1>3 DEF Follows
<1>5. ASSUME NEW i \in 1 .. Len(bb)
      PROVE  bb[i] <= gg[gone + i] /\ gg[gone + i] <= bb[i] + MaxDelay
  <2>1. CASE i = Len(b) + 1
    <3>1. gone + i = Len(g) + 1
      BY <1>1, <2>1
    <3>2. bb[i] = now /\ gg[gone + i] = c
      BY <1>2, <1>3, <2>1, <3>1
    <3> QED BY <3>2, RateLimiterAssumption
  <2>2. CASE i \in 1 .. Len(b)
    <3>1. gone + i \in 1 .. Len(g)
      BY <1>1, <1>4, <2>2
    <3>2. bb[i] = b[i] /\ gg[gone + i] = g[gone + i]
      BY <1>2, <1>3, <2>2, <3>1
    <3> QED BY <2>2, <3>2 DEF Follows
  <2> QED BY <1>1, <1>2, <2>1, <2>2
<1>6. ASSUME NEW n \in 1 .. gone  PROVE gg[n] <= c - Window + MaxDelay
  <2>1. n \in 1 .. Len(g)
    BY <1>1, <1>4
  <2> QED BY <1>3, <2>1 DEF Follows
<1> QED BY <1>4, <1>5, <1>6 DEF Follows, bb, gg

\* A grant made with fewer than MaxHits stamps in the bucket keeps the spread:
\* the stamp of the grant MaxHits before it is gone.
LEMMA SpreadAppended ==
  ASSUME NEW c \in Nat, NEW b \in Seq(0 .. c), NEW g \in Seq(0 .. c),
         Follows(b, g, c), Len(b) < MaxHits, Spread(g, Window - MaxDelay)
  PROVE  Spread(Append(g, c), Window - MaxDelay)
<1> DEFINE gg == Append(g, c)
<1>1. Len(b) \in Nat /\ Len(g) \in Nat
  BY LenProperties
<1>2. /\ Len(gg) = Len(g) + 1 /\ gg[Len(g) + 1] = c
      /\ \A i \in 1 .. Len(g) : gg[i] = g[i]
  BY AppendProperties
<1>3. \A n \in 1 .. Len(g) : g[n] \in 0 .. c
  BY ElementOfSeq
<1> HIDE DEF gg
<1>4. ASSUME NEW n \in 1 .. Len(g) + 1 - MaxHits
      PROVE  gg[n + MaxHits] - gg[n] >= Window - MaxDelay
  <2>1. n \in 1 .. Len(g) /\ gg[n] = g[n]
    BY <1>1, <1>2, RateLimiterAssumption
  <2>2. CASE n + MaxHits = Len(g) + 1
    <3>1. n \in 1 .. Len(g) - Len(b)
      BY <1>1, <2>1, <2>2, RateLimiterAssumption
    <3>2. g[n] <= c - Window + MaxDelay
      BY <3>1 DEF Follows
    <3> QED BY <1>2, <1>3, <2>1, <2>2, <3>2, RateLimiterAssumption
  <2>3. CASE n + MaxHits <= Len(g)
    <3>1. n \in 1 .. Len(g) - MaxHits /\ n + MaxHits \in 1 .. Len(g)
      BY <1>1, <2>1, <2>3, RateLimiterAssumption
    <3> QED BY <1>2, <2>1, <3>1 DEF Spread
  <2> QED BY <1>1, <2>2, <2>3, RateLimiterAssumption
<1>5. Len(gg) - MaxHits = Len(g) + 1 - MaxHits
  BY <1>1, <1>2, RateLimiterAssumption
<1>6. Spread(gg, Window - MaxDelay)
  BY <1>4, <1>5 DEF Spread
<1> QED BY <1>6 DEF gg

---------------------------------------------------------------------------
(* The inductive invariant.  The spread of the grants does not follow from *)
(* the bound on a bucket: it needs to know which grants the bucket still   *)
(* stands for, and how late their stamps can be.                           *)

IInv ==
  /\ LimiterTypeOK
  /\ OnTime
  /\ BucketBound
  /\ BucketFollowsGrants
  /\ GrantsAreSpread

\* What a thread that takes the lock finds in its bucket after pruning it.
LEMMA CallerProperties ==
  ASSUME LimiterTypeOK, OnTime, BucketFollowsGrants,
         NEW t \in Threads, thread[t].op \in {"hit", "check"}
  PROVE  /\ thread[t].key \in Keys /\ thread[t].now \in 0 .. clock
         /\ clock - thread[t].now <= MaxDelay
         /\ Pruned(t) \in Seq(0 .. clock)
         /\ Len(Pruned(t)) <= Len(hits[thread[t].key])
         /\ Follows(Pruned(t), granted[thread[t].key], clock)
<1>1. /\ thread[t] # NotWaiting
      /\ thread[t].key \in Keys /\ thread[t].now \in 0 .. clock
  BY DEF LimiterTypeOK, Waiting, NotWaiting
<1>2. clock - thread[t].now <= MaxDelay
  BY <1>1 DEF OnTime
<1>3. /\ clock \in Nat
      /\ hits[thread[t].key] \in Seq(0 .. clock)
      /\ granted[thread[t].key] \in Seq(0 .. clock)
      /\ Follows(hits[thread[t].key], granted[thread[t].key], clock)
  BY <1>1, RateLimiterAssumption DEF LimiterTypeOK, BucketFollowsGrants
<1> QED BY <1>1, <1>2, <1>3, FollowsKept DEF Pruned

LEMMA InitIInv == LimiterInit => IInv
<1> SUFFICES ASSUME LimiterInit PROVE IInv
  OBVIOUS
<1>1. <<>> \in Seq(0 .. 0) /\ Len(<<>>) = 0
  BY EmptySeq
<1>2. clock = 0 /\ (\A k \in Keys : hits[k] = <<>> /\ granted[k] = <<>>)
  BY DEF LimiterInit
<1>3. LimiterTypeOK
  BY <1>1, RateLimiterAssumption DEF LimiterInit, LimiterTypeOK
<1>4. OnTime
  BY DEF LimiterInit, OnTime
<1>5. BucketBound /\ GrantsAreSpread
  BY <1>1, <1>2, RateLimiterAssumption DEF BucketBound, GrantsAreSpread, Spread
<1>6. BucketFollowsGrants
  <2>1. Follows(<<>>, <<>>, 0)
    BY <1>1 DEF Follows
  <2> QED BY <1>2, <2>1 DEF BucketFollowsGrants
<1> QED BY <1>3, <1>4, <1>5, <1>6 DEF IInv

LEMMA StepIInv == IInv /\ [LimiterNext]_limiterVars => IInv'
<1> SUFFICES ASSUME IInv, [LimiterNext]_limiterVars PROVE IInv'
  OBVIOUS
<1> USE DEF IInv
<1>0. clock \in Nat /\ MaxDelay \in Nat /\ MaxHits \in Nat \ {0}
  BY RateLimiterAssumption DEF LimiterTypeOK
<1>1. CASE LimiterTick
  <2>1. /\ clock' = clock + 1 /\ clock' \in 0 .. MaxTime
        /\ UNCHANGED <<hits, thread, granted>>
    BY <1>0, <1>1, RateLimiterAssumption DEF LimiterTick, LimiterTypeOK
  <2>2. LimiterTypeOK'
    <3>1. 0 .. clock \subseteq 0 .. clock'
      BY <1>0, <2>1
    <3>2. Seq(0 .. clock) \subseteq Seq(0 .. clock')
      BY <3>1, SeqMonotonic
    <3>3. hits' \in [Keys -> Seq(0 .. clock')] /\ granted' \in [Keys -> Seq(0 .. clock')]
      BY <2>1, <3>2 DEF LimiterTypeOK
    <3>4. thread' \in [Threads -> Waiting' \union {NotWaiting}]
      BY <2>1, <3>1 DEF LimiterTypeOK, Waiting
    <3> QED BY <2>1, <3>3, <3>4 DEF LimiterTypeOK
  <2>3. OnTime'
    <3> SUFFICES ASSUME NEW t \in Threads, thread'[t] # NotWaiting
                 PROVE  clock' - thread'[t].now <= MaxDelay
      BY DEF OnTime, NotWaiting
    <3>1. thread[t].now \in 0 .. clock /\ clock - thread[t].now < MaxDelay
      BY <1>1, <2>1 DEF LimiterTick, LimiterTypeOK, Waiting
    <3> QED BY <1>0, <2>1, <3>1
  <2>4. BucketFollowsGrants'
    <3> SUFFICES ASSUME NEW k \in Keys PROVE Follows(hits[k], granted[k], clock + 1)
      BY <2>1 DEF BucketFollowsGrants
    <3>1. /\ hits[k] \in Seq(Int) /\ granted[k] \in Seq(0 .. clock)
          /\ Follows(hits[k], granted[k], clock)
      BY <1>0, SeqMonotonic DEF LimiterTypeOK, BucketFollowsGrants
    <3> QED BY <1>0, <3>1, FollowsLater
  <2>5. BucketBound' /\ GrantsAreSpread'
    BY <2>1 DEF BucketBound, GrantsAreSpread
  <2> QED BY <2>2, <2>3, <2>4, <2>5
<1>2. ASSUME NEW t \in Threads, NEW op \in {"hit", "check"}, NEW k \in Keys, Enter(t, op, k)
      PROVE  IInv'
  <2>1. UNCHANGED <<clock, hits, granted>>
    BY <1>2 DEF Enter
  <2>2. LimiterTypeOK'
    BY <1>0, <1>2, <2>1 DEF Enter, LimiterTypeOK, Waiting
  <2>3. OnTime'
    BY <1>0, <1>2, <2>1 DEF Enter, LimiterTypeOK, OnTime
  <2>4. BucketBound' /\ BucketFollowsGrants' /\ GrantsAreSpread'
    BY <2>1 DEF BucketBound, BucketFollowsGrants, GrantsAreSpread
  <2> QED BY <2>2, <2>3, <2>4
<1>3. ASSUME NEW t \in Threads, CheckLocked(t) \/ Refuse(t)
      PROVE  IInv'
  <2> DEFINE key == thread[t].key
  <2>1. /\ hits' = [hits EXCEPT ![key] = Pruned(t)]
        /\ thread' = [thread EXCEPT ![t] = NotWaiting]
        /\ UNCHANGED <<clock, granted>>
    BY <1>3 DEF CheckLocked, Refuse, Leave
  <2>2. /\ key \in Keys /\ Pruned(t) \in Seq(0 .. clock)
        /\ Len(Pruned(t)) <= Len(hits[key])
        /\ Follows(Pruned(t), granted[key], clock)
    BY <1>3, CallerProperties DEF CheckLocked, Refuse
  <2>3. LimiterTypeOK'
    BY <2>1, <2>2 DEF LimiterTypeOK, Waiting
  <2>4. OnTime'
    BY <2>1 DEF OnTime, LimiterTypeOK
  <2>5. ASSUME NEW k \in Keys
        PROVE  Len(hits'[k]) <= MaxHits /\ Follows(hits'[k], granted[k], clock)
    <3>1. Len(hits[k]) \in Nat /\ Len(hits[k]) <= MaxHits
      BY LenProperties DEF LimiterTypeOK, BucketBound
    <3>2. CASE k = key
      <4>1. hits'[k] = Pruned(t) /\ Len(Pruned(t)) \in Nat
        BY <2>1, <2>2, <3>2, LenProperties DEF LimiterTypeOK
      <4> QED BY <1>0, <2>2, <3>1, <3>2, <4>1
    <3>3. CASE k # key
      BY <2>1, <3>1, <3>3 DEF LimiterTypeOK, BucketFollowsGrants
    <3> QED BY <3>2, <3>3
  <2>6. BucketBound' /\ BucketFollowsGrants'
    BY <2>1, <2>5 DEF BucketBound, BucketFollowsGrants
  <2>7. GrantsAreSpread'
    BY <2>1 DEF GrantsAreSpread
  <2> QED BY <2>3, <2>4, <2>6, <2>7
<1>4. ASSUME NEW t \in Threads, Grant(t)
      PROVE  IInv'
  <2> DEFINE key == thread[t].key
  <2> DEFINE bb == Append(Pruned(t), thread[t].now)
  <2> DEFINE gg == Append(granted[key], clock)
  <2>1. /\ hits' = [hits EXCEPT ![key] = bb]
        /\ granted' = [granted EXCEPT ![key] = gg]
        /\ thread' = [thread EXCEPT ![t] = NotWaiting]
        /\ UNCHANGED clock
        /\ ~ (Len(Pruned(t)) >= MaxHits)
    BY <1>4 DEF Grant, Leave, Full
  <2>2. /\ key \in Keys /\ Pruned(t) \in Seq(0 .. clock)
        /\ thread[t].now \in 0 .. clock /\ clock - thread[t].now <= MaxDelay
        /\ Follows(Pruned(t), granted[key], clock)
    BY <1>4, CallerProperties DEF Grant
  <2>3. granted[key] \in Seq(0 .. clock) /\ Spread(granted[key], Window - MaxDelay)
    BY <2>2 DEF LimiterTypeOK, GrantsAreSpread
  <2>4. Len(Pruned(t)) \in Nat /\ Len(Pruned(t)) < MaxHits
    BY <1>0, <2>1, <2>2, LenProperties
  <2>5. /\ bb \in Seq(0 .. clock) /\ Len(bb) = Len(Pruned(t)) + 1
        /\ gg \in Seq(0 .. clock)
    BY <1>0, <2>2, <2>3, AppendProperties
  <2>6. Follows(bb, gg, clock)
    BY <1>0, <2>2, <2>3, FollowsAppended
  <2>7. Spread(gg, Window - MaxDelay)
    BY <1>0, <2>2, <2>3, <2>4, SpreadAppended
  <2> HIDE DEF bb, gg
  <2>8. LimiterTypeOK'
    BY <2>1, <2>2, <2>5 DEF LimiterTypeOK, Waiting
  <2>9. OnTime'
    BY <2>1 DEF OnTime, LimiterTypeOK
  <2>10. ASSUME NEW k \in Keys
         PROVE  /\ Len(hits'[k]) <= MaxHits
                /\ Follows(hits'[k], granted'[k], clock)
                /\ Spread(granted'[k], Window - MaxDelay)
    <3>1. CASE k = key
      <4>1. hits'[k] = bb /\ granted'[k] = gg
        BY <2>1, <2>2, <3>1 DEF LimiterTypeOK
      <4> QED BY <1>0, <2>4, <2>5, <2>6, <2>7, <4>1
    <3>2. CASE k # key
      BY <2>1, <3>2 DEF LimiterTypeOK, BucketBound, BucketFollowsGrants, GrantsAreSpread
    <3> QED BY <3>1, <3>2
  <2>11. BucketBound' /\ BucketFollowsGrants' /\ GrantsAreSpread'
    BY <2>1, <2>10 DEF BucketBound, BucketFollowsGrants, GrantsAreSpread
  <2> QED BY <2>8, <2>9, <2>11
<1>5. ASSUME NEW keys \in SUBSET Keys, Reset(keys)
      PROVE  IInv'
  <2>1. /\ UNCHANGED <<clock, thread>>
        /\ hits'    = [k \in Keys |-> IF k \in keys THEN <<>> ELSE hits[k]]
        /\ granted' = [k \in Keys |-> IF k \in keys THEN <<>> ELSE granted[k]]
    BY <1>5 DEF Reset
  <2>2. <<>> \in Seq(0 .. clock) /\ Len(<<>>) = 0
    BY EmptySeq
  <2>3. LimiterTypeOK'
    BY <2>1, <2>2 DEF LimiterTypeOK, Waiting
  <2>4. OnTime'
    BY <2>1 DEF OnTime
  <2>5. Follows(<<>>, <<>>, clock) /\ Spread(<<>>, Window - MaxDelay)
    BY <1>0, <2>2 DEF Follows, Spread
  <2>6. ASSUME NEW k \in Keys
        PROVE  /\ Len(hits'[k]) <= MaxHits
               /\ Follows(hits'[k], granted'[k], clock)
               /\ Spread(granted'[k], Window - MaxDelay)
    <3>1. CASE k \in keys
      BY <1>0, <2>1, <2>2, <2>5, <3>1
    <3>2. CASE k \notin keys
      BY <2>1, <3>2 DEF BucketBound, BucketFollowsGrants, GrantsAreSpread
    <3> QED BY <3>1, <3>2
  <2> QED BY <2>1, <2>3, <2>4, <2>6
        DEF BucketBound, BucketFollowsGrants, GrantsAreSpread
<1>6. CASE UNCHANGED limiterVars
  BY <1>6 DEF limiterVars, LimiterTypeOK, Waiting, OnTime, BucketBound, BucketFollowsGrants, GrantsAreSpread
<1>7. ASSUME NEW keys \in {{k} : k \in Keys} \union {Keys}
      PROVE  keys \in SUBSET Keys
  OBVIOUS
<1> QED BY <1>1, <1>2, <1>3, <1>4, <1>5, <1>6, <1>7 DEF LimiterNext

---------------------------------------------------------------------------
(* Theorems.                                                               *)

LEMMA Invariance == LimiterSpec => []IInv
BY InitIInv, StepIInv, PTL DEF LimiterSpec

\* The state always has its type: no stamp is in the future.
THEOREM TypeCorrect == LimiterSpec => []LimiterTypeOK
<1>1. IInv => LimiterTypeOK
  BY DEF IInv
<1> QED BY <1>1, Invariance, PTL

\* A bucket never exceeds max_hits, however its threads interleave.
THEOREM BucketBounded == LimiterSpec => []BucketBound
<1>1. IInv => BucketBound
  BY DEF IInv
<1> QED BY <1>1, Invariance, PTL

\* A bucket always stands for the last grants of its key.
THEOREM BucketsFollowGrants == LimiterSpec => []BucketFollowsGrants
<1>1. IInv => BucketFollowsGrants
  BY DEF IInv
<1> QED BY <1>1, Invariance, PTL

\* At most max_hits grants in any window shorter than window_sec by the longest
\* wait for the lock.
THEOREM GrantsSpread == LimiterSpec => []GrantsAreSpread
<1>1. IInv => GrantsAreSpread
  BY DEF IInv
<1> QED BY <1>1, Invariance, PTL

\* A refused caller really meets max_hits grants within a window and a lock wait.
THEOREM RefusalsJustified == LimiterSpec => RefusalIsJustified
<1>1. ASSUME IInv, NEW t \in Threads, Refuse(t)
      PROVE  LET g == granted[thread[t].key]
             IN  /\ Len(g) >= MaxHits
                 /\ g[Len(g) - MaxHits + 1] > clock - Window - MaxDelay
  <2> DEFINE key == thread[t].key
  <2> DEFINE b == hits[key]
  <2> DEFINE g == granted[key]
  <2> DEFINE now == thread[t].now
  <2>1. /\ key \in Keys /\ now \in 0 .. clock /\ clock - now <= MaxDelay
        /\ clock \in Nat /\ Window \in Nat /\ MaxDelay \in Nat /\ MaxHits \in Nat \ {0}
    BY <1>1, CallerProperties, RateLimiterAssumption DEF IInv, Refuse, LimiterTypeOK
  <2>2. /\ b \in Seq(0 .. clock) /\ g \in Seq(0 .. clock)
        /\ Len(b) <= MaxHits /\ Follows(b, g, clock)
    BY <1>1, <2>1 DEF IInv, LimiterTypeOK, BucketBound, BucketFollowsGrants
  <2>3. Len(b) \in Nat /\ Len(g) \in Nat /\ b \in Seq(Int)
    BY <2>1, <2>2, LenProperties, SeqMonotonic
  <2>4. PICK f \in 1 .. Len(b) + 1 :
          /\ Pruned(t) = SubSeq(b, f, Len(b))
          /\ f = Len(b) + 1 \/ b[f] > now - Window
    <3>1. now - Window \in Int /\ Pruned(t) = Kept(b, now - Window)
      BY <2>1 DEF Pruned
    <3> HIDE DEF b, now
    <3> QED BY <2>3, <3>1, KeptProperties
  <2>5. Len(Pruned(t)) >= MaxHits
    BY <1>1 DEF Refuse, Full
  <2>6. f = 1 /\ Len(b) = MaxHits
    <3>1. \A i \in f .. Len(b) : b[i] \in Int
      BY <2>3, ElementOfSeq
    <3> HIDE DEF b
    <3>2. Len(Pruned(t)) = IF f <= Len(b) THEN Len(b) - f + 1 ELSE 0
      BY <2>3, <2>4, <3>1, SubSeqProperties
    <3> QED BY <2>1, <2>2, <2>3, <2>5, <3>2
  <2>7. 1 \in 1 .. Len(b) /\ b[1] > now - Window
    BY <2>1, <2>3, <2>4, <2>6
  <2>8. Len(g) >= MaxHits /\ b[1] <= g[Len(g) - MaxHits + 1]
    BY <2>2, <2>3, <2>6, <2>7 DEF Follows
  <2>9. b[1] \in Int /\ g[Len(g) - MaxHits + 1] \in Int
    <3>1. Len(g) - MaxHits + 1 \in 1 .. Len(g)
      BY <2>1, <2>3, <2>8
    <3>2. ASSUME NEW q \in Seq(0 .. clock), NEW i \in 1 .. Len(q)  PROVE q[i] \in Int
      BY <2>1, ElementOfSeq
    <3> HIDE DEF b, g
    <3> QED BY <2>2, <2>7, <3>1, <3>2
  <2> HIDE DEF b, g, now
  <2>10. ASSUME NEW x \in Int, NEW y \in Int, x > now - Window, x <= y
         PROVE  y > clock - Window - MaxDelay
    BY <2>1, <2>10
  <2> QED BY <2>7, <2>8, <2>9, <2>10 DEF g
<1>2. IInv /\ [LimiterNext]_limiterVars =>
        [\A t \in Threads : Refuse(t) =>
           LET g == granted[thread[t].key]
           IN  /\ Len(g) >= MaxHits
               /\ g[Len(g) - MaxHits + 1] > clock - Window - MaxDelay ]_limiterVars
  BY <1>1
<1> QED BY <1>2, Invariance, PTL DEF LimiterSpec, RefusalIsJustified
=============================================================================
