---------------------------- MODULE RateLimiter ----------------------------
(***************************************************************************)
(* SlidingWindowRateLimiter of shared/rate_limit.py, called by the threads *)
(* of one worker process.                                                  *)
(*                                                                         *)
(* A caller reads the clock BEFORE it takes the lock, so that stamps reach *)
(* a bucket late and out of order.  MaxDelay bounds how many ticks pass    *)
(* between the two.                                                        *)
(***************************************************************************)
EXTENDS WorkerClock, Sequences

CONSTANTS Threads, Keys, MaxHits, Window, MaxDelay

ASSUME RateLimiterAssumption ==
  /\ MaxHits \in Nat \ {0}
  /\ Window \in Nat \ {0}
  /\ MaxDelay \in Nat
  /\ MaxTime \in Nat

VARIABLES
  hits,     \* _hits: the stamps in the bucket of each key
  thread,   \* what each thread waits for the lock to do
  granted   \* when each key's hits were granted since its last reset

limiterVars == <<clock, hits, thread, granted>>

Waiting == [op : {"hit", "check"}, key : Keys, now : 0 .. clock]
NotWaiting == [op |-> "none"]

LimiterTypeOK ==
  /\ clock   \in 0 .. MaxTime
  /\ hits    \in [Keys -> Seq(0 .. clock)]
  /\ thread  \in [Threads -> Waiting \union {NotWaiting}]
  /\ granted \in [Keys -> Seq(0 .. clock)]

LimiterInit ==
  /\ clock   = 0
  /\ hits    = [k \in Keys |-> <<>>]
  /\ thread  = [t \in Threads |-> NotWaiting]
  /\ granted = [k \in Keys |-> <<>>]

\* Nobody waits for the lock longer than MaxDelay.
LimiterTick ==
  /\ clock < MaxTime
  /\ \A t \in Threads : thread[t] # NotWaiting => clock - thread[t].now < MaxDelay
  /\ clock' = clock + 1
  /\ UNCHANGED <<hits, thread, granted>>

\* Entry of check and hit: now = time.monotonic().
Enter(t, op, k) ==
  /\ thread[t] = NotWaiting
  /\ thread' = [thread EXCEPT ![t] = [op |-> op, key |-> k, now |-> clock]]
  /\ UNCHANGED <<clock, hits, granted>>

KeepAll(bucket, cutoff) == bucket

KeepTooFew(bucket, cutoff) ==
  LET first == CHOOSE n \in 1 .. Len(bucket) + 1 :
                 /\ n = Len(bucket) + 1 \/ bucket[n] > cutoff + 1
                 /\ \A m \in 1 .. n - 1 : bucket[m] <= cutoff + 1
  IN  SubSeq(bucket, first, Len(bucket))

\* The bucket without the stamps popped from its front, up to the first that is
\* later than the cutoff.
Kept(bucket, cutoff) ==
  LET first == CHOOSE n \in 1 .. Len(bucket) + 1 :
                 /\ n = Len(bucket) + 1 \/ bucket[n] > cutoff
                 /\ \A m \in 1 .. n - 1 : bucket[m] <= cutoff
  IN  SubSeq(bucket, first, Len(bucket))

Pruned(t) == Kept(hits[thread[t].key], thread[t].now - Window)

Overfull(bucket) == Len(bucket) > MaxHits

Full(bucket) == Len(bucket) >= MaxHits

Leave(t) == thread' = [thread EXCEPT ![t] = NotWaiting]

CheckLocked(t) ==
  /\ thread[t].op = "check"
  /\ hits' = [hits EXCEPT ![thread[t].key] = Pruned(t)]
  /\ Leave(t)
  /\ UNCHANGED <<clock, granted>>

Refuse(t) ==
  /\ thread[t].op = "hit"
  /\ Full(Pruned(t))
  /\ hits' = [hits EXCEPT ![thread[t].key] = Pruned(t)]
  /\ Leave(t)
  /\ UNCHANGED <<clock, granted>>

GrantUntilExpiry(t) ==
  /\ thread[t].op = "hit"
  /\ ~Full(Pruned(t))
  /\ hits' = [hits EXCEPT ![thread[t].key] = Append(Pruned(t), thread[t].now + Window)]
  /\ granted' = [granted EXCEPT ![thread[t].key] = Append(@, clock)]
  /\ Leave(t)
  /\ UNCHANGED clock

Grant(t) ==
  /\ thread[t].op = "hit"
  /\ ~Full(Pruned(t))
  /\ hits' = [hits EXCEPT ![thread[t].key] = Append(Pruned(t), thread[t].now)]
  /\ granted' = [granted EXCEPT ![thread[t].key] = Append(@, clock)]
  /\ Leave(t)
  /\ UNCHANGED clock

\* One key, or every key.
Reset(keys) ==
  /\ hits'    = [k \in Keys |-> IF k \in keys THEN <<>> ELSE hits[k]]
  /\ granted' = [k \in Keys |-> IF k \in keys THEN <<>> ELSE granted[k]]
  /\ UNCHANGED <<clock, thread>>

LimiterNext ==
  \/ LimiterTick
  \/ \E t \in Threads :
       \/ \E op \in {"hit", "check"}, k \in Keys : Enter(t, op, k)
       \/ CheckLocked(t) \/ Refuse(t) \/ Grant(t)
  \/ \E keys \in {{k} : k \in Keys} \union {Keys} : Reset(keys)

LimiterSpec == LimiterInit /\ [][LimiterNext]_limiterVars

---------------------------------------------------------------------------
(* Properties.                                                             *)

\* Nobody is late for the lock by more than MaxDelay.
OnTime ==
  \A t \in Threads : thread[t] # NotWaiting => clock - thread[t].now <= MaxDelay

\* A bucket never holds more stamps than the limit, whatever order its callers
\* pruned and appended in.
BucketBound == \A k \in Keys : Len(hits[k]) <= MaxHits

Follows(bucket, grants, time) ==
  LET gone == Len(grants) - Len(bucket)
  IN  /\ gone >= 0
      /\ \A i \in 1 .. Len(bucket) :
           bucket[i] <= grants[gone + i] /\ grants[gone + i] <= bucket[i] + MaxDelay
      /\ \A n \in 1 .. gone : grants[n] <= time - Window + MaxDelay

\* A bucket is the stamps of the last grants of its key, each as old as its
\* grant or by a lock wait older; the grants whose stamps are gone are, up to
\* that wait, a window ago.
BucketFollowsGrants == \A k \in Keys : Follows(hits[k], granted[k], clock)

\* Of any MaxHits + 1 grants in a row, the last comes `span` after the first.
Spread(grants, span) ==
  \A n \in 1 .. Len(grants) - MaxHits : grants[n + MaxHits] - grants[n] >= span

\* The limit holds for windows shorter by the time a caller waits for the lock.
GrantsAreSpread == \A k \in Keys : Spread(granted[k], Window - MaxDelay)

\* The docstring of the class: "Allow at most max_hits events per window_sec for
\* a given key" (shared/rate_limit.py, line 17).
AtMostMaxHitsPerWindow == \A k \in Keys : Spread(granted[k], Window)

\* A caller is refused only when the last MaxHits grants are all recent: stale
\* stamps that stay behind a later one, and late callers, which prune less, may
\* stretch the window by a lock wait and no more.
RefusalIsJustified ==
  [][ \A t \in Threads : Refuse(t) =>
        LET g == granted[thread[t].key]
        IN  /\ Len(g) >= MaxHits
            /\ g[Len(g) - MaxHits + 1] > clock - Window - MaxDelay ]_limiterVars
=============================================================================
