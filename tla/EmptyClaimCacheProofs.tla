------------------------ MODULE EmptyClaimCacheProofs ------------------------
(***************************************************************************)
(* What the version tag of empty_claim_cache.go gives, for every number of *)
(* rows and concurrent claims, all lifetimes, and calls to Redis that may  *)
(* each be lost.                                                           *)
(***************************************************************************)
EXTENDS EmptyClaimCache, TLAPS

LEMMA InitCacheInv == Init => CacheInv
BY CacheAssumption DEF CacheAssumption, Init, CacheInv, TypeOK, ClaimTag, VerdictTag,
   EmptyTag, VerdictOutdated, Idle, Tagged, Stage, At

\* The writers of the queue.  Only an INCR moves the counter, and it moves it
\* past every tag it was not behind.
LEMMA WriterCacheInv ==
  ASSUME CacheInv, NEW t \in Task,
         Enqueue(t) \/ Requeue(t) \/ Bump(t) \/ BumpDropped(t)
  PROVE  CacheInv'
<1> USE CacheAssumption DEF CacheAssumption, CacheInv, counter, verdictKey, At
<1>1. CASE Enqueue(t)
  BY <1>1 DEF Enqueue, BecomeQueued, TypeOK, ClaimTag, VerdictTag, EmptyTag, VerdictOutdated
<1>2. CASE Requeue(t)
  BY <1>2 DEF Requeue, BecomeQueued, TypeOK, ClaimTag, VerdictTag, EmptyTag, VerdictOutdated
<1>3. CASE Bump(t)
  <2>1. TypeOK'
    BY <1>3 DEF Bump, Incr, TypeOK
  <2>2. VerdictTag' /\ VerdictOutdated'
    BY <1>3 DEF Bump, Incr, TypeOK, VerdictTag, VerdictOutdated
  <2>3. ClaimTag' /\ EmptyTag'
    BY <1>3 DEF Bump, Incr, TypeOK, ClaimTag, EmptyTag, Tagged
  <2> QED  BY <2>1, <2>2, <2>3
<1>4. CASE BumpDropped(t)
  BY <1>4 DEF BumpDropped, TypeOK, ClaimTag, VerdictTag, EmptyTag, VerdictOutdated
<1> QED  BY <1>1, <1>2, <1>3, <1>4

\* An EXPIRE, sent or lost, changes no tag.
LEMMA ExpireCacheInv ==
  ASSUME CacheInv, BumpExpire \/ BumpExpireLost
  PROVE  CacheInv'
<1> USE CacheAssumption DEF CacheAssumption, CacheInv, queue, verdictKey
<1>1. versionLeft' \in 0..VersionTTL /\ refreshes' \in Nat
  BY DEF BumpExpire, BumpExpireLost, Expire, TypeOK
<1>2. UNCHANGED <<queue, version, verdictKey, claim>>
  BY DEF BumpExpire, BumpExpireLost
<1> QED  BY <1>1, <1>2 DEF TypeOK, ClaimTag, VerdictTag, EmptyTag, VerdictOutdated, At

\* A claim request, up to its SELECT and afterwards.
LEMMA ServeCacheInv ==
  ASSUME CacheInv, NEW c \in Claimer, Serve(c) \/ IsEmptyErr(c)
  PROVE  CacheInv'
<1> USE CacheAssumption
    DEF CacheAssumption, CacheInv, queue, counter, verdictKey, Advance, Sample, Return, At, Tagged
<1>1. CASE IsEmptyHit(c)
  BY <1>1 DEF IsEmptyHit, vars, TypeOK, ClaimTag, VerdictTag, EmptyTag, VerdictOutdated
<1>2. CASE IsEmptyMiss(c) \/ IsEmptyErr(c)
  BY <1>2 DEF IsEmptyMiss, IsEmptyErr, TypeOK, Stage, ClaimTag, VerdictTag, EmptyTag,
     VerdictOutdated
<1>3. CASE CurrentVersion(c) \/ CurrentVersionErr(c)
  <2>1. PICK stage \in {"got", "sampled"}, v \in 0..version :
          claim' = [claim EXCEPT ![c] = [at |-> stage, v |-> v, of |-> "live"]]
    BY <1>3 DEF CurrentVersion, CurrentVersionErr, TypeOK
  <2>2. UNCHANGED <<queue, counter, verdictKey>>
    BY <1>3 DEF CurrentVersion, CurrentVersionErr
  <2>3. v \in Nat /\ v <= version
    BY DEF TypeOK
  <2>4. TypeOK' /\ VerdictTag' /\ VerdictOutdated'
    BY <2>1, <2>2, <2>3 DEF TypeOK, Stage, VerdictTag, VerdictOutdated
  <2>5. ClaimTag' /\ EmptyTag'
    BY <2>1, <2>2, <2>3 DEF TypeOK, ClaimTag, EmptyTag, Stage
  <2> QED  BY <2>4, <2>5
<1>4. CASE Refresh(c) \/ RefreshErr(c)
  <2>1. TypeOK' /\ VerdictTag' /\ VerdictOutdated'
    BY <1>4 DEF Refresh, RefreshErr, Expire, TypeOK, Stage, VerdictTag, VerdictOutdated
  <2>2. ClaimTag' /\ EmptyTag'
    BY <1>4 DEF Refresh, RefreshErr, Expire, TypeOK, ClaimTag, EmptyTag, Stage
  <2> QED  BY <2>1, <2>2
<1>5. CASE ListQueued(c)
  <2>1. TypeOK' /\ VerdictTag' /\ VerdictOutdated'
    BY <1>5 DEF ListQueued, TypeOK, Stage, VerdictTag, VerdictOutdated
  <2>2. ClaimTag' /\ EmptyTag'
    BY <1>5 DEF ListQueued, Queued, TypeOK, ClaimTag, EmptyTag, Stage
  <2> QED  BY <2>1, <2>2
<1>6. CASE MarkEmpty(c)
  <2>1. TypeOK'
    BY <1>6 DEF MarkEmpty, TypeOK, Stage, Idle
  <2>2. VerdictTag' /\ VerdictOutdated'
    BY <1>6 DEF MarkEmpty, TypeOK, ClaimTag, EmptyTag, VerdictTag, VerdictOutdated
  <2>3. ClaimTag' /\ EmptyTag'
    BY <1>6 DEF MarkEmpty, TypeOK, Idle, ClaimTag, EmptyTag
  <2> QED  BY <2>1, <2>2, <2>3
<1>7. CASE MarkEmptyErr(c)
  BY <1>7 DEF MarkEmptyErr, TypeOK, Stage, Idle, ClaimTag, VerdictTag, EmptyTag, VerdictOutdated
<1>8. CASE Take(c)
  BY <1>8 DEF Take, Queued, TypeOK, Stage, Idle, ClaimTag, VerdictTag, EmptyTag,
     VerdictOutdated
<1> QED  BY <1>1, <1>2, <1>3, <1>4, <1>5, <1>6, <1>7, <1>8 DEF Serve

\* A tick moves the counter only back to its start, and then every tag read
\* before is marked as one of the counter that is gone.
LEMMA TickCacheInv ==
  ASSUME CacheInv, Tick
  PROVE  CacheInv'
<1> USE CacheAssumption DEF CacheAssumption, CacheInv, Tick, CounterTick, Expires, queue, At, Older
<1>1. TypeOK'
  <2>1. claim' \in [Claimer -> [at: Stage, v: Nat, of: {"live", "gone"}]]
    BY DEF TypeOK
  <2>2. version' \in Nat /\ versionLeft' \in 0..VersionTTL
    BY DEF TypeOK
  <2>3. verdict' \subseteq Nat /\ verdictLeft' \in 0..EmptyTTL /\ verdictOf' \in {"live", "gone"}
    BY DEF TypeOK
  <2> QED  BY <2>1, <2>2, <2>3 DEF TypeOK
<1>2. VerdictTag' /\ VerdictOutdated'
  BY DEF TypeOK, VerdictTag, VerdictOutdated
<1>3. ClaimTag' /\ EmptyTag'
  <2> SUFFICES ASSUME NEW c \in Claimer, claim[c].at \in Tagged
               PROVE  /\ claim'[c].at = claim[c].at /\ claim'[c].v = claim[c].v
                      /\ claim'[c].of = "gone" \/ (version' = version /\ claim'[c].of = claim[c].of)
    BY DEF TypeOK, ClaimTag, EmptyTag, Tagged
  <2> QED  BY DEF TypeOK
<1> QED  BY <1>1, <1>2, <1>3

LEMMA NextCacheInv == CacheInv /\ [Next]_vars => CacheInv'
<1> SUFFICES ASSUME CacheInv, [Next]_vars PROVE CacheInv'  OBVIOUS
<1>1. CASE Next
  BY <1>1, WriterCacheInv, ExpireCacheInv, ServeCacheInv, TickCacheInv DEF Next
<1>2. CASE UNCHANGED vars
  BY <1>2 DEF vars, CacheInv, TypeOK, ClaimTag, VerdictTag, EmptyTag, VerdictOutdated, At
<1> QED  BY <1>1, <1>2

\* The inductive invariant of the cache: as long as the counter lives, the
\* order of tags is the order of what their claims saw.
THEOREM CacheInvariant == Spec => []CacheInv
BY InitCacheInv, NextCacheInv, PTL DEF Spec

\* A valid verdict hides an announced row only if the counter has expired
\* since the verdict's tag was read (what notifyTaskAvailable relies on).
THEOREM NeverHidden == Spec => []NoStaleVerdict
<1>1. CacheInv => NoStaleVerdict
  BY DEF CacheInv, TypeOK, VerdictOutdated, NoStaleVerdict, VerdictValid
<1> QED  BY <1>1, CacheInvariant, PTL
=============================================================================
