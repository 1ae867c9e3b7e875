--------------------------- MODULE EmptyClaimCache ---------------------------
(***************************************************************************)
(* The negative cache in front of the claim path: Redis holds, for one     *)
(* runtime, a version counter and a verdict "no queued task" tagged with   *)
(* the version it was observed under.  A verdict counts only while its tag *)
(* equals the counter; whoever makes a row claimable INCRs the counter     *)
(* after its INSERT has committed.  Keys of distinct runtimes never meet,  *)
(* so one runtime is modelled.                                             *)
(*                                                                         *)
(* Every Redis command is a step of its own and may be lost; time is the   *)
(* remaining lifetime of the two keys, in ticks.                           *)
(***************************************************************************)
EXTENDS Naturals, FiniteSets

CONSTANTS
  Task,        \* ids of the runtime's rows; the order is their created_at
  Claimer,     \* claim requests the server serves concurrently
  EmptyTTL,    \* lifetime of a verdict (3 minutes), in ticks
  VersionTTL,  \* sliding lifetime of the counter (24 hours), in ticks
  MaxRequeue   \* bound: claims given back by RequeueTaskAfterClaimFailure

ASSUME CacheAssumption ==
  /\ Task \subseteq Nat /\ IsFiniteSet(Task)
  /\ EmptyTTL \in Nat \ {0} /\ VersionTTL \in Nat \ {0}
  /\ MaxRequeue \in Nat

VARIABLES
  row,         \* row[t]: the status of the row, as far as claims see it
  unbumped,    \* unbumped[t]: writers of t that have yet to call Bump
  announced,   \* rows whose INCR was done since they last became queued (history)
  version,     \* the counter; an absent key reads as 0
  versionLeft, \* its remaining lifetime; 0: the key is absent or never expires
  refreshes,   \* EXPIREs of Bump that are still to be sent
  verdict,     \* the cached tag, as a set: {} when the key is absent
  verdictLeft, \* its remaining lifetime
  verdictOf,   \* "gone" when the counter has expired since the tag was read (history)
  claim,       \* claim[c]: where request c is, the version it read, and whether
               \* that counter is "live" or "gone" (history)
  requeues     \* claims given back so far

vars == <<row, unbumped, announced, version, versionLeft, refreshes,
          verdict, verdictLeft, verdictOf, claim, requeues>>
counter == <<version, versionLeft, refreshes>>
verdictKey == <<verdict, verdictLeft, verdictOf>>
queue == <<row, unbumped, announced, requeues>>

Stage == {"idle", "miss", "got", "sampled", "empty", "found"}
Tagged == {"got", "sampled", "empty"}
Idle == [at |-> "idle", v |-> 0, of |-> "live"]

TypeOK ==
  /\ row \in [Task -> {"absent", "queued", "taken"}]
  /\ unbumped \in [Task -> Nat]
  /\ announced \subseteq Task
  /\ version \in Nat /\ versionLeft \in 0..VersionTTL /\ refreshes \in Nat
  /\ verdict \subseteq Nat /\ verdictLeft \in 0..EmptyTTL /\ verdictOf \in {"live", "gone"}
  /\ claim \in [Claimer -> [at: Stage, v: Nat, of: {"live", "gone"}]]
  /\ requeues \in 0..MaxRequeue

Init ==
  /\ row = [t \in Task |-> "absent"]
  /\ unbumped = [t \in Task |-> 0]
  /\ announced = {}
  /\ version = 0 /\ versionLeft = 0 /\ refreshes = 0
  /\ verdict = {} /\ verdictLeft = 0 /\ verdictOf = "live"
  /\ claim = [c \in Claimer |-> Idle]
  /\ requeues = 0

Queued == {t \in Task : row[t] = "queued"}
VerdictValid == version \in verdict
-----------------------------------------------------------------------------
(* Redis.  EXPIRE does nothing to an absent key; INCR keeps the lifetime of *)
(* the key, and the key it creates has none until an EXPIRE reaches it.    *)

Expire == versionLeft' = IF version = 0 THEN 0 ELSE VersionTTL
Incr == version' = version + 1 /\ UNCHANGED versionLeft
-----------------------------------------------------------------------------
(* Writers: the row commits first, the pipeline INCR, EXPIRE is a later    *)
(* call, and Redis may serve other commands between the two.               *)

BecomeQueued(t) ==
  /\ row' = [row EXCEPT ![t] = "queued"]
  /\ unbumped' = [unbumped EXCEPT ![t] = @ + 1]
  /\ announced' = announced \ {t}
  /\ UNCHANGED <<counter, verdictKey, claim>>

\* Any enqueue, promotion or retry insert.
Enqueue(t) == row[t] = "absent" /\ BecomeQueued(t) /\ UNCHANGED requeues

\* A claim whose finalization failed returns its row to the queue.
Requeue(t) ==
  /\ row[t] = "taken" /\ requeues < MaxRequeue
  /\ BecomeQueued(t)
  /\ requeues' = requeues + 1

Bump(t) ==
  /\ unbumped[t] > 0
  /\ unbumped' = [unbumped EXCEPT ![t] = @ - 1]
  /\ announced' = announced \union {t}
  /\ Incr /\ refreshes' = refreshes + 1
  /\ UNCHANGED <<row, verdictKey, claim, requeues>>

BumpExpire ==
  /\ refreshes > 0 /\ refreshes' = refreshes - 1
  /\ Expire
  /\ UNCHANGED <<queue, version, verdictKey, claim>>

\* The pipeline errs before its INCR or after it: the error is logged and the
\* enqueue goes on.
BumpDropped(t) ==
  /\ unbumped[t] > 0
  /\ unbumped' = [unbumped EXCEPT ![t] = @ - 1]
  /\ UNCHANGED <<row, announced, counter, verdictKey, claim, requeues>>
BumpExpireLost ==
  /\ refreshes > 0 /\ refreshes' = refreshes - 1
  /\ UNCHANGED <<queue, version, versionLeft, verdictKey, claim>>
-----------------------------------------------------------------------------
(* A claim request, one action per round trip.                             *)

At(c, stage) == claim[c].at = stage
Advance(c, stage) == claim' = [claim EXCEPT ![c] = [@ EXCEPT !.at = stage]]
Sample(c, stage, v) == claim' = [claim EXCEPT ![c] = [at |-> stage, v |-> v, of |-> "live"]]
Return(c) == claim' = [claim EXCEPT ![c] = Idle]

\* IsEmpty: on a valid verdict the request is answered "no task" at once.
IsEmptyHit(c) == At(c, "idle") /\ VerdictValid /\ UNCHANGED vars
IsEmptyMiss(c) ==
  /\ At(c, "idle") /\ ~VerdictValid
  /\ Advance(c, "miss")
  /\ UNCHANGED <<queue, counter, verdictKey>>

\* An MGET that errs reads as a miss, whatever the verdict.
IsEmptyErr(c) ==
  /\ At(c, "idle")
  /\ Advance(c, "miss")
  /\ UNCHANGED <<queue, counter, verdictKey>>

\* CurrentVersion: a GET, which answers 0 on an error or an absent key ...
CurrentVersion(c) ==
  /\ At(c, "miss")
  /\ Sample(c, IF version = 0 THEN "sampled" ELSE "got", version)
  /\ UNCHANGED <<queue, counter, verdictKey>>
CurrentVersionErr(c) ==
  /\ At(c, "miss")
  /\ Sample(c, "sampled", 0)
  /\ UNCHANGED <<queue, counter, verdictKey>>

\* ... and, when it found the key, an EXPIRE whose error is ignored.
Refresh(c) ==
  /\ At(c, "got")
  /\ Expire
  /\ Advance(c, "sampled")
  /\ UNCHANGED <<queue, version, refreshes, verdictKey>>
RefreshErr(c) ==
  /\ At(c, "got")
  /\ Advance(c, "sampled")
  /\ UNCHANGED <<queue, counter, verdictKey>>

ListQueued(c) ==
  /\ At(c, "sampled")
  /\ IF Queued = {} THEN Advance(c, "empty") ELSE Sample(c, "found", 0)
  /\ UNCHANGED <<queue, counter, verdictKey>>

MarkEmptyUnsampled(c) ==   \* mutant: the tag is read after the SELECT
  /\ At(c, "empty")
  /\ verdict' = {version} /\ verdictLeft' = EmptyTTL /\ verdictOf' = "live"
  /\ Return(c)
  /\ UNCHANGED <<queue, counter>>

MarkEmpty(c) ==
  /\ At(c, "empty")
  /\ verdict' = {claim[c].v} /\ verdictLeft' = EmptyTTL /\ verdictOf' = claim[c].of
  /\ Return(c)
  /\ UNCHANGED <<queue, counter>>

\* The SET fails, or the request dies: no verdict is written.
MarkEmptyErr(c) ==
  /\ At(c, "empty")
  /\ Return(c)
  /\ UNCHANGED <<queue, counter, verdictKey>>

\* ClaimTask takes the oldest row still queued, if any is left.
Take(c) ==
  /\ At(c, "found")
  /\ row' = [t \in Task |->
               IF t \in Queued /\ \A u \in Queued : t <= u THEN "taken" ELSE row[t]]
  /\ Return(c)
  /\ UNCHANGED <<unbumped, announced, requeues, counter, verdictKey>>
-----------------------------------------------------------------------------
Older(n) == IF n = 0 THEN 0 ELSE n - 1

\* A tick of the counter: at the end of its lifetime the key vanishes, and
\* every tag read so far is of a counter that is gone.
Expires == versionLeft = 1
CounterTick ==
  /\ versionLeft' = Older(versionLeft)
  /\ version' = IF Expires THEN 0 ELSE version
  /\ claim' = [c \in Claimer |->
                 IF Expires /\ claim[c].at \in Tagged THEN [claim[c] EXCEPT !.of = "gone"]
                                                      ELSE claim[c]]
  /\ verdictOf' = IF verdict' = {} THEN "live" ELSE IF Expires THEN "gone" ELSE verdictOf

TickNoExpiry ==            \* mutant: the verdict is stored without a lifetime
  /\ UNCHANGED <<queue, refreshes, verdict, verdictLeft>>
  /\ CounterTick

Tick ==
  /\ verdictLeft' = Older(verdictLeft)
  /\ verdict' = IF verdictLeft' = 0 THEN {} ELSE verdict
  /\ CounterTick
  /\ UNCHANGED <<queue, refreshes>>

Serve(c) ==
  \/ IsEmptyHit(c) \/ IsEmptyMiss(c)
  \/ CurrentVersion(c) \/ CurrentVersionErr(c) \/ Refresh(c) \/ RefreshErr(c)
  \/ ListQueued(c) \/ MarkEmpty(c) \/ MarkEmptyErr(c) \/ Take(c)

Next ==
  \/ \E t \in Task : Enqueue(t) \/ Requeue(t) \/ Bump(t) \/ BumpDropped(t)
  \/ BumpExpire \/ BumpExpireLost
  \/ \E c \in Claimer : Serve(c) \/ IsEmptyErr(c)
  \/ Tick

Spec == Init /\ [][Next]_vars

\* Daemons poll without end, requests are served, and time passes.  No MGET
\* has to err: a poll may meet a valid verdict for as long as there is one.
Fairness ==
  /\ \A c \in Claimer : WF_vars(Serve(c))
  /\ WF_vars(Tick)

FairSpec == Spec /\ Fairness
-----------------------------------------------------------------------------
(* The race described at empty_claim_cache.go:17 does not happen: whatever *)
(* claims were in flight around the enqueue and whichever calls to Redis   *)
(* were lost, a valid verdict hides a queued row whose INCR was done only  *)
(* if the counter has expired since the tag of that verdict was read.  The *)
(* exception is real: every refresh of the counter is best-effort, and the *)
(* restarted counter can come back to the old tag (:51 says it cannot).    *)
NoStaleVerdict ==
  \A t \in announced : row[t] = "queued" /\ VerdictValid => verdictOf = "gone"

(* What keeps it so.  While the counter lives, no tag in flight or stored  *)
(* is ahead of it, and one whose claim saw no queued row is behind every   *)
(* INCR made since.                                                        *)
ClaimTag == \A c \in Claimer :
  claim[c].at \in Tagged => claim[c].of = "gone" \/ claim[c].v <= version

VerdictTag == \A w \in verdict : verdictOf = "gone" \/ w <= version

EmptyTag == \A c \in Claimer, t \in announced :
  At(c, "empty") /\ row[t] = "queued" => claim[c].of = "gone" \/ claim[c].v < version

VerdictOutdated == \A w \in verdict, t \in announced :
  row[t] = "queued" => verdictOf = "gone" \/ w < version

CacheInv == TypeOK /\ ClaimTag /\ VerdictTag /\ EmptyTag /\ VerdictOutdated

(* "The worst-case stall is bounded": even when the INCR of an enqueue is  *)
(* lost, or the counter comes back to an old tag, the row is claimed once  *)
(* the verdict's lifetime is over.                                         *)
QueuedIsClaimed == \A t \in Task : row[t] = "queued" ~> row[t] = "taken"
=============================================================================
