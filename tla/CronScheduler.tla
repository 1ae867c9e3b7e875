---------------------------- MODULE CronScheduler ----------------------------
(***************************************************************************)
(* The scheduler of internal periodic jobs.  Every server process runs a   *)
(* manager that ticks the same job; the rows of sys_cron_executions are    *)
(* the lock and the log.  A manager claims a planned execution by an       *)
(* insert, or takes over a failed or stale one, runs the handler under a   *)
(* heartbeat, and writes the outcome guarded by its lease token.           *)
(*                                                                         *)
(* One SQL statement is one step.  Times are ticks of the database clock.  *)
(* A second job of the same process is a second scope: a manager works     *)
(* through both in one loop, with the time it read at the loop's start.    *)
(***************************************************************************)
EXTENDS Naturals, FiniteSets

CONSTANTS
  Runner,      \* the server processes
  Scope,       \* what a job is locked by
  Mode,        \* CatchUpMode, or "hook" for a job with PlansForScope
  TickInterval,
  Cadence, ScheduleDelay, CatchUpWindow,
  MaxPlansPerTick, \* 1 for a mode that plans one
  MaxLateness, \* maxAutopilotScheduleLateness, of the hook
  RunTimeout, StaleTimeout, HeartbeatInterval,
  AllowStaleReentry, MaxAttempts, RetryBackoff,
  Prompt,      \* statements of a manager take no time and its timers fire
  MaxTime, LastFault, MaxFault   \* bounds: the clock, the time and number of faults

ASSUME SchedulerAssumption ==
  /\ IsFiniteSet(Scope) /\ Scope # {}
  /\ Mode \in {"latest_only", "every_plan", "hook"}
  /\ TickInterval \in Nat \ {0} /\ Cadence \in Nat \ {0} /\ ScheduleDelay \in Nat /\ CatchUpWindow \in Nat
  /\ MaxPlansPerTick \in Nat \ {0} /\ MaxLateness \in Nat
  /\ RunTimeout \in Nat \ {0} /\ StaleTimeout \in Nat /\ StaleTimeout > RunTimeout
  /\ HeartbeatInterval \in Nat \ {0} /\ HeartbeatInterval < StaleTimeout
  /\ AllowStaleReentry \in BOOLEAN /\ Prompt \in BOOLEAN
  /\ MaxAttempts \in Nat \ {0} /\ RetryBackoff \in Nat
  /\ MaxTime \in Nat /\ LastFault \in Nat /\ MaxFault \in Nat

VARIABLES
  clock,    \* now() of the database
  row,      \* sys_cron_executions of the job, by scope and plan_time
  mgr,      \* what each manager is doing
  faults    \* handler errors and crashes so far

cronVars == <<clock, row, mgr, faults>>

Time == 0..MaxTime
Plan == {t \in Time : t % Cadence = 0}     \* plan_time

\* A row: its lease token, when its lease goes stale, when it may be retried
\* (0 is NULL).  A token is a random UUID; a number never given before to the
\* row stands for it.
Row == [status: {"absent", "RUNNING", "SUCCESS", "FAILED"}, attempt: Nat, token: Nat,
        stale: Nat, retry: Nat]
Absent == [status |-> "absent", attempt |-> 0, token |-> 0, stale |-> 0, retry |-> 0]

\* A manager: where it is in its loop, the time it read, the scopes and the
\* plans it has not come to, the claim it runs, and when its ticker fires next.
Place == {"idle", "ticked", "planning", "claiming", "running"}
Manager == [at: Place, now: Nat, scopes: SUBSET Scope, scope: Scope,
            todo: SUBSET Plan, plan: Plan, attempt: Nat, token: Nat,
            since: Nat, beat: Nat, wake: Nat]

Idle(wake) ==
  [at |-> "idle", now |-> 0, scopes |-> {}, scope |-> CHOOSE s \in Scope : TRUE,
   todo |-> {}, plan |-> 0, attempt |-> 0, token |-> 0, since |-> 0, beat |-> 0,
   wake |-> wake]

Fault == faults < MaxFault /\ clock <= LastFault /\ faults' = faults + 1

-----------------------------------------------------------------------------
(* Planning                                                                *)

FloorPlan(t) == t - (t % Cadence)
Before(t, d) == IF t >= d THEN t - d ELSE 0

Rows(s) == {p \in Plan : row[s][p].status # "absent"}
LatestPlan(s) == CHOOSE p \in Rows(s) : \A q \in Rows(s) : q <= p

RetryEligible(s, now) ==
  /\ Rows(s) # {}
  /\ LET r == row[s][LatestPlan(s)] IN
     r.status = "FAILED" /\ r.attempt < MaxAttempts /\ r.retry <= now

\* The first MaxPlansPerTick plans of the grid from start to latest.
PlansFrom(start, latest) ==
  {p \in {start + k * Cadence : k \in 0..(MaxPlansPerTick - 1)} : p <= latest}

EveryPlanLatest(s, now, latest) == {latest}
EveryPlan(s, now, latest) ==
  LET oldest == IF CatchUpWindow = 0 THEN latest ELSE Before(now, CatchUpWindow)
      start == IF Rows(s) = {} THEN latest
               ELSE IF RetryEligible(s, now) THEN LatestPlan(s)
               ELSE LatestPlan(s) + Cadence
      up == IF FloorPlan(oldest) < oldest THEN FloorPlan(oldest) + Cadence
                                          ELSE FloorPlan(oldest)
  IN  PlansFrom(IF start < oldest THEN up ELSE start, latest)

\* autopilotPlansForScope, for an expression that fires once a cadence: the
\* retry if there is one, else the last occurrence unless it is too late.
Hook(s, now) ==
  IF RetryEligible(s, now) THEN {LatestPlan(s)}
  ELSE LET after == IF Rows(s) = {} THEN 0 ELSE LatestPlan(s)
       IN  {p \in Plan : /\ after < p /\ p = FloorPlan(now)
                         /\ now - p <= MaxLateness}

PlansForTick(s, now) ==
  LET eligible == now - ScheduleDelay
      latest == FloorPlan(eligible)
  IN  Plan \cap (CASE Mode = "hook" -> Hook(s, now)
                   [] Mode # "hook" /\ now < ScheduleDelay -> {}
                   [] Mode = "latest_only" /\ now >= ScheduleDelay -> {latest}
                   [] OTHER -> EveryPlan(s, now, latest))

-----------------------------------------------------------------------------
(* A tick of manager r                                                     *)

Tick(r) ==
  /\ mgr[r].at = "idle" /\ mgr[r].wake <= clock
  /\ mgr' = [mgr EXCEPT ![r] = [@ EXCEPT !.at = "ticked", !.now = clock, !.scopes = Scope,
                                         !.wake = clock + TickInterval]]
  /\ UNCHANGED <<clock, row, faults>>

Stale(x, now) == x.status = "RUNNING" /\ x.stale < now

MarkStaleForgotten(x, now) == x
MarkStale(x, now) ==
  IF Stale(x, now) THEN [x EXCEPT !.status = "FAILED"] ELSE x

\* markStaleAsFailed, whatever AllowStaleReentry says
Sweep(r) ==
  /\ mgr[r].at = "ticked"
  /\ row' = [s \in Scope |-> [p \in Plan |-> MarkStale(row[s][p], mgr[r].now)]]
  /\ mgr' = [mgr EXCEPT ![r].at = "planning"]
  /\ UNCHANGED <<clock, faults>>

\* Where a manager goes on: the next plan, the next scope, the end of the tick.
Resume(m) ==
  IF m.todo # {} THEN [m EXCEPT !.at = "claiming"]
  ELSE IF m.scopes # {} THEN [m EXCEPT !.at = "planning"]
  ELSE Idle(m.wake)

Planned(m, s) ==
  [m EXCEPT !.scopes = m.scopes \ {s}, !.scope = s, !.todo = PlansForTick(s, m.now)]
PlanScope(r, s) ==
  /\ mgr[r].at = "planning" /\ s \in mgr[r].scopes
  /\ mgr' = [mgr EXCEPT ![r] = Resume(Planned(@, s))]
  /\ UNCHANGED <<clock, row, faults>>

ClaimableForever(x, now) == x.status = "absent" \/ (x.status = "FAILED" /\ x.retry <= now)
Claimable(x, now) ==
  \/ x.status = "absent"
  \/ /\ x.attempt < MaxAttempts
     /\ \/ x.status = "FAILED" /\ x.retry <= now
        \/ Stale(x, now) /\ AllowStaleReentry

\* The row as tryClaim leaves it, claimed anew or taken over at time now.
ClaimedTillHeartbeat(x, now) ==
  [status |-> "RUNNING",
   attempt |-> x.attempt + 1, token |-> x.token + 1,
   stale |-> now + HeartbeatInterval, retry |-> 0]
Claimed(x, now) ==
  [status |-> "RUNNING",
   attempt |-> x.attempt + 1, token |-> x.token + 1,
   stale |-> now + StaleTimeout, retry |-> 0]

\* tryClaim for the oldest plan of the list, and the start of the handler.
Claim(r, s, p) ==
  LET m == mgr[r]
      rest == [m EXCEPT !.todo = m.todo \ {p}]
      x == row[s][p]
      y == Claimed(x, m.now)
  IN  /\ m.at = "claiming" /\ s = m.scope
      /\ p \in m.todo /\ \A q \in m.todo : p <= q
      /\ \/ /\ Claimable(x, m.now)
            /\ row' = [row EXCEPT ![s][p] = y]
            /\ mgr' = [mgr EXCEPT ![r] = [rest EXCEPT
                         !.at = "running", !.plan = p, !.attempt = y.attempt,
                         !.token = y.token, !.since = clock, !.beat = clock]]
         \/ /\ ~Claimable(x, m.now)
            /\ mgr' = [mgr EXCEPT ![r] = Resume(rest)]
            /\ UNCHANGED row
      /\ UNCHANGED <<clock, faults>>

-----------------------------------------------------------------------------
(* A handler under its lease                                               *)

\* The guard of heartbeat, finishSuccess and finishFailure.
Owns(m, x) == x.status = "RUNNING" /\ x.token = m.token
Lease(r) == row[mgr[r].scope][mgr[r].plan]
Holds(r) == mgr[r].at = "running" /\ Owns(mgr[r], Lease(r))

Heartbeat(r) ==
  /\ Holds(r) /\ mgr[r].beat < clock
  /\ row' = [row EXCEPT ![mgr[r].scope][mgr[r].plan].stale = clock + StaleTimeout]
  /\ mgr' = [mgr EXCEPT ![r].beat = clock]
  /\ UNCHANGED <<clock, faults>>

\* finishSuccess and finishFailure; neither touches a row that is not ours.
Outcome(x, m, ok) ==
  IF ok THEN [x EXCEPT !.status = "SUCCESS"]
  ELSE [x EXCEPT !.status = "FAILED",
                 !.retry = IF m.attempt < MaxAttempts THEN clock + RetryBackoff ELSE 0]

Finish(r, ok) ==
  /\ mgr[r].at = "running"
  /\ IF Owns(mgr[r], Lease(r))
       THEN row' = [row EXCEPT ![mgr[r].scope][mgr[r].plan] = Outcome(@, mgr[r], ok)]
       ELSE UNCHANGED row
  /\ mgr' = [mgr EXCEPT ![r] = Resume(@)]
  /\ IF ok THEN UNCHANGED faults ELSE Fault
  /\ UNCHANGED clock

\* The process dies and is started again.
Crash(r) ==
  /\ mgr[r].at # "idle" /\ Fault
  /\ mgr' = [mgr EXCEPT ![r] = Idle(clock)]
  /\ UNCHANGED <<clock, row>>

\* Heartbeats fire while the lease is held, a handler ends with its context,
\* and between two statements no time passes.
InTime(r) ==
  \/ mgr[r].at = "idle"
  \/ /\ mgr[r].at = "running" /\ clock < mgr[r].since + RunTimeout
     /\ Holds(r) => clock < mgr[r].beat + HeartbeatInterval

Advance ==
  /\ clock < MaxTime
  /\ Prompt => \A r \in Runner : InTime(r)
  /\ clock' = clock + 1
  /\ UNCHANGED <<row, mgr, faults>>

-----------------------------------------------------------------------------
Init ==
  /\ clock = 0
  /\ row = [s \in Scope |-> [p \in Plan |-> Absent]]
  /\ mgr = [r \in Runner |-> Idle(0)]
  /\ faults = 0

\* The loop of a manager; heartbeats and crashes come in from outside.
Step(r) ==
  \/ Tick(r) \/ Sweep(r)
  \/ \E s \in Scope : PlanScope(r, s)
  \/ \E s \in Scope, p \in Plan : Claim(r, s, p)
  \/ \E ok \in BOOLEAN : Finish(r, ok)

Next ==
  \/ Advance
  \/ \E r \in Runner : Step(r) \/ Heartbeat(r) \/ Crash(r)

Spec == Init /\ [][Next]_cronVars

\* Time passes, heartbeats fire, and managers get on with their loops; whether
\* a handler succeeds is its own affair.
Fairness ==
  /\ WF_cronVars(Advance)
  /\ \A r \in Runner : WF_cronVars(Step(r)) /\ WF_cronVars(Heartbeat(r))

FairSpec == Spec /\ Fairness

-----------------------------------------------------------------------------
(* Properties                                                              *)

TypeOK ==
  /\ clock \in Nat /\ faults \in Nat
  /\ row \in [Scope -> [Plan -> Row]]
  /\ mgr \in [Runner -> Manager]

Same(r, q) == mgr[r].scope = mgr[q].scope /\ mgr[r].plan = mgr[q].plan

\* Tokens tell claims apart: a handler's token was the row's once, no two
\* handlers of an execution have the same, and attempts stay within bounds.
LeaseInv ==
  /\ TypeOK
  /\ \A s \in Scope, p \in Plan :
       row[s][p].attempt <= MaxAttempts /\ (row[s][p].status = "absent" <=> row[s][p].attempt = 0)
  /\ \A r \in Runner : mgr[r].at = "running" =>
       /\ mgr[r].token > 0
       /\ mgr[r].token <= Lease(r).token
       /\ mgr[r].attempt <= Lease(r).attempt
       /\ mgr[r].token = Lease(r).token => mgr[r].attempt = Lease(r).attempt
       /\ \A q \in Runner \ {r} : mgr[q].at = "running" /\ Same(r, q) =>
            mgr[q].token # mgr[r].token /\ mgr[q].attempt # mgr[r].attempt

\* At most one runner holds the lease of an execution: the guard on the token
\* keeps every other handler's terminal write out.
OneHolder ==
  \A r, q \in Runner : Holds(r) /\ Holds(q) /\ Same(r, q) => r = q

\* When the lease ends that the handler of r wrote last: at its claim, with the
\* time read at the start of the tick, or by a heartbeat.
LeaseEnd(m) == (IF m.beat > m.since THEN m.beat ELSE m.now) + StaleTimeout

\* A claim so late in its tick that the first heartbeat may miss the lease.
ClaimedLate(m) == m.now + StaleTimeout < m.since + HeartbeatInterval

\* No handler is swept or overtaken before the lease it wrote last is over,
\* whoever crashes, fails and takes over.  If heartbeats fire in time, that can
\* happen only to a claim made late, after other plans of a long tick: two
\* handlers of an execution never run together otherwise.
LeaseRespected ==
  \A r \in Runner : mgr[r].at = "running" /\ ~Holds(r) =>
    LeaseEnd(mgr[r]) < clock /\ (Prompt => ClaimedLate(mgr[r]))

Final(x) == \/ x.status = "SUCCESS"
            \/ x.status = "FAILED" /\ x.attempt = MaxAttempts

\* SUCCESS is final, and so is FAILED once the attempts are used up: no late
\* or repeated write, sweep or claim changes such a row.
FinalStays ==
  [][\A s \in Scope, p \in Plan :
       LET x == row[s][p] IN
       Final(x)
         => row'[s][p].status = x.status /\ row'[s][p].attempt = x.attempt]_cronVars

\* Under every_plan a plan between two claimed ones was claimed too, unless it
\* had left the catch-up window: what was missed is made up for oldest first,
\* by whichever managers.  This needs Prompt and one scope: two managers that
\* plan an empty scope from different times start its calendar at two plans,
\* and nobody comes back to those between them.
NoGap ==
  \A s \in Scope : \A p, q \in Rows(s) : \A t \in Plan :
    p < t /\ t < q => t \in Rows(s) \/ t + CatchUpWindow < clock

Over(s, p) ==
  \/ Final(row[s][p])
  \/ row[s][p].status = "FAILED" /\ \E q \in Rows(s) : q > p

\* An execution that was claimed ends, whoever crashes, and does not stay
\* RUNNING: it succeeds or uses up its attempts, or a later plan has taken its
\* place, which leaves it FAILED.
PlanEnds == \A s \in Scope, p \in Plan : p \in Rows(s) ~> Over(s, p)
=============================================================================
