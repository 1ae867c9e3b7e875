------------------------------ MODULE TaskQueue ------------------------------
(***************************************************************************)
(* The agent task queue: the rows of agent_task_queue, the claim requests  *)
(* the server is serving, the copies of a task the daemons hold, and the   *)
(* sweepers.  One SQL statement or transaction is one step; what a handler *)
(* does between two statements can be interleaved with everything else.    *)
(*                                                                         *)
(* A "runtime" stands for the runtime set of one daemon, which it polls    *)
(* for with one batch claim.  A "work" is what rows are serialized on: an  *)
(* (agent, issue) pair, a chat session, the quick-creates of an agent, or  *)
(* a run-only autopilot, which is not serialized.                          *)
(***************************************************************************)
EXTENDS Naturals, FiniteSets

CONSTANTS
  Agent, Runtime,
  Work,        \* records [name, agent, runtime, kind, prio, receipt]
  Capacity,    \* Capacity[a]: max_concurrent_tasks of agent a
  Escalates,   \* pairs <<primary work, work of the fallback assignee>>
  Events,      \* the optional events a configuration lets happen
  DefaultAttempts, \* max_attempts of a new row
  MaxTask, MaxGen, MaxBatch, MaxFault   \* bounds

Kind == {"issue", "chat", "quick", "run"}
EventKind == {"cancel", "expire", "server", "daemon", "net", "late"}
Id == 1..MaxTask

ASSUME QueueAssumption ==
  /\ Work # {}
  /\ \A w \in Work : /\ w.agent \in Agent /\ w.runtime \in Runtime
                     /\ w.kind \in Kind /\ w.prio \in Nat /\ w.receipt \in BOOLEAN
  /\ Capacity \in [Agent -> Nat]
  /\ Escalates \subseteq Work \X Work
  /\ Events \subseteq EventKind
  /\ DefaultAttempts \in Nat \ {0}
  /\ MaxTask \in Nat /\ MaxGen \in Nat /\ MaxBatch \in Nat \ {0} /\ MaxFault \in Nat

\* EnqueueChatTask and the deferred turn of a running session insert priority 2.
ASSUME ChatPriority == \A w \in Work : w.kind = "chat" => w.prio < 3

VARIABLES
  task,     \* the rows; ids are handed out in created_at order
  claim,    \* claims being finalized: row, generation (dispatched_at), and
            \* whether the daemon that asked is gone
  copy,     \* copies the daemons hold: row, generation, and how far it got
  poll,     \* the batch claim each daemon has in flight
  runtime,  \* runtime[r]: its row's status, and the daemon process behind it
  job,      \* follow-up statements a server process still has to run
  sweeping, \* TRUE between the two statements of sweepStaleRuntimes
  faults    \* faults so far

vars == <<task, claim, copy, poll, runtime, job, sweeping, faults>>

Pending == {"queued", "dispatched"}     \* the partial unique index
Active == {"dispatched", "running", "waiting"}
Live == Active \union {"queued", "deferred"}
Terminal == {"completed", "failed", "cancelled"}
Reason == {"none", "recovery", "infra", "network", "agent"}

Row == [status: Live \union Terminal \union {"absent"}, work: Work, prio: Nat,
        gen: Nat, fresh: BOOLEAN, starts: Nat, attempt: Nat, max: Nat,
        parent: Nat, esc: Nat, due: BOOLEAN, reason: Reason]

\* A new row of work w, and the place of one not inserted yet.
New(w) == [status |-> "queued", work |-> w, prio |-> w.prio, gen |-> 0,
           fresh |-> FALSE, starts |-> 0, attempt |-> 1, max |-> DefaultAttempts,
           parent |-> 0, esc |-> 0, due |-> FALSE, reason |-> "none"]
Absent == [New(CHOOSE w \in Work : TRUE) EXCEPT !.status = "absent"]

\* How far a copy got; "unsure" and "refused" are the outcomes of a start that
\* gave the daemon an error.
Stage == {"preparing", "running", "unsure", "refused"}

\* The process behind a runtime: "starting" and "registered" have yet to call
\* recover-orphans, the first before the poll loop runs, the second while it runs;
\* "unlisted" runs without the runtime, which it failed to register.
Daemon == {"down", "starting", "unlisted", "registered", "up"}

Idle == [at |-> "idle", agents |-> {}, left |-> 0]

TypeOK ==
  /\ task \in [Id -> Row]
  /\ claim \subseteq [task: Id, gen: Nat, lost: BOOLEAN]
  /\ copy \subseteq [task: Id, gen: Nat, at: Stage]
  /\ poll \in [Runtime -> [at: {"idle", "promoted", "scan", "claiming"},
                           agents: SUBSET Agent, left: Nat]]
  /\ runtime \in [Runtime -> [online: BOOLEAN, daemon: Daemon]]
  /\ job \subseteq [what: {"failed", "started"}, task: Id]
  /\ sweeping \in BOOLEAN
  /\ faults \in 0..MaxFault

Init ==
  /\ task = [i \in Id |-> Absent]
  /\ claim = {} /\ copy = {} /\ job = {}
  /\ poll = [r \in Runtime |-> Idle]
  /\ runtime = [r \in Runtime |-> [online |-> TRUE, daemon |-> "up"]]
  /\ sweeping = FALSE /\ faults = 0
-----------------------------------------------------------------------------
(* Rows                                                                    *)

Is(i, S) == task[i].status \in S
Serialized(w) == w.kind # "run"
ActiveOf(a) == {i \in Id : Is(i, Active) /\ task[i].work.agent = a}

\* idx_one_pending_task_per_issue_agent, over the rows t.  A statement that
\* would break it errs and changes nothing.
Unique(t) ==
  \A i, j \in Id : (/\ i # j /\ t[i].work = t[j].work /\ t[i].work.kind = "issue"
                    /\ t[i].status \in Pending) => t[j].status \notin Pending

\* The id the next insert gets, as a set: {} when the model has no more rows.
NextId == {i \in Id : Is(i, {"absent"}) /\ \A j \in 1..(i - 1) : ~Is(j, {"absent"})}

\* A fault of the given kind happens.
Fault(kind) == kind \in Events /\ faults < MaxFault /\ faults' = faults + 1

\* Rows in S take the given status.
Set(S, status) == [i \in Id |-> IF i \in S THEN [task[i] EXCEPT !.status = status]
                                           ELSE task[i]]
FailAll(S, reason) ==
  [i \in Id |-> IF i \in S THEN [task[i] EXCEPT !.status = "failed", !.reason = reason]
                           ELSE task[i]]
FailedJobs(S) == {[what |-> "failed", task |-> i] : i \in S}

ServerUnchanged == UNCHANGED <<poll, job, sweeping>>
OnlyTask == UNCHANGED <<claim, copy, poll, runtime, job, sweeping, faults>>
-----------------------------------------------------------------------------
(* Enqueueing                                                              *)

Insert(row) == \E i \in NextId : task' = [task EXCEPT ![i] = row]

Enqueue(w) == Insert(New(w)) /\ Unique(task') /\ OnlyTask

\* A comment in a thread wakes its owner; the assignee's fallback stays inert
\* until it is due.
EnqueueDeferred(p, w) ==
  /\ ~Is(p, {"absent"}) /\ task[p].parent = 0 /\ <<task[p].work, w>> \in Escalates
  /\ \A i \in Id : task[i].esc # p
  /\ Insert([New(w) EXCEPT !.status = "deferred", !.esc = p])
  /\ OnlyTask

FireAt(i) ==
  /\ Is(i, {"deferred"}) /\ ~task[i].due
  /\ task' = [task EXCEPT ![i] = [@ EXCEPT !.due = TRUE]]
  /\ OnlyTask
-----------------------------------------------------------------------------
(* The batch claim of runtime r                                            *)

Polls(r) == runtime[r].daemon \in {"registered", "up"}
Poll(r, p) == poll' = [poll EXCEPT ![r] = p]

\* PromoteDueDeferredTasksForRuntimes, one UPDATE for all due rows.
PromoteDue(r) ==
  Set({i \in Id : Is(i, {"deferred"}) /\ task[i].due /\ task[i].work.runtime = r},
      "queued")

\* The daemon asks for up to n tasks; due rows are promoted first.
Promote(r, n) ==
  /\ poll[r].at = "idle" /\ Polls(r)
  /\ Unique(PromoteDue(r))
  /\ task' = PromoteDue(r)
  /\ Poll(r, [at |-> "promoted", agents |-> {}, left |-> n])
  /\ UNCHANGED <<claim, copy, runtime, job, sweeping, faults>>

\* dispatched_at past the recovery window and no live prepare lease.
Stale(r) == {i \in Id : /\ Is(i, {"dispatched"}) /\ task[i].starts = 0
                        /\ ~task[i].fresh /\ task[i].work.runtime = r}

Dispatch(S) ==
  [i \in Id |-> IF i \in S
                THEN [task[i] EXCEPT !.status = "dispatched", !.gen = task[i].gen + 1,
                                     !.fresh = TRUE]
                ELSE task[i]]

\* A new generation is not stamped.
ClaimsUnstamped(S) == {[task |-> i, gen |-> task[i].gen, lost |-> FALSE] : i \in S}
Claims(S) == {[task |-> i, gen |-> task[i].gen + 1, lost |-> FALSE] : i \in S}

Reclaim(r) ==
  /\ poll[r].at = "promoted"
  /\ \E S \in SUBSET Stale(r) :
       /\ Cardinality(S) <= poll[r].left
       /\ Cardinality(S) < poll[r].left => S = Stale(r)
       /\ \A i \in S : task[i].gen < MaxGen
       /\ task' = Dispatch(S)
       /\ claim' = claim \union Claims(S)
       /\ Poll(r, IF Cardinality(S) = poll[r].left THEN Idle
                  ELSE [at |-> "scan", agents |-> {}, left |-> poll[r].left - Cardinality(S)])
  /\ UNCHANGED <<copy, runtime, job, sweeping, faults>>

\* ListQueuedClaimCandidatesByRuntimes: the distinct agents to try.
ListQueued(r) ==
  /\ poll[r].at = "scan"
  /\ LET agents == {task[i].work.agent : i \in {j \in Id : /\ Is(j, {"queued"})
                                                           /\ task[j].work.runtime = r}}
     IN  Poll(r, IF agents = {} THEN Idle
                 ELSE [at |-> "claiming", agents |-> agents, left |-> poll[r].left])
  /\ UNCHANGED <<task, claim, copy, runtime, job, sweeping, faults>>

\* CountRunningTasks, and a mutant that leaves out what waits to start.
RunningCountStarted(a) == Cardinality({i \in ActiveOf(a) : Is(i, {"running"})})
RunningCount(a) == Cardinality(ActiveOf(a))

BlockedByStarted(i) == \E j \in Id : /\ Is(j, {"running"}) /\ task[j].work = task[i].work
                                     /\ Serialized(task[i].work)
Blocked(i) == \E j \in Id : /\ Is(j, Active) /\ task[j].work = task[i].work
                            /\ Serialized(task[i].work)
Claimable(a) == {i \in Id : Is(i, {"queued"}) /\ task[i].work.agent = a /\ ~Blocked(i)}

\* ORDER BY priority DESC, created_at, id
Before(i, j) == task[i].prio > task[j].prio \/ (task[i].prio = task[j].prio /\ i <= j)
Head(a) == {i \in Claimable(a) : \A j \in Claimable(a) : Before(i, j)}

\* ClaimTask, one transaction under the agent's row lock: the row may belong to
\* another runtime, and is then left for that runtime to reclaim.
ClaimTask(r, a) ==
  /\ poll[r].at = "claiming" /\ a \in poll[r].agents
  /\ LET H == IF RunningCount(a) < Capacity[a] THEN Head(a) ELSE {}
         own == {i \in H : task[i].work.runtime = r}
         left == poll[r].left - Cardinality(own)
         agents == poll[r].agents \ {a}
     IN  /\ \A i \in H : task[i].gen < MaxGen
         /\ task' = Dispatch(H)
         /\ claim' = claim \union Claims(own)
         /\ Poll(r, IF left = 0 \/ agents = {} THEN Idle
                    ELSE [at |-> "claiming", agents |-> agents, left |-> left])
  /\ UNCHANGED <<copy, runtime, job, sweeping, faults>>
-----------------------------------------------------------------------------
(* Finalizing a claim                                                      *)

CurrentClaimUnversioned(c) == Is(c.task, {"dispatched"}) /\ task[c.task].starts = 0
CurrentClaim(c) == /\ Is(c.task, {"dispatched"}) /\ task[c.task].starts = 0
                   /\ task[c.task].gen = c.gen

\* The daemon gives up on a claim long before its row can be reclaimed.
Timely(c) == ~c.lost /\ task[c.task].gen = c.gen /\ task[c.task].fresh

\* FinalizeTaskClaim mints the token and, for a comment-backed row, writes the
\* receipt under the CAS.
Deliverable(c) == Timely(c) /\ (task[c.task].work.receipt => CurrentClaim(c))

\* The response reaches the daemon.
Deliver(c) ==
  /\ Deliverable(c)
  /\ claim' = claim \ {c}
  /\ copy' = copy \union {[task |-> c.task, gen |-> c.gen, at |-> "preparing"]}
  /\ UNCHANGED <<task, runtime, faults>> /\ ServerUnchanged

\* The same, but nobody receives the response; or the process serving it dies.
LoseResponse(c) ==
  /\ IF Deliverable(c) THEN Fault("net") ELSE UNCHANGED faults
  /\ claim' = claim \ {c}
  /\ UNCHANGED <<task, copy, runtime>> /\ ServerUnchanged

\* Finalization fails: RequeueTaskAfterClaimFailure, under the same CAS.
Requeue(c) ==
  /\ IF Deliverable(c) THEN Fault("net") ELSE UNCHANGED faults
  /\ claim' = claim \ {c}
  /\ task' = IF CurrentClaim(c) THEN Set({c.task}, "queued") ELSE task
  /\ UNCHANGED <<copy, runtime>> /\ ServerUnchanged

\* 90 s after the dispatch and 45 s after the last extension.  The request that
\* claimed the row is answered within 30 s and a daemon that holds it extends
\* every 15 s: under either of them the row goes stale only when these are late.
Lapse(i) ==
  /\ Is(i, {"dispatched"}) /\ task[i].fresh
  /\ IF (\E c \in copy : c.task = i) \/ (\E c \in claim : c.task = i /\ Timely(c))
     THEN Fault("late") ELSE UNCHANGED faults
  /\ task' = [task EXCEPT ![i] = [@ EXCEPT !.fresh = FALSE]]
  /\ UNCHANGED <<claim, copy, runtime>> /\ ServerUnchanged
-----------------------------------------------------------------------------
(* A daemon's copy of a task                                               *)

Moves(c, at) == copy' = (copy \ {c}) \union {[c EXCEPT !.at = at]}
OnlyCopies == UNCHANGED <<task, claim, runtime, faults>> /\ ServerUnchanged

\* startTaskPrepareLeaseExtender, for the row whatever its generation.
ExtendLease(c) ==
  /\ c.at = "preparing"
  /\ Is(c.task, {"dispatched", "waiting"}) /\ task[c.task].starts = 0
  /\ ~task[c.task].fresh
  /\ task' = [task EXCEPT ![c.task] = [@ EXCEPT !.fresh = TRUE]]
  /\ OnlyTask

\* The local directory is taken: MarkTaskWaitingLocalDirectory.
Park(c) ==
  /\ c.at = "preparing" /\ Is(c.task, {"dispatched"})
  /\ task' = [task EXCEPT ![c.task] = [@ EXCEPT !.status = "waiting", !.fresh = TRUE]]
  /\ OnlyTask

StartUnguarded(i) ==
  /\ Is(i, Live)
  /\ task' = [task EXCEPT ![i] = [@ EXCEPT !.status = "running", !.starts = task[i].starts + 1]]
  /\ job' = job /\ UNCHANGED <<claim, poll, runtime, sweeping>>
Start(i) ==
  /\ Is(i, {"dispatched", "waiting"})
  /\ task' = [task EXCEPT ![i] = [@ EXCEPT !.status = "running", !.starts = task[i].starts + 1]]
  /\ job' = IF \E e \in Escalates : e[1] = task[i].work
             THEN job \union {[what |-> "started", task |-> i]} ELSE job
  /\ UNCHANGED <<claim, poll, runtime, sweeping>>

StartTask(c) ==
  /\ c.at = "preparing" /\ Start(c.task) /\ Moves(c, "running")
  /\ UNCHANGED faults

\* The row started, the daemon saw an error.
StartReplyLost(c) ==
  /\ c.at = "preparing" /\ Start(c.task) /\ Moves(c, "unsure")
  /\ Fault("net")

\* The CAS refused, the 400 is final: handleTask goes on to report a failure.
StartRefused(c) ==
  /\ c.at = "preparing" /\ ~Is(c.task, {"dispatched", "waiting"})
  /\ Moves(c, "refused")
  /\ OnlyCopies

\* The status poll of the daemon sees a terminal row and drops its copy.
Interrupt(c) ==
  /\ Is(c.task, Terminal)
  /\ copy' = copy \ {c}
  /\ OnlyCopies

CompleteTask(c) ==
  /\ c.at = "running"
  /\ task' = IF Is(c.task, {"running"}) THEN Set({c.task}, "completed") ELSE task
  /\ copy' = copy \ {c}
  /\ UNCHANGED <<claim, runtime, faults>> /\ ServerUnchanged

\* Every retry of a terminal report failed; the row stays as it is.
ReportLost(c) ==
  /\ Fault("net")
  /\ copy' = copy \ {c}
  /\ UNCHANGED <<task, claim, runtime>> /\ ServerUnchanged
-----------------------------------------------------------------------------
(* Failure and retry                                                       *)

\* retryAttemptCeiling: three attempts for provider_network.
Ceiling(reason, max) ==
  IF reason = "network" /\ max > 1 /\ max < 3 THEN 3 ELSE max

RetryEligible(i, reason) ==
  /\ reason \in {"recovery", "infra", "network"}
  /\ task[i].attempt < Ceiling(reason, task[i].max)
  /\ task[i].work.kind \in {"issue", "chat"}

RetryUnprioritized(i, reason) ==
  [New(task[i].work) EXCEPT !.attempt = task[i].attempt + 1, !.parent = i,
                            !.max = Ceiling(reason, task[i].max)]
\* CreateRetryTask; the last attempt after provider_network waits 5 s.
Retry(i, reason) ==
  [New(task[i].work) EXCEPT
     !.status = IF reason = "network" /\ task[i].attempt >= 2 THEN "deferred" ELSE "queued",
     !.prio = IF task[i].work.kind = "chat" /\ task[i].prio < 3 THEN 3 ELSE task[i].prio,
     !.attempt = task[i].attempt + 1,
     !.max = Ceiling(reason, task[i].max),
     !.parent = i]

\* FailAgentTask and the retry, in one transaction.
FailWithRetry(i, reason) ==
  IF RetryEligible(i, reason)
  THEN \E k \in NextId : task' = [FailAll({i}, reason) EXCEPT ![k] = Retry(i, reason)]
  ELSE task' = FailAll({i}, reason)

\* Classify reads the error text: a timeout or an unreachable server counts as
\* provider_network in the daemon's own calls too, the 400 of a start does not.
FailReason(c) ==
  IF c.at = "refused" THEN {"agent"} ELSE {"infra", "network", "agent"}

\* Without FailAgentTask's status guard.
FailTaskUnguarded(c, reason) ==
  /\ reason \in FailReason(c)
  /\ FailWithRetry(c.task, reason) /\ Unique(task')
  /\ copy' = copy \ {c}
  /\ UNCHANGED <<claim, runtime, faults>> /\ ServerUnchanged

FailTask(c, reason) ==
  /\ reason \in FailReason(c)
  /\ IF Is(c.task, Active) THEN FailWithRetry(c.task, reason) /\ Unique(task')
                           ELSE UNCHANGED task
  /\ copy' = copy \ {c}
  /\ UNCHANGED <<claim, runtime, faults>> /\ ServerUnchanged

\* The retry would break the index: the transaction rolls back, the daemon gets
\* a 500 each time it tries and in the end gives up.
FailRolledBack(c, reason) ==
  /\ reason \in FailReason(c)
  /\ Is(c.task, Active) /\ RetryEligible(c.task, reason)
  /\ \A k \in NextId : ~Unique([FailAll({c.task}, reason) EXCEPT ![k] = Retry(c.task, reason)])
  /\ NextId # {}
  /\ copy' = copy \ {c}
  /\ OnlyCopies

\* HandleFailedTasks, for one row a sweeper or a recovery failed: MaybeRetryFailedTask
\* inserts the retry, unless the index refuses it.
HandleFailed(i) ==
  /\ [what |-> "failed", task |-> i] \in job
  /\ IF RetryEligible(i, task[i].reason)
     THEN \E k \in NextId :
            LET retried == [task EXCEPT ![k] = Retry(i, task[i].reason)]
            IN  task' = IF Unique(retried) THEN retried ELSE task
     ELSE UNCHANGED task
  /\ job' = job \ {[what |-> "failed", task |-> i]}
  /\ UNCHANGED <<claim, copy, poll, runtime, sweeping, faults>>

Fallbacks(S) == {i \in Id : /\ task[i].esc \in S
                            /\ Is(i, {"deferred", "queued", "dispatched", "waiting"})}

\* cancelDeferredEscalationsForTask, after StartAgentTask has committed.
CancelFallbacks(i) ==
  /\ [what |-> "started", task |-> i] \in job
  /\ task' = Set(Fallbacks({i}), "cancelled")
  /\ job' = job \ {[what |-> "started", task |-> i]}
  /\ UNCHANGED <<claim, copy, poll, runtime, sweeping, faults>>
-----------------------------------------------------------------------------
(* Cancellation                                                            *)

Cancel(i) ==
  /\ "cancel" \in Events /\ Is(i, Live)
  /\ task' = Set({i}, "cancelled")
  /\ OnlyTask

\* CancelAgentTasksByIssueAndAgent and ByChatSession; a rerun is this statement
\* and then an Enqueue.
CancelWork(w) ==
  /\ "cancel" \in Events
  /\ task' = Set({i \in Id : Is(i, Live) /\ task[i].work = w}, "cancelled")
  /\ OnlyTask

\* The agent comments on the issue: CancelDeferredEscalationsForIssueAgent.
Acknowledge(w) ==
  /\ "cancel" \in Events
  /\ task' = Set(Fallbacks({i \in Id : ~Is(i, {"absent"}) /\ task[i].work = w}), "cancelled")
  /\ OnlyTask
-----------------------------------------------------------------------------
(* Runtimes and sweepers                                                   *)

SetRuntime(r, online, daemon) ==
  runtime' = [runtime EXCEPT ![r] = [online |-> online, daemon |-> daemon]]
OnlyRuntime == UNCHANGED <<task, claim, copy, poll, job, sweeping, faults>>

ActiveOnStarted(S) == {i \in Id : Is(i, {"dispatched", "running"})
                                     /\ task[i].work.runtime \in S}
ActiveOn(S) == {i \in Id : Is(i, Active) /\ task[i].work.runtime \in S}
FailRows(S, reason) == task' = FailAll(S, reason) /\ job' = job \union FailedJobs(S)

\* The process dies, or deregisters its runtimes and exits: its copies and the
\* request it had in flight go with it.
DaemonDown(r) ==
  /\ runtime[r].daemon # "down" /\ Fault("daemon")
  /\ \E online \in {FALSE, runtime[r].online} : SetRuntime(r, online, "down")
  /\ copy' = {c \in copy : task[c.task].work.runtime # r}
  /\ claim' = {[c EXCEPT !.lost = @ \/ task[c.task].work.runtime = r] : c \in claim}
  /\ Poll(r, Idle)
  /\ UNCHANGED <<task, job, sweeping>>

\* A new process registers; it polls only after its recover-orphans call.
Register(r) ==
  /\ runtime[r].daemon = "down"
  /\ SetRuntime(r, TRUE, "starting")
  /\ OnlyRuntime

\* The registration fails: it is logged, and the process starts without the
\* runtime.  The workspace sync in the background registers it later, and the
\* poll loop, which is running by then, serves it from then on.
RegisterFailed(r) ==
  /\ runtime[r].daemon = "down" /\ Fault("net")
  /\ SetRuntime(r, runtime[r].online, "unlisted")
  /\ UNCHANGED <<task, claim, copy, poll, job, sweeping>>
RegisterLate(r) ==
  /\ runtime[r].daemon = "unlisted"
  /\ SetRuntime(r, TRUE, "registered")
  /\ OnlyRuntime

Recovers(r) == runtime[r].daemon \in {"starting", "registered"}
RecoverOrphans(r) ==
  /\ Recovers(r)
  /\ SetRuntime(r, runtime[r].online, "up")
  /\ FailRows(ActiveOn({r}), "recovery")
  /\ UNCHANGED <<claim, copy, poll, sweeping, faults>>

\* Logged and forgotten.
RecoverOrphansLost(r) ==
  /\ Recovers(r) /\ Fault("net")
  /\ SetRuntime(r, runtime[r].online, "up")
  /\ UNCHANGED <<task, claim, copy, poll, job, sweeping>>

Heartbeat(r) ==
  /\ Polls(r) /\ ~runtime[r].online
  /\ SetRuntime(r, TRUE, runtime[r].daemon)
  /\ OnlyRuntime

\* MarkRuntimesOfflineByIDs: no heartbeat came, the daemon may be alive.
MarkOffline(r) ==
  /\ runtime[r].online /\ ~sweeping
  /\ IF runtime[r].daemon \in {"down", "unlisted"} THEN UNCHANGED faults ELSE Fault("late")
  /\ SetRuntime(r, FALSE, runtime[r].daemon)
  /\ sweeping' = TRUE
  /\ UNCHANGED <<task, claim, copy, poll, job>>

FailTasksForOfflineRuntimes ==
  /\ sweeping /\ sweeping' = FALSE
  /\ FailRows(ActiveOn({r \in Runtime : ~runtime[r].online}), "infra")
  /\ UNCHANGED <<claim, copy, poll, runtime, faults>>

\* FailStaleTasks, row by row.
FailStale(i) ==
  /\ \/ Is(i, {"dispatched"}) /\ ~task[i].fresh
     \/ Is(i, {"running"}) /\ LET r == runtime[task[i].work.runtime]
                              IN  r.daemon \in {"down", "unlisted"} \/ ~r.online
  /\ FailRows({i}, "infra")
  /\ UNCHANGED <<claim, copy, poll, runtime, sweeping, faults>>

\* ExpireStaleQueuedTasks, row by row; queued_expired is not retried.
ExpireQueued(i) ==
  /\ "expire" \in Events /\ Is(i, {"queued"})
  /\ FailRows({i}, "agent")
  /\ UNCHANGED <<claim, copy, poll, runtime, sweeping, faults>>

\* The server restarts: what its goroutines still had to do is forgotten.
ServerCrash ==
  /\ Fault("server")
  /\ claim' = {} /\ job' = {} /\ sweeping' = FALSE
  /\ poll' = [r \in Runtime |-> Idle]
  /\ UNCHANGED <<task, copy, runtime>>
-----------------------------------------------------------------------------
Users ==
  \/ \E w \in Work : Enqueue(w) \/ CancelWork(w) \/ Acknowledge(w)
  \/ \E i \in Id : Cancel(i) \/ (\E w \in Work : EnqueueDeferred(i, w))

Claiming ==
  \E r \in Runtime : \/ \E n \in 1..MaxBatch : Promote(r, n)
                     \/ Reclaim(r) \/ ListQueued(r)
                     \/ \E a \in Agent : ClaimTask(r, a)
Finalizing == \E c \in claim : Deliver(c) \/ LoseResponse(c) \/ Requeue(c)

Running ==
  \E c \in copy : \/ ExtendLease(c) \/ Park(c)
                  \/ StartTask(c) \/ StartReplyLost(c) \/ StartRefused(c)
                  \/ Interrupt(c) \/ CompleteTask(c) \/ ReportLost(c)
                  \/ \E reason \in Reason : FailTask(c, reason) \/ FailRolledBack(c, reason)

FollowUps == \E i \in Id : HandleFailed(i) \/ CancelFallbacks(i)

Clock == \E i \in Id : FireAt(i) \/ Lapse(i)

Sweeping ==
  \/ \E r \in Runtime : MarkOffline(r)
  \/ FailTasksForOfflineRuntimes
  \/ \E i \in Id : FailStale(i) \/ ExpireQueued(i)

Processes ==
  \/ \E r \in Runtime : \/ DaemonDown(r) \/ Register(r)
                        \/ RegisterFailed(r) \/ RegisterLate(r)
                        \/ RecoverOrphans(r) \/ RecoverOrphansLost(r) \/ Heartbeat(r)
  \/ ServerCrash

Next == \/ Users \/ Claiming \/ Finalizing \/ Running
        \/ FollowUps \/ Clock \/ Sweeping \/ Processes

Spec == Init /\ [][Next]_vars

\* What a live system keeps doing: daemons poll and, once down, come back; a
\* request is finalized; a copy gets on; time passes.  No user action, fault or
\* sweep is counted on.
Advance(c) == \/ StartTask(c) \/ StartRefused(c) \/ Interrupt(c) \/ CompleteTask(c)
              \/ \E reason \in Reason : FailTask(c, reason) \/ FailRolledBack(c, reason)

Fairness ==
  /\ \A r \in Runtime :
       /\ WF_vars(\E n \in 1..MaxBatch : Promote(r, n))
       /\ WF_vars(Reclaim(r)) /\ WF_vars(ListQueued(r))
       /\ \A a \in Agent : WF_vars(ClaimTask(r, a))
       /\ WF_vars(Register(r)) /\ WF_vars(RegisterLate(r)) /\ WF_vars(RecoverOrphans(r))
  /\ \A i \in Id :
       /\ WF_vars(FireAt(i)) /\ WF_vars(Lapse(i) /\ UNCHANGED faults)
       /\ \A g \in 1..MaxGen :
            /\ WF_vars(\E c \in claim : c.task = i /\ c.gen = g /\ Deliver(c))
            /\ WF_vars(\E c \in copy : c.task = i /\ c.gen = g /\ Advance(c))

FairSpec == Spec /\ Fairness
-----------------------------------------------------------------------------
(* Properties                                                              *)

\* Two rows of one serialized work are never active together: an agent does not
\* work twice at an issue, a chat session or a quick-create (ClaimAgentTask).
OneActivePerWork ==
  \A i, j \in Id :
    i # j /\ Is(i, Active) /\ Is(j, Active) /\ task[i].work = task[j].work
      => ~Serialized(task[i].work)

\* No interleaving of polls, reclaims and requeues takes an agent over its
\* max_concurrent_tasks (ClaimTask's count under the agent's row lock).
WithinCapacity == \A a \in Agent : Cardinality(ActiveOf(a)) <= Capacity[a]

\* A row claimed for a daemon is not back in the queue, where a second one would
\* take it, while the claim is being answered or the daemon has its copy: the
\* dispatched_at CAS of the requeue against reclaims and late finalizations.
DeliveredStaysOut ==
  \A c \in claim \union copy :
    task[c.task].gen = c.gen => ~Is(c.task, {"queued", "deferred"})

\* The claim generations in flight or at a daemon are distinct and not ahead of
\* their row, so that dispatched_at does tell them apart; a row nobody can claim
\* has none.
Generations ==
  /\ \A c \in claim \union copy : c.gen \in 1..task[c.task].gen
  /\ \A c, d \in claim : c.task = d.task /\ c.gen = d.gen => c = d
  /\ \A c, d \in copy : c.task = d.task /\ c.gen = d.gen => c = d
  /\ \A c \in claim, d \in copy : c.task = d.task => c.gen # d.gen
  /\ \A i \in Id : Is(i, {"absent", "deferred"}) => task[i].gen = 0

\* A batch claim in progress still has a slot to fill.
Slots == \A r \in Runtime : poll[r].at # "idle" => poll[r].left > 0

QueueInv == TypeOK /\ Generations /\ Slots

\* A failed row is retried at most once, whichever of the daemon's report, the
\* sweepers and the recovery saw it fail, and within the budget its retry records.
RetriedOnce ==
  /\ \A i, j \in Id : task[i].parent = task[j].parent /\ task[i].parent # 0 => i = j
  /\ \A i \in Id : task[i].parent # 0 =>
       /\ Is(task[i].parent, {"failed"}) /\ task[task[i].parent].work = task[i].work
       /\ task[i].attempt = task[task[i].parent].attempt + 1
       /\ task[i].attempt <= task[i].max

\* A chat turn that failed and is back in the queue is claimed before any turn
\* the user sent meanwhile (CreateRetryTask's GREATEST(priority, 3)).
RetryGoesFirst ==
  [][\A i, j \in Id :
       /\ Is(i, {"queued"}) /\ task'[i].status = "dispatched" /\ task[i].work.kind = "chat"
       /\ Is(j, {"queued"}) /\ task[j].work = task[i].work /\ task[j].parent # 0
       => task[i].parent # 0]_vars

\* The rows implement the abstract dispatch service, one statement at a time:
\* held at most once, begun at most once, ended for good, work serialized and
\* capacity respected.
PhaseOf(status) ==
  CASE status = "absent" -> "none"
    [] status \in {"queued", "deferred"} -> "pending"
    [] status \in {"dispatched", "waiting"} -> "held"
    [] status = "running" -> "begun"
    [] OTHER -> "done"
Dispatcher == INSTANCE TaskDispatch WITH
  phase <- [i \in Id |-> PhaseOf(task[i].status)],
  what <- [i \in Id |-> task[i].work]
ImplementsDispatch == Dispatcher!Spec

\* Whatever crashes, every task a user asked for comes to an end: it is claimed
\* or reclaimed, started, and reported or recovered.
EveryTaskEnds == \A i \in Id : Is(i, Live) ~> Is(i, Terminal)
-----------------------------------------------------------------------------
(* What comments say and the code does not do; a run of its own refutes    *)
(* each of them.                                                           *)

\* A deferred row is "inert until PromoteDueDeferredTasksForRuntime flips" it and
\* "a queued task becomes claimable on the next call": one falling due for the
\* same issue and agent does not keep a queued task from ever being claimed.
QueuedIsClaimed ==
  \A i \in Id : Is(i, {"queued"}) ~> task[i].gen > 0

\* The daemon "retries and the fail, gap flag, and retry land exactly once": where
\* no call is lost, a running row has a daemon that is at work on it.
FailureLands == \A i \in Id : Is(i, {"running"}) => \E c \in copy : c.task = i

\* "this leaves no window for a newer input task to jump ahead": no turn is claimed
\* while the retry of an earlier one has yet to run.
NoTurnJumpsAhead ==
  [][\A i, j \in Id :
       /\ Is(i, {"queued"}) /\ task'[i].status = "dispatched" /\ task[i].work.kind = "chat"
       /\ Is(j, {"queued", "deferred"}) /\ task[j].work = task[i].work /\ task[j].parent # 0
       => task[i].parent # 0]_vars
=============================================================================
