# Verification of Multica's task dispatch, scheduling and client issue lists

TLA+ models of the server and daemon logic under `src/multica/server` and of the
issue lists of its TypeScript client under `src/multica/packages/core`, the TLC
configurations that check them on small instances, and theorems about them that
TLAPS checks. Server paths below are relative to `src/multica/server/`, client paths
to `src/multica/packages/core/`; SQL means `pkg/db/queries/agent.sql`.

## 1. The system

Multica lets people assign work to coding agents. A person files an issue, writes a
comment that mentions an agent, or sends a chat message, or a trigger of an autopilot
comes due; the server turns that into a row of the PostgreSQL table
`agent_task_queue`; a daemon on some machine claims the row, prepares a work
directory, runs an agent process and reports the outcome. There is no broker: the
table is the queue, its row statuses are the protocol, and every transition is one
guarded `UPDATE` or one short transaction. Periodic work runs in every server process
and is kept apart by leased rows of `sys_cron_executions`. Browsers and the desktop
app show boards of issues from a query cache, which they patch themselves, from their
own edits and from WebSocket events.

```
 users, comments,      insert        +--------------------+   claim / start /      +----------+
 chat             -----------------> | agent_task_queue   | <--- extend / report - |  daemon  |
                                     | (PostgreSQL)       | ------ tasks --------> | (poll)   |
 sweepers (30 s) --- fail, expire -> +--------------------+                        +----------+
                                        ^          ^
                   Redis: empty-claim --+          | insert
                   verdicts                        |
 managers of every server -- lease --> sys_cron_executions -- dispatch --> autopilot_run, issue

 issue table -- HTTP pages, WebSocket events --> query cache of a client <-- optimistic edits
```

### Inventory

| Component | Code | State | Operations | What is hard | Correct when |
|---|---|---|---|---|---|
| Task queue | `internal/service/task.go`, SQL, `internal/handler/daemon.go` | rows: status, `dispatched_at`, `prepare_lease_expires_at`, attempt, parent, priority | enqueue, promote, claim, reclaim, finalize, requeue, start, park, complete, fail, retry, cancel, rerun | concurrent polls, lost responses, crashes between two statements, the unique index that refuses a second pending row | a row is run once, one agent does not work twice at the same thing, capacity holds, every task ends |
| Sweepers | `cmd/server/runtime_sweeper.go` | none (reads rows and runtimes) | mark runtimes offline, fail their tasks, fail stale tasks, expire queued tasks | races with the daemon it believes dead | every row of a dead daemon is failed and retried at most once |
| Empty-claim cache | `internal/service/empty_claim_cache.go` | Redis: version counter and tagged verdict per runtime | `CurrentVersion`, `IsEmpty`, `MarkEmpty`, `Bump` | a slow claim against an enqueue, expiring keys, a lost command between two others | a verdict hides a queued row after its bump only if the counter expired in between, and never longer than it lives |
| Daemon | `internal/daemon/daemon.go`, `client.go` | copies of tasks, poll slots, runtimes | poll, prepare, extend the lease, start, watch for cancellation, report, register, recover orphans | restarts, calls whose reply is lost | it works on a row only while it owns it |
| Escalation | `internal/handler/comment.go`, `StartTask` | deferred rows with `escalation_for_task_id` | insert, promote, cancel | insert and cancel are separate statements | the assignee stays quiet when the thread owner starts |
| Cron scheduler | `internal/scheduler` | `sys_cron_executions`: status, attempt, lease token, `stale_after`, `next_retry_at` | tick, sweep, plan, claim, steal, heartbeat, finish | several servers on one plan, a lease lost under a live handler, a crash in the middle of a list of plans | no handler overtaken before its lease is over, bounded attempts, no plan left out, every plan ends |
| Autopilot dispatch | `internal/service/autopilot.go`, `internal/scheduler/jobs_autopilot.go` | `autopilot_run` rows, an issue, a task | look up, recover, create, dispatch, skip, fail, sync | what an attempt left behind when its process died | an occurrence whose handlers kept their leases gets one issue, and its SUCCESS stands for something visible |
| Client issue lists | `issues/*.ts`, `realtime/use-realtime-sync.ts` | per status a window of cards and a total, detail queries, in-flight fetches and edits | fetch, load more, optimistic edit and delete, rollback, events, reconnect | a list is patched and never refetched on settle; cards beyond the window; failed edits | an event or an edit leaves a list that was right right, or marks it stale |
| Chat turns | `internal/handler/chat.go`, `SendDirectChatMessage` | messages, input owner of a task | send, cancel, finalize | cancel against completion | each input is answered once |
| Channel engine | `internal/integrations/channel/engine` | dedup claims, installation leases, batches | claim, mark, release, renew | redelivery, lost claims | an inbound message acts once |
| Local directory lock | `internal/daemon/local_directory.go` | one mutex per path | acquire, wait, release | cancelled waiters | one task per directory |
| Daemon wakeups | `internal/daemon/wakeup.go`, `internal/daemonws` | connections, pending hints | notify, RPC with HTTP fallback | a claim answered over two transports | no wakeup is lost for good |
| Realtime relay | `internal/realtime`, `internal/events` | hub, Redis streams | publish, relay | duplicates after a reconnect | each client sees an event |
| Client drafts, uploads, chat composer | `drafts`, `chat/store.ts` | persistent stores | add, retry, remove an upload | an answer for a slot that was reused | no upload lands in another draft |
| Desktop daemon manager | `src/multica/apps/desktop/src/main/daemon-manager.ts` | child process, profile | start, stop, restart, sign in and out | overlapping starts and stops | one daemon per profile |
| Everything else | handlers, agent back ends, CLI, adapters, views, mobile, deployment | | CRUD, I/O, protocol clients, rendering | | not modelled |

`PROJECT.json` lists every component with its sources, its status and the reason for
what is left out, and the hazards of the code with the properties about them.

## 2. Modules

| Module | Models | Used by |
|---|---|---|
| `TaskQueue` | rows, claims, daemon copies, batch polls, runtimes, sweepers | `MCTaskQueue`, `TaskQueueProofs`, `TaskRetryProofs` |
| `TaskDispatch` | what the queue promises, with no rows, leases or daemons | refined by `TaskQueue` (`Dispatcher == INSTANCE TaskDispatch WITH ...`) |
| `EmptyClaimCache` | the Redis negative cache in front of the claim path | `MCEmptyClaimCache`, `EmptyClaimCacheProofs` |
| `CronScheduler` | managers, plans, leases | `MCCronScheduler`, `CronSchedulerProofs`, `CronPlanProofs`, `AutopilotSchedule` |
| `AutopilotSchedule` | the dispatch of scheduled autopilots, EXTENDS `CronScheduler` | `MCAutopilotSchedule`, `AutopilotScheduleProofs` |
| `IssueBoard` | the issue lists of one client and the server they show | `MCIssueBoard`, `IssueBoardProofs` |
| `MC*` | the small instances for TLC | the `.cfg` files |
| `*Proofs` | theorems and proofs | |

How they meet:

* `TaskQueue` and `EmptyClaimCache` meet at `ListQueued`. The cache may answer a poll
  with "nothing queued" although a row is queued: between the insert and the bump, after
  a lost bump, or, as `NoStaleVerdict` says, when the counter has expired and come back to
  an old tag. For the queue each is a poll that has not happened yet, so the queue model
  lets the poll read the table, and `QueuedIsClaimed` of the cache bounds the wait.
* `AutopilotSchedule` is composed with `CronScheduler`: its handler runs between `Claim`
  and `Finish` of the manager that claimed the occurrence, and `RunsUnderScheduler`
  proves that it is a job like any other. Its tasks enter `TaskQueue` as `Enqueue`.
* `IssueBoard` holds the issue table itself: an update and its event are one step of
  the server (`UpdateIssue`). Two handlers of one issue that overlap, so that they commit
  in one order and publish in the other, are not modelled.

### 2.1 TaskQueue

Granularity: one SQL statement, or one transaction, is one action. Whatever a handler
does between two statements can interleave with everything else, and a server
restart (`ServerCrash`) may fall there.

| Variable | In the code |
|---|---|
| `task[i]` | row `i`; ids follow `created_at`. `gen` counts the values of `dispatched_at` and so stands for the timestamp the CASes compare; `fresh` says that it is inside the 90 s recovery window or the prepare lease is alive; `starts` counts `StartAgentTask` (so `starts = 0` is `started_at IS NULL`); `esc` is `escalation_for_task_id`, `due` is `fire_at <= now()`; "waiting" is `waiting_local_directory` |
| `claim` | claims the server is still finalizing, each with the generation its handler read |
| `copy` | copies daemons hold: preparing, running, unsure (started, but the reply was lost), or refused by `StartAgentTask` |
| `poll[r]` | the steps of one `ClaimTasksForRuntimes` call: promoted, scan, claiming; agents left to try, slots left |
| `runtime[r]` | the row's online status, and the process: down; starting (registered, and calling recover-orphans before its poll loop: daemon.go 1673 and 3334-3338, before 1702); unlisted (running without the runtime, whose registration failed); registered (by the background sync, while the poll loop runs, not yet recovered); up |
| `job` | statements a goroutine still has to run: the retries of `HandleFailedTasks`, the cancellation of fallbacks after a start |
| `sweeping` | between `MarkRuntimesOfflineByIDs` and `FailTasksForOfflineRuntimes` |

| Actions | Code |
|---|---|
| `Enqueue`, `EnqueueDeferred` | `enqueueIssueTaskWithCommentPlan` and the other enqueues; `EnqueueDeferredAssigneeFallback` |
| `Promote`, `Reclaim`, `ListQueued`, `ClaimTask` | steps 1, 2, 3-5 and 6 of `ClaimTasksForRuntimes` (task.go 2840-3000), with `ClaimAgentTask` and `CountRunningTasks` |
| `Deliver`, `LoseResponse`, `Requeue` | `FinalizeTaskClaim`, the HTTP response, `RequeueTaskAfterClaimFailure` |
| `Lapse`, `ExtendLease`, `Park` | the recovery window and prepare lease, `ExtendTaskPrepareLease`, `MarkTaskWaitingLocalDirectory` |
| `StartTask`, `StartReplyLost`, `StartRefused` | `StartAgentTask` and how the daemon takes its outcome |
| `CompleteTask`, `FailTask`, `FailRolledBack`, `ReportLost`, `Interrupt` | terminal reports, `watchTaskCancellation` |
| `HandleFailed`, `CancelFallbacks` | `MaybeRetryFailedTask`, `cancelDeferredEscalationsForTask` |
| `Cancel`, `CancelWork`, `Acknowledge` | the cancellation statements; a rerun is `CancelWork` and then `Enqueue` |
| `DaemonDown`, `Register`, `RegisterFailed`, `RegisterLate`, `RecoverOrphans`, `RecoverOrphansLost`, `Heartbeat` | process life cycle, `syncWorkspacesFromAPI` at startup and in the background, `RecoverOrphanedTasksForRuntime` |
| `MarkOffline`, `FailTasksForOfflineRuntimes`, `FailStale`, `ExpireQueued` | the sweepers |

Abstractions.

* A *runtime* is the set of runtimes of one daemon: the batch claim treats the set as
  one, and registration, death and recovery hit all of it. The older claim for a
  single runtime is the case `MaxBatch = 1`.
* A *work* is what `ClaimAgentTask` serializes on: agent and issue, chat session, or
  the quick-creates of an agent; run-only autopilots are not serialized. Its
  `receipt` says whether the claim writes delivered comment ids, which is the
  only part of finalization under the `dispatched_at` CAS.
* `ClaimAgentTask` takes its row with `FOR UPDATE SKIP LOCKED` under the agent's row
  lock; as one step it sees no locked rows. A skipped row is a claim that
  comes a poll later.
* The agents of a batch are tried in any order; the code tries them in the order of
  the candidates read by `ListQueued`. Claims of one batch are answered one by one in
  the model and in one response in the code. Both only add behaviours.
* A database error of one statement in the middle of a batch is not modelled; the
  code then answers with what has been committed, as when the other agents have nothing
  to claim.
* Failure reasons are four classes: recovery, retryable infrastructure,
  `provider_network` with its ceiling of three attempts, final. `taskfailure.Classify` reads
  the text of the error, so a timeout or an unreachable server counts as
  `provider_network` although it was the daemon's own call.
* A chat task inserted as deferred until its channel media is downloaded is not modelled;
  it enters as `Enqueue` when it becomes queued.
* The 9 000 s deadline of running rows (`FailStaleTasks`) is any moment at which the
  liveness signal is missing.

### 2.2 TaskDispatch

A task is submitted, held by at most one daemon, given back before it began, begun at
most once and ended for good; tasks of one serialized work are busy one at a time and
an agent never exceeds its capacity. The refinement maps queued and deferred rows
to pending, dispatched and waiting ones to held, running to begun and the rest to
done. One statement may end many tasks and submit others (a failure with its retry, a
sweep), hence `EndAndSubmit`.

### 2.3 EmptyClaimCache

One runtime: keys of different runtimes never meet. `row`, `unbumped` and `announced`
are the table, the writers between commit and `Bump`, and the rows whose INCR was done;
`version`, `verdict` and their remaining lifetimes are the two Redis keys; `claim[c]` follows
one request through `IsEmpty`, `CurrentVersion`, the SELECT and `MarkEmpty`.

Every Redis command is a step of its own and may be lost. `CurrentVersion` is a GET
(`CurrentVersion`, `CurrentVersionErr`) and then an EXPIRE whose error the code ignores (`Refresh`,
`RefreshErr`); `Bump` is an INCR (`Bump`, `BumpDropped`) and then an EXPIRE (`BumpExpire`,
`BumpExpireLost`), with other commands in between; `IsEmptyErr` is the failed MGET, which
reads as a miss, and `MarkEmptyErr` the failed SET. `Tick` ages the two keys and nothing else:
the model puts no limit on how long a request takes, and no order on the two lifetimes. So the
counter may expire at any moment, under a live verdict or under a tag in flight, start again from 0
and count up to that tag. The history variables `verdictOf` and `claim[c].of` say whether it
has expired since ("gone"), which is the one case in which `NoStaleVerdict` lets a verdict hide an
announced row. The code does not rule that case out, although `empty_claim_cache.go:50-51`
says the lifetime does.

### 2.4 CronScheduler

`clock` is `now()` of the database, in ticks. `row[s][p]` is the row of a scope and a
`plan_time`; its lease token is a number that grows, where the code draws a UUID: all the
code asks of it is that no two are equal. `mgr[r]` is a server's manager: where it is
in `RunOnce`, the time it read at the start, the scopes and plans it has not come to,
the claim it runs, its last heartbeat and the next firing of its ticker.

| Actions | Code |
|---|---|
| `Tick`, `Sweep`, `PlanScope` | `RunOnce`: the one read of the clock, `markStaleAsFailed`, `plansForTick` with its catch-up modes and the hook of the autopilot job |
| `Claim` | `tryClaim` (insert, retry of a due FAILED row, steal of a stale one) and the start of the handler, or the next plan |
| `Heartbeat`, `Finish` | the statements guarded by status and lease token |
| `Crash` | the process dies and is started again |
| `Advance` | time |

* `Prompt` says that SQL statements take no time, that heartbeats fire on their interval
  while the lease is held, and that a handler ends with its context (`RunTimeout`). Time
  then passes only while managers wait or run handlers. Without it, any pause between
  reading the clock and claiming lets a lease be born stale.
* Two jobs of one process share its manager: they are two scopes.
* Planning is a function of the rows and the time read, as in the code. The hook is
  modelled for an expression that fires once per `Cadence`.
* `NoGap` asks that every plan between two claimed ones is claimed too or has left the
  catch-up window (`t + CatchUpWindow < clock`): the code gives plans up in that way, when a
  scope was not served for longer than the window.
* `LeaseRespected` bounds what a handler that has lost its lease may have lost it to: the lease
  it wrote last is over (`LeaseEnd`), and, under `Prompt`, it was claimed so late in its tick that its
  first heartbeat could miss it (`ClaimedLate`). The second part is real: the code claims every plan of a
  tick with the time read at its start, so a lease is shorter by what the tick has run before it. With the
  shipped constants the usage rollup may take 25 minutes in the manager that also runs the autopilot job,
  whose leases last five; two handlers of one execution may then run together. The `cron`
  instance is chosen so that this happens.

### 2.5 AutopilotSchedule

`handler[r]` is the stage of the handler of manager `r` and the run it dispatches;
`runs[s][p]` the `autopilot_run` rows of an occurrence, `planned` while `planned_at` holds
the slot of the unique index. One transaction is one step: the lookup, the recovery
of a partial run, the insert of a run, the issue with its link, the enqueue, the bare
task, its link. `Fail` is a statement that fails or a context that runs out, with the
`failRun` that may fail too; `LinkLost` the failed link that is only logged; `Die` the
crash of the process. The history variable `overtaken` collects the occurrences of which a handler
has run without its lease. What the code does there is not bounded (the issue is created
without a look at the lease, so a second one is possible), and `OneIssue` and
`SuccessIsVisible` exempt exactly those occurrences; `LeaseRespected` says when they arise.

Abstractions: triggers stay enabled and autopilots unedited; a dispatch may be skipped at
admission or at the dispatch for whatever reason (agent not ready, the 60 s duplicate
guard); the end of an issue's or a task's work comes at any time (`WorkEnds`). Manual and
webhook dispatch, and the monitor that pauses failing autopilots, are not modelled.

### 2.6 IssueBoard

`db` is the issue table, `wire` the events on the socket, `list[l]` the query of a list
(data, stale mark, fetch in flight), `detail` and `load` the detail queries that have data and
their requests in flight, `more` the load-more request, `edit[n]` the mutations with their
snapshots, `acts` a count of what users and the network have done. `view` is history: the table as
the delivered events tell it. Lists are the workspace board ("board"), one filtered by assignee
("mine") and one whose membership the client cannot decide ("all").

| Actions | Code |
|---|---|
| `Commit`, `Serve` | `UpdateIssue` and its event, for other users and for this client: the commit, its refusal, its lost answer |
| `Read`, `Fetched`, `Remount` | the list queries; `fetchFirstPages` asks once per status |
| `OpenDetail`, `ReadDetail`, `DetailLoaded` | the detail query, asked, answered, stored |
| `LoadMore`, `ReadMore`, `MoreLoaded` | `useLoadMoreByStatus`, asked, answered, merged |
| `Update` | `onMutate` of `useUpdateIssue`: cancel queries, `applyIssueChange`, snapshot, in one go |
| `Delete`, `PruneDeleted` | `onMutate` of `useDeleteIssue`: cancel, and after its two awaits the snapshot and the prune |
| `Success`, `Failure` | `onSuccess`, `onError`, `onSettled` |
| `Deliver` | `onIssueCreated`, `onIssueUpdated`, `onIssueDeleted` |
| `Disconnect`, `Reconnect` | a lost socket; everything is invalidated on reconnect |

* The model puts no order between actors that the code does not: the server commits, serves and
  publishes at any time, an event comes before or after the answer to the request that caused it, an
  edit starts over open fetches, undelivered events and unanswered edits.
* TanStack Query is outside the repository and modelled as the code uses it: data are
  fresh for good until invalidated; `invalidateQueries` marks and refetches a mounted
  query, restarting a running fetch unless it is the first one; a fetch that ends replaces
  the data and clears the mark; `setQueryData` replaces the data and clears the mark while
  a fetch in flight goes on; `cancelQueries` drops the fetch and keeps the data.
* In that generality the lists do *not* always come to tell the truth: that a list at rest agrees with
  the server is false of this code, in the ways hazards 25 to 30 of `PROJECT.json` list. The properties
  claim what the code does give, step by step: an event, an optimistic patch, and the pass over an
  answer each leave a list that was right right, or mark it; and an event never brings an issue into a
  column of a list without showing it there or marking the list, also where the list was wrong before.
* The event properties have one premise, `EventKnown`: the client's copy of the issue, where it has one, is
  the row before the event. Outside it are the event of an own edit whose optimistic patch is
  already in the copy, an answer (detail, list, page) that has overtaken the event of the commit
  it contains, and a copy from before a lost connection: for those `applyIssueChange` compares
  with the wrong row and the code gives nothing (hazards 26 and 30; an own edit is the subject of
  `EditsReconcile`, and its failure of the run `board_rollback`).
* Titles and the order of cards in a window are abstracted, and lists sorted by `updated_at` with
  them; sub-issue, flat, table, gantt and grouped caches, batch mutations and local creation are
  left out.

## 3. Runs

| Run | Instance | Shows |
|---|---|---|
| `cache` | 2 rows, 2 claims, a requeue, expiring keys, any Redis command lost at any time, fair | `NoStaleVerdict`, `CacheInv`, which makes it inductive, and `QueuedIsClaimed` whatever was lost |
| `queue_faults` | 1 issue, 2 rows, 3 generations, 2 faults of any kind, cancellations | `QueueInv`, `DeliveredStaysOut`, `OneActivePerWork`, refinement of `TaskDispatch` |
| `queue_agents` | thread owner of capacity 1 on two daemons and the fallback assignee, 3 rows, batches of 2, expiry | `WithinCapacity` |
| `queue_live` | 1 chat, 3 rows, a crash of daemon or server or a late heartbeat, fair | `RetriedOnce`, `RetryGoesFirst`, `EveryTaskEnds` |
| `cron` | 2 servers, an every_plan job of 4 plans, 2 plans a tick that outlive the lease of the second, 2 attempts, 2 crashes or failures, fair | `LeaseInv`, `LeaseRespected`, `NoGap`, `FinalStays`, `PlanEnds` |
| `autopilot` | 2 servers, 1 trigger of either mode, 1 occurrence, 3 attempts, 3 crashes or failures, no timing assumed | `HandlerInv`, `OneIssue`, `SuccessIsVisible` |
| `board` | 2 lists, 2 issues, windows of 1 card, an own edit or delete, 2 acts (edits, other users' changes, opened issues, failures, lost answers, lost connections) in any order | `EventsReconcile`, `EntersOrMarked`, `EditsReconcile`, `TypeOK` |
| `promote_blocks`, `retry_rolls_back`, `turn_jumps`, `board_rollback`, `autopilot_no_task` | the smallest instance that shows it | each refutes one statement of the code's comments (section 6) |

Bounds of the queue. `MaxTask` rows, `MaxGen` claim generations per row, `MaxBatch` tasks per
poll and `MaxFault` faults are the only bounds; a step that would exceed one is not taken,
which is why the queue runs do not check for deadlock: a system that has used its last row
id may stop. Two rows of one work are enough for serialization, the unique index and
a retry; three for a retry with a newer turn next to it or a retry of a retry. Three
generations allow a claim, a reclaim of it, and a reclaim of that, so that a handler
may be two generations behind. Two faults allow a lost response followed by a crash.
`Events` names the kinds of events an instance lets happen: `cancel`, `expire`
(of queued rows), and the faults `server` and `daemon` (crashes), `net` (a lost call) and `late` (a lease
or heartbeat of a live daemon that is not extended in time), which `MaxFault` counts.

Bounds of the cache. A verdict lives one tick and the counter two, so that the counter can expire
under a tag in flight and under a verdict, and be counted up to it again by the two enqueues; nothing
else is bounded but the number of requeues.

Bounds of the scheduler. `MaxTime` ends the clock, so that deadlock is not checked. In
`cron` two servers compete for four plans; a handler may run two ticks, a lease lasts three and is
extended every two, so that the second plan of a tick may be claimed with one tick of its lease left. Faults
happen up to `LastFault`, early enough that what follows them (stale lease, takeover, backoff, catch-up
of two plans in one tick, a plan that leaves the window of three ticks) happens before the clock
ends. In `autopilot` time may pass between any two statements (`Prompt` is off), so that heartbeats
come late and living handlers are overtaken; three faults let two servers die at two different stages and a third
attempt find what they left. One occurrence is due before the clock ends: two meet only in the planning, which
`cron` checks with four, and the statements of the handler touch runs of their own occurrence only. A third server would only take the place of one of the two.

Bounds of the board. Two acts of any kind, at most one of them an own edit, in any order with the
fetches, answers and events they cause; two issues and windows of one card, so that one issue is
beyond the window of its column and a move brings it in or pushes another out; the board starts
with both in one column. The two lists are one without and one with a filter the client can decide; the
third kind is the theorems' part, and so are sequences of several edits.

The theorems below depend on none of these bounds.

## 4. Fairness

`FairSpec` of `TaskQueue` asks that

* each daemon keeps polling and each poll goes on (`runBatchPoller` polls on a timer and
  requests have deadlines);
* a claim that is being finalized is answered, for each row and generation;
* each copy gets on: it starts, is refused, notices a terminal row, completes or fails
  (agents run under inactivity watchdogs and reports under deadlines);
* time passes: due rows become due, unextended leases lapse;
* **a daemon that went down registers again and recovers its orphans.** This is an
  assumption about the people who run daemons: without it a queued row waits until
  its two-hour expiry.

Fairness is on the steps that succeed and faults are bounded. No user action, sweep,
fault, expiry or heartbeat is fair: what holds does not need the sweepers. `queue_live`
runs without lost calls, since the code does leave a row running when a terminal report,
or the call to recover-orphans, is lost while the runtime stays online (listed as hazards).

`EmptyClaimCache` asks that requests are served and that time passes. `CronScheduler` asks that
time passes, that every manager gets on with its loop (a goroutine on a ticker, whose
handlers run under a timeout) and that heartbeats fire; whether a handler succeeds is left
open, and crashes are not fair. `AutopilotSchedule` and `IssueBoard` are checked for safety
only.

## 5. Proofs

TLAPS proves the following for every value of the constants that satisfies
`QueueAssumption`, `CacheAssumption`, `SchedulerAssumption` or `BoardAssumption` and
`DataAssumption`. These type the constants (`DataAssumption` says that `None` is no row,
bucket or status and that the tables to start from are tables); the queue adds that fresh chat turns have
priority 2 (`ChatPriority`, task.go 1546 and 1798), and the scheduler's says what `validate` of `spec.go`
says of a job (a stale timeout beyond the run timeout and the heartbeat interval). Only `NothingLeftOut`
has premises beyond these.

| Theorem | States | Along |
|---|---|---|
| `EmptyClaimCacheProofs!CacheInvariant` | `Spec => []CacheInv` | one step per action |
| `EmptyClaimCacheProofs!NeverHidden` | `Spec => []NoStaleVerdict` | from `VerdictOutdated` |
| `TaskQueueProofs!QueueInvariant` | `Spec => []QueueInv` | one lemma per action |
| `TaskQueueProofs!ClaimNeverRequeued` | `Spec => []DeliveredStaysOut` | with `QueueInv` |
| `TaskQueueProofs!Serialization` | `Spec => []OneActivePerWork` | with `TypeOK` |
| `TaskQueueProofs!CapacityRespected` | `Spec => []WithinCapacity` | with `TypeOK` and cardinalities |
| `TaskQueueProofs!Refinement` | `Spec => ImplementsDispatch` | with the three above |
| `TaskRetryProofs!OneRetryEach` | `Spec => []RetriedOnce` | `RetryInv` |
| `TaskRetryProofs!RetriesFirst` | `Spec => RetryGoesFirst` | `RetryInv`, `ChatPriority` |
| `CronSchedulerProofs!LeaseInvariant` | `Spec => []LeaseInv` | quiet steps and claims |
| `CronSchedulerProofs!LeaseIsExclusive` | `Spec => []OneHolder` | from `LeaseInv` |
| `CronSchedulerProofs!FinalForGood` | `Spec => FinalStays` | with `LeaseInv` |
| `CronSchedulerProofs!LeasesRespected` | `Spec => []LeaseRespected` | `TimesInv` |
| `CronPlanProofs!NothingLeftOut` | `Prompt /\ Mode = "every_plan" /\ OneScope /\ Spec => []NoGap` | `PlanInv` |
| `AutopilotScheduleProofs!RunsUnderScheduler` | `AutopilotSpec => Spec` | each step is one of the scheduler or a stutter |
| `AutopilotScheduleProofs!HandlerInvariant` | `AutopilotSpec => []HandlerInv` | with `LeaseInv` |
| `AutopilotScheduleProofs!OneIssueEach` | `AutopilotSpec => []OneIssue` | `WorkInv` |
| `AutopilotScheduleProofs!SuccessVisible` | `AutopilotSpec => []SuccessIsVisible` | `WorkInv` |
| `IssueBoardProofs!ShapesKept` | `Spec => []TypeOK` | one lemma per action |
| `IssueBoardProofs!EventsReconciled` | `Spec => EventsReconcile` | `BoardInv` |
| `IssueBoardProofs!EntersShown` | `Spec => EntersOrMarked` | `BoardInv` |
| `IssueBoardProofs!EditsReconciled` | `Spec => EditsReconcile` | `TypeOK` |

*Cache.* `NoStaleVerdict` alone is not inductive: `MarkEmpty` writes a tag read several
steps earlier. `CacheInv` adds that a tag, stored or in flight, is not ahead of the
counter, and that the tag of a claim which saw no row is behind every INCR done since, each
unless the counter it was read from is gone. A lost command only leaves the counter where it was, or lets it
expire, and expiring moves every tag read before to the exception.

*Queue.* The steps split in two (lemma `Steps`). A *quiet* step activates no row: it
keeps the work of existing rows, adds new ones as queued or deferred, and moves
rows from active to not active at most. Each action is shown to be quiet, and to keep or drop
claims and copies, in one lemma, from which every property follows at once. The other steps
are `ClaimTask`, `Reclaim`, `Deliver`, `Requeue` and the two starts, and each is treated
on its own: `ClaimTask` picks one row with no active sibling when the agent's count is below
its capacity; `Reclaim` and a start keep the active set; `Requeue` returns a row only if its
generation is that of the claim, and by `Generations` no other claim and no copy has that
one. That is why `QueueInv` carries `Generations`: with typing alone a requeue could
not be told from that of a row a daemon holds.

*Refinement.* Initial states map to initial states. A quiet step maps to `EndAndSubmit`, a
claim to `Hold` (its guards are `Serialization` and capacity), a start to
`Begin`, a requeue to `GiveBack`, and the rest to stuttering.

*Retries.* A row is retried by the transaction that fails it or by the follow-up of a sweep or a
recovery, and `RetriedOnce` says nothing of a follow-up that has yet to run. `RetryInv` adds
that a row with a pending follow-up has failed and has no retry (`JobsInv`). A report
finds its row active, so that it has neither a retry nor a follow-up; a sweep adds follow-ups only for
rows it fails; and running a follow-up removes it. Every other step leaves parents, attempts and
budgets alone and revives no failed row (`Plain`). `PrioInv` keeps retries of chat turns at priority
3 or above; as a retry is claimable whenever a fresh turn of its session is, the order of `Head` does the rest.

*Scheduler.* Again the steps split: only a claim that succeeds gives out a token or starts a
handler, every other step keeps the tokens and attempts of the rows (`KeepsLeases`). That is
enough for `LeaseInv`, exclusive leases and final outcomes, whatever time does. `LeaseRespected` is about
time: `Times` adds, for every handler that holds its lease, that the row's `stale_after` is the end of
the lease it wrote last. A sweep or a steal needs a time read after that, so the lease is over; and
under `Prompt` a handler heartbeats before its lease ends unless it was claimed late.

*Autopilots.* The dispatch implements the scheduler, so all of the above holds of it. `WorkInv`
says, of the occurrences outside `overtaken`, what each stage may rely on (the run it dispatches holds the slot and has no issue yet, a
run about to be linked has a task, a handler about to succeed has something to show), that a run
with an issue keeps its slot, and that completed and linked runs have a task. A step of a handler touches only
runs of its own occurrence, and while that one is not in `overtaken` every handler of it holds the lease, of
which there is one (`OneHolder`), so that only its own stage has to be checked again (`OwnOccurrence`). At
most one run holds a slot and every run with an issue holds it: one issue. Time plays no part.

*Plans.* `NoGap` is not inductive: a manager claims from a list it made some time ago. `PlanInv`
says of the claimed plans that between two of them only what has left the window is missing
(`Calendar`), and relates every list to them (`Outlook`): between a claimed plan and a plan of the list
everything is claimed, on the list, or gone by; no plan of the list is below the first claimed one; and while
nothing is claimed at all, every list holds at most the one plan of this moment. A claim
then adds no hole, a crash drops a list, which the next tick makes again, and time only
moves more plans out of the window. The last part is where the premises enter: with time between
reading and claiming, or with two scopes of which only one has rows, two managers plan an
empty scope from different times and leave what is between them out.

*Boards.* `EventsReconcile` compares a list with `view` before and after an event, so the proof needs
to know that the event says truly what changed. `Follows` is that invariant: while the link is up, the
events on the wire lead from `view` to the server's table one by one (`Leads`), each a true account of
its step: the row before it, the row it writes, and which fields it says changed. Only `Deliver` and
`Reconnect` move `view` (`OnlyDelivered`), only the server appends to the wire, and no order between
client and server is assumed. What `applyIssueChange` then does to one list is settled by lemmas
on the helpers, for a base row that is missing or right: `ChangeAccurate` (from a list
accurate of a table, the result is accurate of the table after the change, or the key is reported stale) and
`ChangeEnters` (an issue that enters a column of the list is shown in it, or the key is reported stale).
`WrittenRight` carries that through the cache operations: a write clears the mark and the
invalidation that follows it sets it again for the reported keys. `EditsReconcile` needs only the types:
the optimistic patch and the answer carry their own rows.

Model-checked only: liveness (`QueuedIsClaimed` of the cache, `EveryTaskEnds`, `PlanEnds`), which
TLAPS does not reach. Every safety and action property of a passing run has a theorem.

## 6. Where the code differs from what is said of it

Each has a run of its own with a shortest, or fair, counterexample.

1. `promote_blocks`. Promotion moves all due rows of a daemon to queued in one `UPDATE`. If
   a row of the same issue and agent is already queued or dispatched, the unique index
   refuses it and every claim of that daemon errs. A queued sibling can then never leave the
   queue by a claim; only a cancellation or the two-hour expiry helps.
2. `retry_rolls_back`. `FailTask` inserts the retry in the transaction of the failure. With
   the next task of the same issue and agent already queued, the insert is refused, the failure
   rolls back, and the row stays running with no daemon behind it. (The sweepers' path,
   `MaybeRetryFailedTask`, fails the row first and drops the retry.)
3. `turn_jumps`. The final retry after `provider_network` waits five seconds as a deferred
   row, and a newer chat turn is claimed in that window.
4. `board_rollback`. A failed edit is said to be reconciled in `onError`. Its event ordinarily comes before
   its answer; when the answer is then lost, the rollback writes back whole lists from before the edit, over
   what the event confirmed, and the board is not invalidated on settle: the card stays in its old column,
   unmarked.
5. `autopilot_no_task`. The issue of an occurrence and its task are two transactions. If the
   attempt ends between them, the next one takes the run for complete, and the issue stays
   without a task; the comment at the check says a listener makes it, and none does.

Further disagreements are listed as hazards with the reason why no run covers them: the
fallback that is inserted after its primary has started, a runtime that is registered late and polled for before
its recovery, the cache counter that comes back to an old tag (which `empty_claim_cache.go:50-51` says it
cannot), the every_plan retry that a newer plan strands,
the second bare task of a recovered run, the retry of a dispatch that never dispatches,
and the client's stale marks, double cards and skipped pages. Also seen: `CreateRetryTask` stores the widened
`provider_network` ceiling as the child's `max_attempts`, so later failures for other reasons enjoy it too;
no text forbids that.

## 7. Plan

Done, in this order: `EmptyClaimCache`, `TaskQueue`, `TaskDispatch`, their proofs;
`CronScheduler`, `AutopilotSchedule`, their proofs; `IssueBoard`, its proofs. Left, most important first:

1. `IssueBoard`: which lists that were wrong an event or a settled edit makes right again, the merge of
   pages, overlapping handlers of one issue. Proof: `NoGap` for several scopes.
2. `ChannelInbound`: two-phase dedup with owner fencing; installation leases.
3. `ChatTurn`: input rows, cancellation against completion, deferred finalization; and the
   client's pending chat state that is merged with it (`chat/pending.ts`).
4. `CommentCoalescing`: comments that arrive while a task is pending, the delivery receipt,
   and what a requeue or a retry hands on.
5. `DaemonSlots` and `LocalDirectory`: slots, waiters, cancellation.
6. The desktop daemon manager and session coordinator: overlapping starts, stops and sign-outs.
7. `IssueStatus`: stuck `in_progress` issues; the comment on `HandleFailedTasks` (task.go
   4255-4258) names `FailTask` as a caller and the code does not call it.
8. The webhook path of autopilots, the failure monitor, `AgentStatus` (concurrent
   refreshes) and `RealtimeRelay`.

### Not modelled

Most of the repository by lines is client code that renders: views, pages, translations,
forms, typed API calls and their schemas. It has no shared state machine to check beyond component
state; the part that has one, the issue caches, is modelled. That keeps the share of the TypeScript
a definition can stand for small, whatever is modelled next. Likewise left out are CRUD handlers,
agent back ends, adapters of external services, the CLI and the deployment.

## 8. Running

```
tlc -workers 2 -config QueueFaults.cfg MCTaskQueue
tlapm TaskQueueProofs.tla
tlapm TaskRetryProofs.tla
```

Every run ends within five minutes on two cores. Every property of a passing run has a
mutant: a definition of the model changed as a plausible bug would change the code, under
which TLC finds the property violated (`PROJECT.json`, "mutants"). The mutated forms stand
before their targets in the modules and are used by no action.
