-------------------------- MODULE AutopilotSchedule --------------------------
(***************************************************************************)
(* The job that starts scheduled autopilots, on top of the scheduler: a    *)
(* scope is a trigger, a plan_time one of its occurrences, and the handler *)
(* dispatches the occurrence.  It records an autopilot_run, then creates   *)
(* an issue and its task (create_issue) or a bare task (run_only).  What   *)
(* an attempt left behind when its process died is looked up, under the    *)
(* occurrence, by the next attempt.                                        *)
(*                                                                         *)
(* One committed statement or transaction of the handler is one step.      *)
(* Triggers stay enabled; whether a dispatch is skipped, because the agent *)
(* is not ready or its last issue is too recent, is left open.             *)
(***************************************************************************)
EXTENDS CronScheduler, Sequences

VARIABLES
  execution,  \* execution_mode of the autopilot of a trigger
  runs,       \* autopilot_run rows of an occurrence, in the order of creation
  handler,    \* where the handler of each manager is, and the run it dispatches
  overtaken   \* occurrences of which a handler has run without its lease (history)

vars == <<cronVars, execution, runs, handler, overtaken>>

\* A run: whether planned_at still holds its slot, whether issue_id and task_id
\* are set, and the task that was made for it.
Run == [status: {"issue_created", "running", "completed", "failed", "skipped"},
        planned: BOOLEAN, issue: BOOLEAN, linked: BOOLEAN,
        task: {"none", "queued", "ended"}]

\* A handler: its next step.  "off" is a manager without one.
Stage == {"off", "lookup", "recover", "create", "dispatch", "enqueue", "link", "ok"}
Off == [at |-> "off", run |-> 0]

Occurrence(r) == runs[mgr[r].scope][mgr[r].plan]
This(r) == Occurrence(r)[handler[r].run]

\* The rows that hold the slot (trigger_id, planned_at); the unique index
\* allows one.
Slot(s, p) == {k \in DOMAIN runs[s][p] : runs[s][p][k].planned}

Goto(r, at, k) == handler' = [handler EXCEPT ![r] = [at |-> at, run |-> k]]
SetRun(r, f) ==
  runs' = [runs EXCEPT ![mgr[r].scope][mgr[r].plan][handler[r].run] = f]

At(r, at) == handler[r].at = at
Quiet == UNCHANGED <<cronVars, execution>>

-----------------------------------------------------------------------------
(* DispatchAutopilotForPlan                                                *)

\* isAutopilotRunComplete
CompleteAlways(x) == TRUE
CompleteByTask(x) ==
  \/ x.status \in {"completed", "failed", "skipped"}
  \/ x.status \in {"issue_created", "running"} /\ x.linked
Complete(x) ==
  \/ x.status \in {"completed", "failed", "skipped"}
  \/ x.status = "issue_created" /\ x.issue
  \/ x.status = "running" /\ x.linked

Lookup(r) ==
  /\ At(r, "lookup")
  /\ LET slot == Slot(mgr[r].scope, mgr[r].plan) IN
     \/ slot = {} /\ Goto(r, "create", 0)
     \/ \E k \in slot :
          \/ Complete(Occurrence(r)[k]) /\ Goto(r, "ok", k)
          \/ ~Complete(Occurrence(r)[k]) /\ Goto(r, "recover", k)
  /\ Quiet /\ UNCHANGED runs

\* RecoverPartialAutopilotRun
Recover(r) ==
  /\ At(r, "recover")
  /\ SetRun(r, [This(r) EXCEPT !.status = "failed", !.planned = FALSE])
  /\ Goto(r, "create", 0)
  /\ Quiet

\* CreateAutopilotRun, for a dispatch or for a skip at admission.  The unique
\* index refuses a second row of the slot.
Create(r) ==
  /\ At(r, "create")
  /\ Slot(mgr[r].scope, mgr[r].plan) = {}
  /\ \E status \in {"skipped",
                    IF execution[mgr[r].scope] = "run_only" THEN "running" ELSE "issue_created"} :
       /\ runs' = [runs EXCEPT ![mgr[r].scope][mgr[r].plan] = Append(@,
                     [status |-> status, planned |-> TRUE, issue |-> FALSE,
                      linked |-> FALSE, task |-> "none"])]
       /\ Goto(r, IF status = "skipped" THEN "ok" ELSE "dispatch", Len(Occurrence(r)) + 1)
  /\ Quiet

\* The issue and its link to the run are one transaction, the task is another.
CreateIssue(r) ==
  /\ At(r, "dispatch") /\ execution[mgr[r].scope] = "create_issue"
  /\ SetRun(r, [This(r) EXCEPT !.status = "issue_created", !.issue = TRUE])
  /\ Goto(r, "enqueue", handler[r].run)
  /\ Quiet

EnqueueTaskForIssue(r) ==
  /\ At(r, "enqueue")
  /\ SetRun(r, [This(r) EXCEPT !.task = "queued"])
  /\ Goto(r, "ok", handler[r].run)
  /\ Quiet

\* dispatchRunOnly: the task first, its link to the run in a statement of its
\* own.
CreateTask(r) ==
  /\ At(r, "dispatch") /\ execution[mgr[r].scope] = "run_only"
  /\ SetRun(r, [This(r) EXCEPT !.task = "queued"])
  /\ Goto(r, "link", handler[r].run)
  /\ Quiet

Link(r) ==
  /\ At(r, "link")
  /\ SetRun(r, [This(r) EXCEPT !.status = "running", !.linked = TRUE])
  /\ Goto(r, "ok", handler[r].run)
  /\ Quiet

\* A dispatch that finds its agent not ready, or a recent duplicate.
Skip(r) ==
  /\ At(r, "dispatch")
  /\ SetRun(r, [This(r) EXCEPT !.status = "skipped"])
  /\ Goto(r, "ok", handler[r].run)
  /\ Quiet

-----------------------------------------------------------------------------
(* The handler within the scheduler                                        *)

ClaimPlanAnyway(r, s, p) ==
  /\ Claim(r, s, p)
  /\ handler' = [handler EXCEPT ![r] = [Off EXCEPT !.at = "lookup"]]
  /\ UNCHANGED <<execution, runs>>
ClaimPlan(r, s, p) ==
  /\ Claim(r, s, p)
  /\ handler' = [handler EXCEPT ![r] = IF mgr'[r].at = "running" THEN [Off EXCEPT !.at = "lookup"]
                                                                 ELSE Off]
  /\ UNCHANGED <<execution, runs>>

Succeed(r) ==
  /\ At(r, "ok") /\ Finish(r, TRUE)
  /\ handler' = [handler EXCEPT ![r] = Off]
  /\ UNCHANGED <<execution, runs>>

\* A statement fails or the context runs out.  From the dispatch of the run on,
\* failRun marks the run, unless that statement fails too; a failed link is
\* only logged.
Fail(r) ==
  /\ handler[r].at \in {"lookup", "recover", "create", "dispatch", "enqueue"}
  /\ Finish(r, FALSE)
  /\ handler' = [handler EXCEPT ![r] = Off]
  /\ \/ UNCHANGED runs
     \/ /\ handler[r].at \in {"dispatch", "enqueue"}
        /\ SetRun(r, [This(r) EXCEPT !.status = "failed"])
  /\ UNCHANGED execution

LinkLost(r) ==
  /\ At(r, "link")
  /\ Goto(r, "ok", handler[r].run)
  /\ Quiet /\ UNCHANGED runs

Die(r) ==
  /\ Crash(r)
  /\ handler' = [handler EXCEPT ![r] = Off]
  /\ UNCHANGED <<execution, runs>>

\* The task of a run ends: SyncRunFromTask, for whatever status the run has.
\* The issue of a run ends: SyncRunFromIssue, if the run is still open.
WorkEnds(s, p, k) ==
  LET x == runs[s][p][k] IN
  /\ x.task = "queued"
  /\ \E status \in {"completed", "failed"} :
       runs' = [runs EXCEPT ![s][p][k] =
         [x EXCEPT !.task = "ended",
                   !.status = IF execution[s] = "create_issue" /\ x.status # "issue_created"
                              THEN @ ELSE status]]
  /\ Quiet /\ UNCHANGED handler

Schedule(r) ==
  /\ \/ Tick(r) \/ Sweep(r) \/ Heartbeat(r)
     \/ \E s \in Scope : PlanScope(r, s)
  /\ UNCHANGED <<execution, runs, handler>>

-----------------------------------------------------------------------------
AutopilotInit ==
  /\ Init
  /\ execution \in [Scope -> {"create_issue", "run_only"}]
  /\ runs = [s \in Scope |-> [p \in Plan |-> <<>>]]
  /\ handler = [r \in Runner |-> Off]
  /\ overtaken = {}

\* Where a handler is at work whose lease was swept or taken over.
Outlived ==
  {<<mgr[r].scope, mgr[r].plan>> : r \in {q \in Runner : mgr[q].at = "running" /\ ~Holds(q)}}

AutopilotStep ==
  \/ Advance /\ UNCHANGED <<execution, runs, handler>>
  \/ \E r \in Runner :
       \/ Schedule(r) \/ Lookup(r) \/ Recover(r) \/ Create(r) \/ CreateIssue(r)
       \/ EnqueueTaskForIssue(r) \/ CreateTask(r) \/ Link(r) \/ Skip(r)
       \/ Succeed(r) \/ Fail(r) \/ LinkLost(r) \/ Die(r)
       \/ \E s \in Scope, p \in Plan : ClaimPlan(r, s, p)
  \/ \E s \in Scope, p \in Plan : \E k \in DOMAIN runs[s][p] : WorkEnds(s, p, k)

AutopilotNext == AutopilotStep /\ overtaken' = overtaken \cup Outlived'

AutopilotSpec == AutopilotInit /\ [][AutopilotNext]_vars

-----------------------------------------------------------------------------
(* Properties                                                              *)

\* A handler is at work exactly while its manager runs a claim, and its run is
\* one of the occurrence; every occurrence has at most one run in its slot.
HandlerInv ==
  /\ execution \in [Scope -> {"create_issue", "run_only"}]
  /\ runs \in [Scope -> [Plan -> Seq(Run)]]
  /\ handler \in [Runner -> [at : Stage, run : Nat]]
  /\ \A r \in Runner :
       /\ handler[r].at = "off" <=> mgr[r].at # "running"
       /\ handler[r].at \in {"recover", "dispatch", "enqueue", "link"} =>
            handler[r].run \in DOMAIN Occurrence(r)
  /\ \A s \in Scope, p \in Plan : \A k, l \in Slot(s, p) : k = l

\* However often an occurrence is attempted, by whichever managers, it gets at
\* most one issue, unless one of its handlers went on without its lease: the
\* issue is created without a look at the lease, which that one had lost only
\* as LeaseRespected says.
OneIssue ==
  \A s \in Scope, p \in Plan : <<s, p>> \notin overtaken =>
    \A k, l \in DOMAIN runs[s][p] : runs[s][p][k].issue /\ runs[s][p][l].issue => k = l

Seen(x) == x.issue \/ x.task # "none" \/ x.status \in {"skipped", "failed"}
Shown(s, p) == \E k \in Slot(s, p) : Seen(runs[s][p][k])

\* An occurrence the scheduler holds for done has left something to see: a run
\* with an issue or a task, or one that says it was skipped or failed.  Here,
\* too, none of its handlers may have gone on without its lease.
SuccessIsVisible ==
  \A s \in Scope, p \in Plan :
    <<s, p>> \notin overtaken /\ row[s][p].status = "SUCCESS" => Shown(s, p)

\* When an occurrence is done and its run has an issue nobody has closed, a
\* task was made for the issue.
IssueIsWorked ==
  \A s \in Scope, p \in Plan : row[s][p].status = "SUCCESS" =>
    \A k \in Slot(s, p) : LET x == runs[s][p][k] IN
      x.issue /\ x.status = "issue_created" => x.task # "none"
=============================================================================
