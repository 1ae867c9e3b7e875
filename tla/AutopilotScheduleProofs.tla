----------------------- MODULE AutopilotScheduleProofs -----------------------
(***************************************************************************)
(* What holds of scheduled autopilots for any triggers, servers and        *)
(* faults.  The dispatch only adds to the scheduler, so that the leases    *)
(* hold here too; and what two attempts of an occurrence leave behind fits *)
(* together as long as each was over before its lease was taken over.      *)
(***************************************************************************)
EXTENDS AutopilotSchedule, CronSchedulerProofs, SequenceTheorems

-----------------------------------------------------------------------------
(* The dispatch runs under the scheduler                                   *)

LEMMA SchedulerStep == [AutopilotNext]_vars => [Next]_cronVars
  BY DEF AutopilotNext, AutopilotStep, vars, Schedule, Lookup, Recover, Create, CreateIssue,
     EnqueueTaskForIssue, CreateTask, Link, Skip, ClaimPlan, Succeed, Fail, LinkLost, Die,
     WorkEnds, Quiet, Next, Step

\* The job is a job of the scheduler: every behaviour of the autopilots is one
\* of CronScheduler, whose theorems hold of it.
THEOREM RunsUnderScheduler == AutopilotSpec => Spec
<1>1. AutopilotInit => Init
  BY DEF AutopilotInit
<1> QED
  BY <1>1, SchedulerStep, PTL DEF AutopilotSpec, Spec

-----------------------------------------------------------------------------
(* Runs                                                                    *)

Runs == [Scope -> [Plan -> Seq(Run)]]
HandlerType == [at : Stage, run : Nat]

\* A step that writes to one run, or records one.
Writes(s, p, k, y) ==
  /\ runs' \in Runs
  /\ DOMAIN runs'[s][p] = DOMAIN runs[s][p] \union {k}
  /\ runs'[s][p][k] = y
  /\ \A l \in DOMAIN runs[s][p] \ {k} : runs'[s][p][l] = runs[s][p][l]
  /\ \A t \in Scope, q \in Plan : t # s \/ q # p => runs'[t][q] = runs[t][q]

LEMMA RunType ==
  ASSUME runs \in Runs, NEW s \in Scope, NEW p \in Plan, NEW k \in DOMAIN runs[s][p]
  PROVE  runs[s][p] \in Seq(Run) /\ k \in 1..Len(runs[s][p]) /\ k \in Nat /\ runs[s][p][k] \in Run
<1>1. runs[s][p] \in Seq(Run)
  BY DEF Runs
<1>2. k \in 1..Len(runs[s][p]) /\ Len(runs[s][p]) \in Nat
  BY <1>1, LenProperties
<1> QED
  BY <1>1, <1>2, ElementOfSeq

LEMMA OccurrenceSet ==
  ASSUME runs \in Runs, NEW s \in Scope, NEW p \in Plan, NEW f \in Seq(Run),
         runs' = [runs EXCEPT ![s][p] = f]
  PROVE  /\ runs' \in Runs /\ runs'[s][p] = f
         /\ \A t \in Scope, q \in Plan : t # s \/ q # p => runs'[t][q] = runs[t][q]
  BY DEF Runs

LEMMA WritesRun ==
  ASSUME runs \in Runs, NEW s \in Scope, NEW p \in Plan, NEW k \in DOMAIN runs[s][p],
         NEW y \in Run, runs' = [runs EXCEPT ![s][p][k] = y]
  PROVE  Writes(s, p, k, y)
<1> DEFINE f == [runs[s][p] EXCEPT ![k] = y]
<1>1. /\ f \in Seq(Run) /\ Len(f) = Len(runs[s][p])
      /\ \A j \in 1..Len(runs[s][p]) : f[j] = IF j = k THEN y ELSE runs[s][p][j]
      /\ DOMAIN f = DOMAIN runs[s][p]
  <2>1. runs[s][p] \in Seq(Run) /\ k \in 1..Len(runs[s][p])
    BY RunType
  <2>2. DOMAIN f = DOMAIN runs[s][p]
    OBVIOUS
  <2>3. /\ f \in Seq(Run) /\ Len(f) = Len(runs[s][p])
        /\ \A j \in 1..Len(runs[s][p]) : f[j] = IF j = k THEN y ELSE runs[s][p][j]
    BY <2>1, ExceptSeq
  <2> QED
    BY <2>2, <2>3
<1>2. runs' = [runs EXCEPT ![s][p] = f]
  BY DEF Runs
<1>3. DOMAIN runs[s][p] = 1..Len(runs[s][p])
  BY RunType, LenProperties
<1> HIDE DEF f
<1>4. /\ runs' \in Runs /\ runs'[s][p] = f
      /\ \A t \in Scope, q \in Plan : t # s \/ q # p => runs'[t][q] = runs[t][q]
  BY <1>1, <1>2, OccurrenceSet
<1>5. f[k] = y /\ \A l \in DOMAIN runs[s][p] \ {k} : f[l] = runs[s][p][l]
  BY <1>1, <1>3
<1>6. DOMAIN f = DOMAIN runs[s][p] \union {k}
  BY <1>1
<1> QED
  BY <1>4, <1>5, <1>6 DEF Writes

LEMMA WritesNew ==
  ASSUME runs \in Runs, NEW s \in Scope, NEW p \in Plan, NEW y \in Run,
         runs' = [runs EXCEPT ![s][p] = Append(@, y)]
  PROVE  LET k == Len(runs[s][p]) + 1 IN
         k \in Nat /\ k \notin DOMAIN runs[s][p] /\ Writes(s, p, k, y)
<1> DEFINE f == Append(runs[s][p], y)
           n == Len(runs[s][p])
<1>1. runs[s][p] \in Seq(Run)
  BY DEF Runs
<1>2. /\ f \in Seq(Run) /\ Len(f) = n + 1 /\ \A i \in 1..n : f[i] = runs[s][p][i]
      /\ f[n + 1] = y
  BY <1>1, AppendProperties
<1>3. n \in Nat /\ DOMAIN runs[s][p] = 1..n
  BY <1>1, LenProperties
<1>4. DOMAIN f = 1..(n + 1)
  BY <1>2, LenProperties
<1>5. runs' = [runs EXCEPT ![s][p] = f]
  OBVIOUS
<1> HIDE DEF f, n
<1>6. runs' \in Runs /\ runs'[s][p] = f
      /\ \A t \in Scope, q \in Plan : t # s \/ q # p => runs'[t][q] = runs[t][q]
  BY <1>2, <1>5, OccurrenceSet
<1>7. DOMAIN f = DOMAIN runs[s][p] \union {n + 1} /\ n + 1 \notin DOMAIN runs[s][p]
  BY <1>3, <1>4
<1>8. \A l \in DOMAIN runs[s][p] \ {n + 1} : f[l] = runs[s][p][l]
  BY <1>2, <1>3
<1> QED
  BY <1>2, <1>3, <1>6, <1>7, <1>8 DEF Writes, n

-----------------------------------------------------------------------------
(* Handlers                                                                *)

\* Handlers and managers of others are left alone.
OthersKept(r) ==
  \A q \in Runner \ {r} : mgr'[q] = mgr[q] /\ handler'[q] = handler[q]

OneSlot(s, p) == \A k, l \in Slot(s, p) : k = l

\* Runs are kept, or one is written without taking the slot from another.
Grows ==
  \/ runs' = runs
  \/ \E s \in Scope, p \in Plan, k \in Nat, y \in Run :
       /\ Writes(s, p, k, y)
       /\ y.planned => Slot(s, p) \subseteq {k}

LEMMA GrowsFacts ==
  ASSUME runs \in Runs, Grows, \A s \in Scope, p \in Plan : OneSlot(s, p)
  PROVE  /\ runs' \in Runs
         /\ \A s \in Scope, p \in Plan : DOMAIN runs[s][p] \subseteq DOMAIN runs'[s][p]
         /\ \A s \in Scope, p \in Plan : OneSlot(s, p)'
<1>1. CASE runs' = runs
  BY <1>1 DEF OneSlot, Slot
<1>2. ASSUME NEW s \in Scope, NEW p \in Plan, NEW k \in Nat, NEW y \in Run,
             Writes(s, p, k, y), y.planned => Slot(s, p) \subseteq {k}
      PROVE  /\ runs' \in Runs
             /\ \A t \in Scope, q \in Plan : DOMAIN runs[t][q] \subseteq DOMAIN runs'[t][q]
             /\ \A t \in Scope, q \in Plan : OneSlot(t, q)'
  <2>1. ASSUME NEW t \in Scope, NEW q \in Plan
        PROVE  DOMAIN runs[t][q] \subseteq DOMAIN runs'[t][q] /\ OneSlot(t, q)'
    <3>1. CASE t = s /\ q = p
      <4>1. Slot(s, p)' \subseteq Slot(s, p) \union {k}
        BY <1>2 DEF Writes, Slot
      <4>2. CASE y.planned
        BY <1>2, <3>1, <4>1, <4>2 DEF Writes, OneSlot
      <4>3. CASE ~y.planned
        <5>1. Slot(s, p)' \subseteq Slot(s, p)
          BY <1>2, <4>3 DEF Writes, Slot
        <5> QED
          BY <1>2, <3>1, <5>1 DEF Writes, OneSlot
      <4> QED
        BY <4>2, <4>3
    <3>2. CASE t # s \/ q # p
      BY <1>2, <3>2 DEF Writes, OneSlot, Slot
    <3> QED
      BY <3>1, <3>2
  <2> QED
    BY <1>2, <2>1 DEF Writes
<1> QED
  BY <1>1, <1>2 DEF Grows

NeedsRun == {"recover", "dispatch", "enqueue", "link"}
HandlerAt(r) ==
  /\ handler[r].at = "off" <=> mgr[r].at # "running"
  /\ handler[r].at \in NeedsRun => handler[r].run \in DOMAIN Occurrence(r)

LEMMA HandlerParts ==
  HandlerInv <=> /\ execution \in [Scope -> {"create_issue", "run_only"}]
                 /\ runs \in Runs /\ handler \in [Runner -> HandlerType]
                 /\ \A r \in Runner : HandlerAt(r)
                 /\ \A s \in Scope, p \in Plan : OneSlot(s, p)
  BY DEF HandlerInv, Runs, HandlerType, HandlerAt, NeedsRun, OneSlot

\* A step of one handler, which keeps the others.
LEMMA HandlerStep ==
  ASSUME HandlerInv, TypeOK, NEW r \in Runner, NEW h \in HandlerType,
         handler' = [handler EXCEPT ![r] = h], UNCHANGED execution, Grows,
         \A q \in Runner \ {r} : mgr'[q] = mgr[q],
         h.at = "off" <=> mgr'[r].at # "running",
         h.at \in NeedsRun => h.run \in DOMAIN runs'[mgr'[r].scope][mgr'[r].plan]
  PROVE  HandlerInv' /\ handler'[r] = h /\ OthersKept(r)
<1>1. /\ handler' \in [Runner -> HandlerType] /\ handler'[r] = h
      /\ \A q \in Runner \ {r} : handler'[q] = handler[q]
  BY HandlerParts DEF HandlerType
<1>2. /\ runs' \in Runs
      /\ \A s \in Scope, p \in Plan : DOMAIN runs[s][p] \subseteq DOMAIN runs'[s][p]
      /\ \A s \in Scope, p \in Plan : OneSlot(s, p)'
  BY HandlerParts, GrowsFacts
<1>3. HandlerAt(r)'
  BY <1>1 DEF HandlerAt, Occurrence
<1>4. ASSUME NEW q \in Runner \ {r} PROVE HandlerAt(q)'
  <2>1. mgr[q].scope \in Scope /\ mgr[q].plan \in Plan /\ HandlerAt(q)
    BY OneManager, HandlerParts
  <2> QED
    BY <1>1, <1>2, <2>1 DEF HandlerAt, Occurrence
<1>5. execution' \in [Scope -> {"create_issue", "run_only"}]
  BY HandlerParts
<1>6. HandlerInv'
  BY <1>1, <1>2, <1>3, <1>4, <1>5 DEF HandlerInv, Runs, HandlerType, HandlerAt, NeedsRun, OneSlot
<1> QED
  BY <1>1, <1>6 DEF OthersKept

\* A handler writes to its run and goes on.
LEMMA SetRunStep ==
  ASSUME HandlerInv, TypeOK, NEW r \in Runner, NEW y \in Run, NEW h \in HandlerType,
         handler[r].at \in NeedsRun, SetRun(r, y), y.planned => This(r).planned,
         handler' = [handler EXCEPT ![r] = h], UNCHANGED execution,
         \A q \in Runner \ {r} : mgr'[q] = mgr[q],
         h.at = "off" <=> mgr'[r].at # "running",
         h.at \in NeedsRun => h.run = handler[r].run /\ mgr' = mgr
  PROVE  /\ HandlerInv' /\ handler'[r] = h /\ OthersKept(r)
         /\ Writes(mgr[r].scope, mgr[r].plan, handler[r].run, y)
<1> DEFINE s == mgr[r].scope
           p == mgr[r].plan
           k == handler[r].run
<1>1. s \in Scope /\ p \in Plan /\ k \in DOMAIN runs[s][p] /\ runs \in Runs
  BY OneManager, HandlerParts DEF HandlerAt, Occurrence
<1>2. runs' = [runs EXCEPT ![s][p][k] = y]
  BY DEF SetRun
<1>3. k \in Nat /\ Writes(s, p, k, y)
  <2> HIDE DEF s, p, k
  <2> QED
    BY <1>1, <1>2, RunType, WritesRun
<1>4. y.planned => Slot(s, p) \subseteq {k}
  <2>1. This(r) = runs[s][p][k] /\ OneSlot(s, p)
    BY <1>1, HandlerParts DEF This, Occurrence
  <2>2. y.planned => k \in Slot(s, p)
    BY <1>1, <2>1 DEF Slot
  <2> HIDE DEF s, p, k
  <2> QED
    BY <2>1, <2>2 DEF OneSlot
<1>5. Grows
  <2> HIDE DEF s, p, k
  <2> QED
    BY <1>1, <1>3, <1>4 DEF Grows
<1>6. h.at \in NeedsRun => h.run \in DOMAIN runs'[mgr'[r].scope][mgr'[r].plan]
  BY <1>1, <1>3 DEF Writes
<1> QED
  BY <1>3, <1>5, <1>6, HandlerStep

\* The stages a handler goes through change nothing in the scheduler.
LEMMA ThisType ==
  ASSUME HandlerInv, TypeOK, NEW r \in Runner, handler[r].at \in NeedsRun
  PROVE  This(r) \in Run /\ handler[r].run \in Nat /\ mgr[r].at = "running"
<1>1. HandlerAt(r) /\ runs \in Runs /\ mgr[r].scope \in Scope /\ mgr[r].plan \in Plan
  BY OneManager, HandlerParts
<1> QED
  BY <1>1, RunType DEF HandlerAt, Occurrence, This, NeedsRun

\* What a stage writes.  At most one run of the occurrence is written.
RunStep(r) ==
  /\ mgr[r].at = "running" /\ OthersKept(r)
  /\ \/ runs' = runs
     \/ \E k \in Nat, y \in Run : Writes(mgr[r].scope, mgr[r].plan, k, y)

LEMMA LookupHandler ==
  ASSUME HandlerInv, TypeOK, NEW r \in Runner, Lookup(r)
  PROVE  HandlerInv' /\ RunStep(r)
<1>1. handler[r].at = "lookup" /\ mgr[r].at = "running"
  BY HandlerParts DEF Lookup, At, HandlerAt
<1>2. PICK h \in HandlerType :
        /\ handler' = [handler EXCEPT ![r] = h] /\ h.at # "off"
        /\ h.at \in NeedsRun => h.run \in DOMAIN Occurrence(r)
  <2>1. \A k \in Slot(mgr[r].scope, mgr[r].plan) :
          k \in DOMAIN Occurrence(r) /\ k \in Nat
    BY OneManager, HandlerParts, RunType DEF Slot, Occurrence
  <2>2. ASSUME NEW k \in Nat, NEW at \in {"create", "ok", "recover"},
               at = "recover" => k \in DOMAIN Occurrence(r), Goto(r, at, k)
        PROVE  \E h \in HandlerType :
                 /\ handler' = [handler EXCEPT ![r] = h] /\ h.at # "off"
                 /\ h.at \in NeedsRun => h.run \in DOMAIN Occurrence(r)
    <3> DEFINE h == [at |-> at, run |-> k]
    <3>1. h \in HandlerType /\ h.at = at /\ h.run = k
      BY DEF HandlerType, Stage
    <3>2. handler' = [handler EXCEPT ![r] = h]
      BY <2>2 DEF Goto
    <3> HIDE DEF h
    <3> QED
      BY <2>2, <3>1, <3>2 DEF NeedsRun
  <2> QED
    BY <2>1, <2>2 DEF Lookup
<1>3. UNCHANGED <<execution, runs, mgr>>
  BY DEF Lookup, Quiet, cronVars
<1> QED
  BY <1>1, <1>2, <1>3, HandlerStep DEF Grows, RunStep, Occurrence

LEMMA RecoverHandler ==
  ASSUME HandlerInv, TypeOK, NEW r \in Runner, Recover(r)
  PROVE  /\ HandlerInv' /\ RunStep(r) /\ handler'[r].at = "create"
         /\ Writes(mgr[r].scope, mgr[r].plan, handler[r].run,
                   [This(r) EXCEPT !.status = "failed", !.planned = FALSE])
<1> DEFINE y == [This(r) EXCEPT !.status = "failed", !.planned = FALSE]
           h == [at |-> "create", run |-> 0]
<1>1. handler[r].at \in NeedsRun /\ UNCHANGED <<execution, mgr>>
  BY DEF Recover, At, NeedsRun, Quiet, cronVars
<1>2. y \in Run /\ ~y.planned /\ h \in HandlerType /\ h.at = "create"
  BY <1>1, ThisType DEF Run, HandlerType, Stage
<1>3. SetRun(r, y) /\ handler' = [handler EXCEPT ![r] = h]
  BY DEF Recover, Goto
<1>4. mgr[r].at = "running" /\ handler[r].run \in Nat
  BY <1>1, ThisType
<1> HIDE DEF y, h
<1>5. HandlerInv' /\ handler'[r] = h /\ OthersKept(r)
      /\ Writes(mgr[r].scope, mgr[r].plan, handler[r].run, y)
  BY <1>1, <1>2, <1>3, <1>4, SetRunStep DEF NeedsRun
<1> QED
  BY <1>2, <1>4, <1>5 DEF RunStep, y

\* From the dispatch on a handler writes to its run and keeps the slot.
Next1(r, at, y) ==
  /\ HandlerInv' /\ RunStep(r) /\ handler'[r] = [at |-> at, run |-> handler[r].run]
  /\ Writes(mgr[r].scope, mgr[r].plan, handler[r].run, y)

LEMMA StageHandler ==
  ASSUME HandlerInv, TypeOK, NEW r \in Runner, NEW y \in Run, NEW at \in Stage \ {"off"},
         handler[r].at \in NeedsRun, SetRun(r, y), y.planned = This(r).planned,
         Goto(r, at, handler[r].run), Quiet
  PROVE  Next1(r, at, y)
<1> DEFINE h == [at |-> at, run |-> handler[r].run]
<1>1. mgr[r].at = "running" /\ handler[r].run \in Nat
  BY ThisType
<1>2. h \in HandlerType /\ h.at = at /\ h.run = handler[r].run
  BY <1>1 DEF HandlerType
<1>3. handler' = [handler EXCEPT ![r] = h] /\ UNCHANGED <<execution, mgr>>
  BY DEF Goto, Quiet, cronVars
<1> HIDE DEF h
<1>4. HandlerInv' /\ handler'[r] = h /\ OthersKept(r)
      /\ Writes(mgr[r].scope, mgr[r].plan, handler[r].run, y)
  BY <1>1, <1>2, <1>3, SetRunStep
<1> QED
  BY <1>1, <1>4 DEF RunStep, Next1, h

IssueMade(x) == [x EXCEPT !.status = "issue_created", !.issue = TRUE]
TaskMade(x) == [x EXCEPT !.task = "queued"]
Linked(x) == [x EXCEPT !.status = "running", !.linked = TRUE]
Skipped(x) == [x EXCEPT !.status = "skipped"]
Failed(x) == [x EXCEPT !.status = "failed"]

LEMMA Changes ==
  ASSUME NEW x \in Run
  PROVE  \A y \in {IssueMade(x), TaskMade(x), Linked(x), Skipped(x), Failed(x)} :
           y \in Run /\ y.planned = x.planned
  BY DEF Run, IssueMade, TaskMade, Linked, Skipped, Failed

LEMMA DispatchHandler ==
  ASSUME HandlerInv, TypeOK, NEW r \in Runner
  PROVE  /\ CreateIssue(r) => Next1(r, "enqueue", IssueMade(This(r)))
         /\ EnqueueTaskForIssue(r) => Next1(r, "ok", TaskMade(This(r)))
         /\ CreateTask(r) => Next1(r, "link", TaskMade(This(r)))
         /\ Link(r) => Next1(r, "ok", Linked(This(r)))
         /\ Skip(r) => Next1(r, "ok", Skipped(This(r)))
<1>1. {"enqueue", "ok", "link"} \subseteq Stage \ {"off"}
  BY DEF Stage
<1>2. CASE handler[r].at \in NeedsRun
  <2>1. This(r) \in Run
    BY <1>2, ThisType
  <2>2. CreateIssue(r) => Next1(r, "enqueue", IssueMade(This(r)))
    BY <1>1, <1>2, <2>1, Changes, StageHandler DEF CreateIssue, IssueMade
  <2>3. EnqueueTaskForIssue(r) => Next1(r, "ok", TaskMade(This(r)))
    BY <1>1, <1>2, <2>1, Changes, StageHandler DEF EnqueueTaskForIssue, TaskMade
  <2>4. CreateTask(r) => Next1(r, "link", TaskMade(This(r)))
    BY <1>1, <1>2, <2>1, Changes, StageHandler DEF CreateTask, TaskMade
  <2>5. Link(r) => Next1(r, "ok", Linked(This(r)))
    BY <1>1, <1>2, <2>1, Changes, StageHandler DEF Link, Linked
  <2>6. Skip(r) => Next1(r, "ok", Skipped(This(r)))
    BY <1>1, <1>2, <2>1, Changes, StageHandler DEF Skip, Skipped
  <2> QED
    BY <2>2, <2>3, <2>4, <2>5, <2>6
<1>3. CASE handler[r].at \notin NeedsRun
  BY <1>3 DEF CreateIssue, EnqueueTaskForIssue, CreateTask, Link, Skip, At, NeedsRun
<1> QED
  BY <1>2, <1>3

LEMMA LinkLostHandler ==
  ASSUME HandlerInv, TypeOK, NEW r \in Runner, LinkLost(r)
  PROVE  HandlerInv' /\ RunStep(r) /\ handler'[r].at = "ok" /\ runs' = runs
<1> DEFINE h == [at |-> "ok", run |-> handler[r].run]
<1>1. handler[r].at \in NeedsRun /\ UNCHANGED <<execution, mgr, runs>>
  BY DEF LinkLost, At, NeedsRun, Quiet, cronVars
<1>2. h \in HandlerType /\ h.at = "ok" /\ mgr[r].at = "running"
  BY <1>1, ThisType DEF HandlerType, Stage
<1>3. handler' = [handler EXCEPT ![r] = h]
  BY DEF LinkLost, Goto
<1> HIDE DEF h
<1> QED
  BY <1>1, <1>2, <1>3, HandlerStep DEF Grows, RunStep, NeedsRun

\* A new run, at the dispatch unless it was skipped at admission.
NewRun(status) ==
  [status |-> status, planned |-> TRUE, issue |-> FALSE, linked |-> FALSE, task |-> "none"]

LEMMA CreateHandler ==
  ASSUME HandlerInv, TypeOK, NEW r \in Runner, Create(r)
  PROVE  /\ HandlerInv' /\ RunStep(r)
         /\ \E status \in {"skipped", "running", "issue_created"}, k \in Nat :
              /\ Writes(mgr[r].scope, mgr[r].plan, k, NewRun(status))
              /\ handler'[r] = [at |-> IF status = "skipped" THEN "ok" ELSE "dispatch",
                                run |-> k]
<1> DEFINE s == mgr[r].scope
           p == mgr[r].plan
<1>1. /\ s \in Scope /\ p \in Plan /\ handler[r].at = "create" /\ mgr[r].at = "running"
      /\ runs \in Runs /\ UNCHANGED <<execution, mgr>> /\ Slot(s, p) = {}
  BY OneManager, HandlerParts DEF Create, At, HandlerAt, Quiet, cronVars
<1>2. PICK status \in {"skipped", "running", "issue_created"} :
        /\ runs' = [runs EXCEPT ![s][p] = Append(@, NewRun(status))]
        /\ Goto(r, IF status = "skipped" THEN "ok" ELSE "dispatch", Len(Occurrence(r)) + 1)
  BY DEF Create, NewRun
<1> DEFINE k == Len(Occurrence(r)) + 1
           h == [at |-> IF status = "skipped" THEN "ok" ELSE "dispatch", run |-> k]
<1>3. NewRun(status) \in Run
  BY DEF NewRun, Run
<1>4. k \in Nat /\ Writes(s, p, k, NewRun(status))
  BY <1>1, <1>2, <1>3, WritesNew DEF Occurrence
<1>5. /\ h \in HandlerType /\ h.at \in {"ok", "dispatch"} /\ h.run = k
  BY <1>4 DEF HandlerType, Stage
<1>6. handler' = [handler EXCEPT ![r] = h]
  BY <1>2 DEF Goto
<1>7. Grows
  BY <1>1, <1>3, <1>4 DEF Grows
<1>8. k \in DOMAIN runs'[s][p]
  BY <1>4 DEF Writes
<1> HIDE DEF h, k
<1>9. HandlerInv' /\ handler'[r] = h /\ OthersKept(r)
  BY <1>1, <1>5, <1>6, <1>7, <1>8, HandlerStep
<1> QED
  BY <1>1, <1>3, <1>4, <1>9 DEF RunStep, h

-----------------------------------------------------------------------------
(* Handlers in the scheduler                                               *)

\* A step of the scheduler that starts and ends no handler.
SameHandlers ==
  \A q \in Runner : /\ mgr'[q].at = "running" <=> mgr[q].at = "running"
                    /\ mgr'[q].at = "running" => SameClaim(mgr[q], mgr'[q])

LEMMA ScheduleKeeps ==
  ASSUME LeaseInv, NEW r \in Runner, Schedule(r)
  PROVE  SameHandlers
<1>1. KeepsLeases
  BY TickQuiet, SweepQuiet, HeartbeatQuiet, PlanScopeQuiet DEF Schedule
<1>2. \A q \in Runner \ {r} : mgr'[q] = mgr[q]
  BY Typed DEF Schedule, Tick, Sweep, Heartbeat, PlanScope, TypeOK
<1>3. CASE Heartbeat(r)
  <2>1. mgr[r].at = "running" /\ mgr[r] \in Manager /\ mgr' = [mgr EXCEPT ![r].beat = clock]
    BY <1>3, Typed, OneManager DEF Heartbeat, Holds
  <2>2. mgr'[r] = [mgr[r] EXCEPT !.beat = clock]
    BY <2>1, Typed DEF TypeOK
  <2>3. mgr'[r].at = "running"
    BY <2>1, <2>2 DEF Manager
  <2> QED
    BY <1>1, <1>2, <2>1, <2>3 DEF SameHandlers, KeepsLeases
<1>4. CASE ~Heartbeat(r)
  <2>1. mgr[r].at # "running"
    BY <1>4 DEF Schedule, Tick, Sweep, PlanScope
  <2> QED
    BY <1>1, <1>2, <2>1 DEF SameHandlers, KeepsLeases, SameClaim
<1> QED
  BY <1>3, <1>4

LEMMA SameHandlersHandler ==
  ASSUME HandlerInv, SameHandlers, UNCHANGED <<execution, runs, handler>>
  PROVE  HandlerInv'
<1>1. ASSUME NEW r \in Runner PROVE HandlerAt(r)'
  <2>1. HandlerAt(r) /\ (mgr'[r].at = "running" => SameClaim(mgr[r], mgr'[r]))
        /\ (mgr'[r].at = "running" <=> mgr[r].at = "running")
    BY HandlerParts DEF SameHandlers
  <2> QED
    BY <2>1 DEF HandlerAt, Occurrence, SameClaim, NeedsRun
<1>2. \A s \in Scope, p \in Plan : OneSlot(s, p)'
  BY HandlerParts DEF OneSlot, Slot
<1> QED
  BY <1>1, <1>2, HandlerParts DEF HandlerInv, Runs, HandlerType, HandlerAt, NeedsRun, OneSlot

\* A claim starts a handler at its first stage, or none.
LEMMA ClaimHandler ==
  ASSUME HandlerInv, LeaseInv, NEW r \in Runner, NEW s \in Scope, NEW p \in Plan,
         ClaimPlan(r, s, p)
  PROVE  /\ HandlerInv' /\ OthersKept(r) /\ runs' = runs
         /\ handler'[r].at \in {"lookup", "off"} /\ mgr[r].at # "running"
<1> DEFINE h == IF mgr'[r].at = "running" THEN [Off EXCEPT !.at = "lookup"] ELSE Off
<1>1. /\ Claim(r, s, p) /\ UNCHANGED <<execution, runs>>
      /\ handler' = [handler EXCEPT ![r] = h]
  BY DEF ClaimPlan
<1>2. h \in HandlerType /\ h.at \in {"lookup", "off"} /\ (h.at = "off" <=> mgr'[r].at # "running")
  BY DEF Off, HandlerType, Stage
<1>3. \A q \in Runner \ {r} : mgr'[q] = mgr[q]
  BY <1>1, Typed DEF Claim, TypeOK
<1> HIDE DEF h
<1>4. HandlerInv' /\ handler'[r] = h /\ OthersKept(r)
  BY <1>1, <1>2, <1>3, Typed, HandlerStep DEF Grows, NeedsRun
<1> QED
  BY <1>1, <1>2, <1>4 DEF Claim

LEMMA OffType == Off \in HandlerType /\ Off.at = "off"
  BY DEF Off, HandlerType, Stage

LEMMA EndHandler ==
  ASSUME HandlerInv, LeaseInv, NEW r \in Runner,
         \E m \in Manager : mgr' = [mgr EXCEPT ![r] = m] /\ m.at # "running",
         handler' = [handler EXCEPT ![r] = Off], UNCHANGED <<execution, runs>>
  PROVE  HandlerInv' /\ OthersKept(r) /\ handler'[r].at = "off" /\ mgr'[r].at # "running"
<1>1. /\ mgr'[r].at # "running" /\ \A q \in Runner \ {r} : mgr'[q] = mgr[q]
  BY Typed, SetManager
<1>2. Grows /\ Off.at \notin NeedsRun /\ TypeOK
  BY Typed, OffType DEF Grows, NeedsRun
<1>3. HandlerInv' /\ handler'[r] = Off /\ OthersKept(r)
  BY <1>1, <1>2, OffType, HandlerStep
<1> QED
  BY <1>1, <1>3, OffType

LEMMA FinishEnds ==
  ASSUME LeaseInv, NEW r \in Runner, NEW ok \in BOOLEAN, Finish(r, ok)
  PROVE  \E m \in Manager : mgr' = [mgr EXCEPT ![r] = m] /\ m.at # "running"
  BY Typed, OneManager, ResumeType DEF Finish

LEMMA CrashEnds ==
  ASSUME LeaseInv, NEW r \in Runner, Crash(r)
  PROVE  \E m \in Manager : mgr' = [mgr EXCEPT ![r] = m] /\ m.at # "running"
  BY Typed, IdleType DEF Crash

LEMMA FailHandler ==
  ASSUME HandlerInv, LeaseInv, NEW r \in Runner, Fail(r)
  PROVE  /\ HandlerInv' /\ OthersKept(r) /\ handler'[r].at = "off" /\ mgr'[r].at # "running"
         /\ \/ runs' = runs
            \/ /\ handler[r].at \in NeedsRun
               /\ Writes(mgr[r].scope, mgr[r].plan, handler[r].run, Failed(This(r)))
<1>1. /\ \E m \in Manager : mgr' = [mgr EXCEPT ![r] = m] /\ m.at # "running"
      /\ handler' = [handler EXCEPT ![r] = Off] /\ UNCHANGED execution
  BY FinishEnds DEF Fail
<1>2. CASE runs' = runs
  BY <1>1, <1>2, EndHandler
<1>3. CASE handler[r].at \in NeedsRun /\ SetRun(r, Failed(This(r)))
  <2>1. /\ mgr'[r].at # "running" /\ \A q \in Runner \ {r} : mgr'[q] = mgr[q]
    BY <1>1, Typed, SetManager
  <2>2. Failed(This(r)) \in Run /\ Failed(This(r)).planned = This(r).planned
    BY <1>3, Typed, ThisType, Changes
  <2>3. /\ HandlerInv' /\ handler'[r] = Off /\ OthersKept(r)
        /\ Writes(mgr[r].scope, mgr[r].plan, handler[r].run, Failed(This(r)))
    BY <1>1, <1>3, <2>1, <2>2, Typed, OffType, SetRunStep DEF NeedsRun
  <2> QED
    BY <1>3, <2>1, <2>3, OffType
<1> QED
  BY <1>2, <1>3 DEF Fail, NeedsRun, Failed

\* The end of the work of a run keeps its slot, its issue and its link.
Ended(x, status) == [x EXCEPT !.task = "ended", !.status = status]

LEMMA WorkEndsHandler ==
  ASSUME HandlerInv, TypeOK, NEW s \in Scope, NEW p \in Plan, NEW k \in DOMAIN runs[s][p],
         WorkEnds(s, p, k)
  PROVE  /\ HandlerInv' /\ UNCHANGED <<cronVars, handler>>
         /\ \E status \in {runs[s][p][k].status, "completed", "failed"} :
              Writes(s, p, k, Ended(runs[s][p][k], status))
<1> DEFINE x == runs[s][p][k]
<1>1. x \in Run /\ k \in Nat /\ runs \in Runs /\ OneSlot(s, p)
  BY HandlerParts, RunType
<1>2. PICK status \in {x.status, "completed", "failed"} :
        runs' = [runs EXCEPT ![s][p][k] = Ended(x, status)]
  BY DEF WorkEnds, Ended
<1>3. Ended(x, status) \in Run /\ Ended(x, status).planned = x.planned
  BY <1>1 DEF Run, Ended
<1>4. Writes(s, p, k, Ended(x, status))
  BY <1>1, <1>2, <1>3, WritesRun
<1>5. UNCHANGED <<cronVars, execution, handler>> /\ mgr' = mgr
  BY DEF WorkEnds, Quiet, cronVars
<1>6. x.planned => Slot(s, p) \subseteq {k}
  BY <1>1 DEF OneSlot, Slot
<1>7. Grows
  BY <1>1, <1>3, <1>4, <1>6 DEF Grows
<1>8. /\ runs' \in Runs
      /\ \A t \in Scope, q \in Plan : DOMAIN runs[t][q] \subseteq DOMAIN runs'[t][q]
      /\ \A t \in Scope, q \in Plan : OneSlot(t, q)'
  BY <1>7, HandlerParts, GrowsFacts
<1>9. ASSUME NEW r \in Runner PROVE HandlerAt(r)'
  <2>1. mgr[r].scope \in Scope /\ mgr[r].plan \in Plan /\ HandlerAt(r)
    BY OneManager, HandlerParts
  <2> QED
    BY <1>5, <1>8, <2>1 DEF HandlerAt, Occurrence
<1>10. HandlerInv'
  BY <1>5, <1>8, <1>9, HandlerParts
  DEF HandlerInv, Runs, HandlerType, HandlerAt, NeedsRun, OneSlot
<1> QED
  BY <1>4, <1>5, <1>10

LEMMA InitHandler == AutopilotInit => HandlerInv
<1> SUFFICES ASSUME AutopilotInit PROVE HandlerInv
  OBVIOUS
<1>1. runs \in Runs /\ \A s \in Scope, p \in Plan : runs[s][p] = << >>
  BY EmptySeq DEF AutopilotInit, Runs
<1>2. \A s \in Scope, p \in Plan : Slot(s, p) = {}
  <2>1. DOMAIN << >> = {}
    OBVIOUS
  <2> QED
    BY <1>1, <2>1 DEF Slot
<1>3. handler \in [Runner -> HandlerType] /\ \A r \in Runner : handler[r].at = "off"
  BY OffType DEF AutopilotInit
<1>4. \A r \in Runner : mgr[r].at = "idle"
  BY DEF AutopilotInit, Init, Idle
<1> QED
  BY <1>1, <1>2, <1>3, <1>4, HandlerParts DEF AutopilotInit, HandlerAt, NeedsRun, OneSlot

LEMMA NextHandler ==
  ASSUME LeaseInv, HandlerInv, [AutopilotNext]_vars PROVE HandlerInv'
<1>1. CASE UNCHANGED vars \/ (Advance /\ UNCHANGED <<execution, runs, handler>>)
  <2>1. SameHandlers /\ UNCHANGED <<execution, runs, handler>>
    BY <1>1 DEF vars, cronVars, Advance, SameHandlers, SameClaim
  <2> QED
    BY <2>1, SameHandlersHandler
<1>2. ASSUME NEW r \in Runner, Schedule(r) PROVE HandlerInv'
  BY <1>2, ScheduleKeeps, SameHandlersHandler DEF Schedule
<1>3. ASSUME NEW r \in Runner, Lookup(r) \/ Recover(r) \/ Create(r) \/ LinkLost(r) PROVE HandlerInv'
  BY <1>3, Typed, LookupHandler, RecoverHandler, CreateHandler, LinkLostHandler
<1>4. ASSUME NEW r \in Runner,
             CreateIssue(r) \/ EnqueueTaskForIssue(r) \/ CreateTask(r) \/ Link(r) \/ Skip(r)
      PROVE  HandlerInv'
  BY <1>4, Typed, DispatchHandler DEF Next1
<1>5. ASSUME NEW r \in Runner, Succeed(r) \/ Die(r) PROVE HandlerInv'
  BY <1>5, FinishEnds, CrashEnds, EndHandler DEF Succeed, Die
<1>6. ASSUME NEW r \in Runner, Fail(r) PROVE HandlerInv'
  BY <1>6, FailHandler
<1>7. ASSUME NEW r \in Runner, NEW s \in Scope, NEW p \in Plan, ClaimPlan(r, s, p) PROVE HandlerInv'
  BY <1>7, ClaimHandler
<1>8. ASSUME NEW s \in Scope, NEW p \in Plan, NEW k \in DOMAIN runs[s][p], WorkEnds(s, p, k)
      PROVE  HandlerInv'
  BY <1>8, Typed, WorkEndsHandler
<1> QED
  BY <1>1, <1>2, <1>3, <1>4, <1>5, <1>6, <1>7, <1>8 DEF AutopilotNext, AutopilotStep

LEMMA LeaseHere == AutopilotSpec => []LeaseInv
  BY RunsUnderScheduler, LeaseInvariant, PTL

\* A handler is at work exactly while its manager runs a claim, on a run of the
\* occurrence, and an occurrence has one run in its slot.
THEOREM HandlerInvariant == AutopilotSpec => []HandlerInv
<1>1. LeaseInv /\ HandlerInv /\ [AutopilotNext]_vars => HandlerInv'
  BY NextHandler
<1> QED
  BY <1>1, InitHandler, LeaseHere, PTL DEF AutopilotSpec

-----------------------------------------------------------------------------
(* What the attempts of an occurrence leave behind                         *)

\* A run with an issue keeps its slot and never counts as a run_only one; a
\* completed or linked run has a task.
RunOK(x) ==
  /\ x.issue => x.planned /\ x.status # "running"
  /\ x.linked => x.task # "none"
  /\ x.status = "completed" => x.task # "none"

\* What a handler may rely on at its stage.
StageOK(r) ==
  /\ handler[r].at \in {"recover", "dispatch", "link"} => ~This(r).issue
  /\ handler[r].at \in {"dispatch", "enqueue", "link"} => This(r).planned
  /\ handler[r].at = "link" => This(r).task # "none"
  /\ handler[r].at = "ok" => Shown(mgr[r].scope, mgr[r].plan)

\* An occurrence none of whose handlers has run without its lease, and a
\* manager that is at such a one.
Clean(s, p) == <<s, p>> \notin overtaken
Mine(r) == Clean(mgr[r].scope, mgr[r].plan)

AllRunsOK ==
  \A s \in Scope, p \in Plan : Clean(s, p) => \A k \in DOMAIN runs[s][p] : RunOK(runs[s][p][k])

\* A handler without its lease is on record.
Watched == \A r \in Runner : mgr[r].at = "running" /\ ~Holds(r) => ~Mine(r)

WorkInv ==
  /\ HandlerInv /\ Watched /\ AllRunsOK /\ SuccessIsVisible
  /\ \A r \in Runner : Mine(r) => StageOK(r)

\* What every step does to the record.
Records == Watched' /\ overtaken \subseteq overtaken'

LEMMA NextRecords == ASSUME Watched, [AutopilotNext]_vars PROVE Records
<1>1. CASE UNCHANGED vars
  BY <1>1 DEF Records, Watched, Mine, Clean, Holds, Owns, Lease, vars, cronVars
<1>2. CASE AutopilotNext
  <2>1. overtaken' = overtaken \union Outlived'
    BY <1>2 DEF AutopilotNext
  <2>2. \A r \in Runner : mgr'[r].at = "running" /\ ~Holds(r)' =>
          <<mgr'[r].scope, mgr'[r].plan>> \in Outlived'
    BY DEF Outlived
  <2> QED
    BY <2>1, <2>2 DEF Records, Watched, Mine, Clean
<1> QED
  BY <1>1, <1>2

LEMMA CleanBefore ==
  ASSUME Records, NEW s, NEW p, Clean(s, p)' PROVE Clean(s, p)
  BY DEF Records, Clean

\* A handler of a clean occurrence is at work under its lease, and no other is
\* at that occurrence.
LEMMA AtWork ==
  ASSUME LeaseInv, WorkInv, NEW r \in Runner, mgr[r].at = "running", Mine(r)
  PROVE  /\ mgr[r].scope \in Scope /\ mgr[r].plan \in Plan /\ Lease(r).status = "RUNNING"
         /\ \A q \in Runner \ {r} : mgr[q].at = "running" => ~Same(r, q)
<1>1. TypeOK /\ Holds(r)
  BY Typed DEF WorkInv, Watched
<1>2. ASSUME NEW q \in Runner \ {r}, mgr[q].at = "running", Same(r, q) PROVE FALSE
  <2>1. Holds(q)
    BY <1>2 DEF WorkInv, Watched, Mine, Same
  <2> QED
    BY <1>1, <1>2, <2>1, OneHolderOfLease DEF OneHolder
<1> QED
  BY <1>1, <1>2, OneManager DEF Holds, Owns

LEMMA SlotKept ==
  ASSUME NEW s \in Scope, NEW p \in Plan, runs'[s][p] = runs[s][p]
  PROVE  Slot(s, p)' = Slot(s, p) /\ (Shown(s, p)' <=> Shown(s, p))
  BY DEF Slot, Shown

\* The step of a handler writes to its own occurrence only, so that nobody
\* else has to look again.
LEMMA OwnOccurrence ==
  ASSUME LeaseInv, WorkInv, Records, HandlerInv', NEW r \in Runner, Mine(r), mgr[r].at = "running", OthersKept(r),
         \/ runs' = runs
         \/ \E k \in Nat, y \in Run : Writes(mgr[r].scope, mgr[r].plan, k, y) /\ RunOK(y),
         \A s \in Scope, p \in Plan :
           row'[s][p].status = "SUCCESS" /\ row[s][p].status # "SUCCESS" =>
             s = mgr[r].scope /\ p = mgr[r].plan /\ Shown(s, p)',
         \A s \in Scope, p \in Plan :
           row'[s][p].status = "SUCCESS" => row[s][p].status = "SUCCESS" \/ Shown(s, p)',
         StageOK(r)'
  PROVE  WorkInv'
<1> DEFINE s0 == mgr[r].scope
           p0 == mgr[r].plan
<1>1. s0 \in Scope /\ p0 \in Plan /\ row[s0][p0].status = "RUNNING"
  BY AtWork DEF Lease
<1>2. \A s \in Scope, p \in Plan : s # s0 \/ p # p0 => runs'[s][p] = runs[s][p]
  BY DEF Writes
<1>3. AllRunsOK'
  <2>1. CASE runs' = runs
    BY <2>1, CleanBefore DEF WorkInv, AllRunsOK
  <2>2. ASSUME NEW k \in Nat, NEW y \in Run, Writes(s0, p0, k, y), RunOK(y) PROVE AllRunsOK'
    <3> SUFFICES ASSUME NEW s \in Scope, NEW p \in Plan, Clean(s, p),
                        NEW l \in DOMAIN runs'[s][p]
                 PROVE  RunOK(runs'[s][p][l])
      BY CleanBefore DEF AllRunsOK
    <3>1. CASE s = s0 /\ p = p0
      BY <2>2, <3>1 DEF Writes, WorkInv, AllRunsOK
    <3>2. CASE s # s0 \/ p # p0
      BY <1>2, <3>2 DEF WorkInv, AllRunsOK
    <3> QED
      BY <3>1, <3>2
  <2> QED
    BY <2>1, <2>2
<1>4. SuccessIsVisible'
  <2> SUFFICES ASSUME NEW s \in Scope, NEW p \in Plan, Clean(s, p), row'[s][p].status = "SUCCESS"
               PROVE  Shown(s, p)'
    BY CleanBefore DEF SuccessIsVisible, Clean
  <2>1. CASE row[s][p].status = "SUCCESS"
    <3>1. s # s0 \/ p # p0
      BY <1>1, <2>1
    <3> QED
      BY <1>2, <2>1, <3>1, SlotKept DEF WorkInv, SuccessIsVisible, Clean
  <2> QED
    BY <2>1
<1>5. ASSUME NEW q \in Runner, Mine(q)' PROVE StageOK(q)'
  <2>1. CASE q = r
    BY <2>1
  <2>2. CASE q # r /\ mgr[q].at # "running"
    <3>1. handler'[q].at = "off"
      BY <2>2, HandlerParts DEF OthersKept, WorkInv, HandlerAt
    <3> QED
      BY <3>1 DEF StageOK
  <2>3. CASE q # r /\ mgr[q].at = "running"
    <3>0. mgr'[q] = mgr[q] /\ handler'[q] = handler[q]
      BY <2>3 DEF OthersKept
    <3>1. /\ mgr'[q] = mgr[q] /\ handler'[q] = handler[q] /\ StageOK(q)
          /\ mgr[q].scope \in Scope /\ mgr[q].plan \in Plan /\ ~Same(r, q)
      <4>1. Mine(q)
        BY <1>5, <3>0 DEF Mine, Records, Clean
      <4> QED
        BY <2>3, <3>0, <4>1, AtWork DEF WorkInv
    <3>2. runs'[mgr[q].scope][mgr[q].plan] = runs[mgr[q].scope][mgr[q].plan]
      BY <1>2, <3>1 DEF Same
    <3>3. This(q)' = This(q)
      BY <3>1, <3>2 DEF This, Occurrence
    <3>4. Shown(mgr[q].scope, mgr[q].plan)' <=> Shown(mgr[q].scope, mgr[q].plan)
      <4> DEFINE s == mgr[q].scope
                 p == mgr[q].plan
      <4>1. s \in Scope /\ p \in Plan /\ s' = s /\ p' = p /\ runs'[s][p] = runs[s][p]
        BY <3>1, <3>2
      <4> QED
        BY <4>1 DEF Slot, Shown
    <3> QED
      BY <3>1, <3>3, <3>4 DEF StageOK
  <2> QED
    BY <2>1, <2>2, <2>3
<1> QED
  BY <1>3, <1>4, <1>5 DEF WorkInv, Records

\* Nor has it where the occurrence of the step is not clean.
LEMMA Elsewhere ==
  ASSUME LeaseInv, WorkInv, Records, HandlerInv', NEW s \in Scope, NEW p \in Plan, ~Clean(s, p),
         \A t \in Scope, u \in Plan : t # s \/ u # p => runs'[t][u] = runs[t][u],
         \A t \in Scope, u \in Plan : t # s \/ u # p =>
           (row'[t][u].status = "SUCCESS" => row[t][u].status = "SUCCESS"),
         \A q \in Runner : \/ handler'[q].at = "off"
                           \/ mgr'[q].scope = s /\ mgr'[q].plan = p
                           \/ handler'[q] = handler[q] /\ mgr'[q] = mgr[q]
  PROVE  WorkInv'
<1>1. ASSUME NEW t, NEW u, Clean(t, u)' PROVE Clean(t, u) /\ (t # s \/ u # p)
  BY <1>1, CleanBefore
<1>2. AllRunsOK'
  BY <1>1 DEF WorkInv, AllRunsOK
<1>3. SuccessIsVisible'
  <2> SUFFICES ASSUME NEW t \in Scope, NEW u \in Plan, Clean(t, u)', row'[t][u].status = "SUCCESS"
               PROVE  Shown(t, u)'
    BY DEF SuccessIsVisible, Clean
  <2>1. Clean(t, u) /\ runs'[t][u] = runs[t][u] /\ row[t][u].status = "SUCCESS"
    BY <1>1
  <2> QED
    BY <2>1, SlotKept DEF WorkInv, SuccessIsVisible, Clean
<1>4. ASSUME NEW q \in Runner, Mine(q)' PROVE StageOK(q)'
  <2>1. CASE handler'[q].at = "off"
    BY <2>1 DEF StageOK
  <2>2. mgr'[q].scope # s \/ mgr'[q].plan # p
    BY <1>4 DEF Mine, Records, Clean
  <2>3. CASE handler'[q] = handler[q] /\ mgr'[q] = mgr[q]
    <3> DEFINE t == mgr[q].scope
               u == mgr[q].plan
    <3>1. t \in Scope /\ u \in Plan /\ t' = t /\ u' = u /\ Mine(q)
      BY <1>4, <2>3, Typed, OneManager DEF Mine, Records, Clean
    <3>2. runs'[t][u] = runs[t][u] /\ StageOK(q)
      BY <2>2, <2>3, <3>1 DEF WorkInv
    <3>3. This(q)' = This(q)
      BY <2>3, <3>2 DEF This, Occurrence
    <3>4. Shown(mgr[q].scope, mgr[q].plan)' <=> Shown(mgr[q].scope, mgr[q].plan)
      BY <3>1, <3>2 DEF Slot, Shown
    <3> QED
      BY <2>3, <3>2, <3>3, <3>4 DEF StageOK
  <2> QED
    BY <2>1, <2>2, <2>3
<1> QED
  BY <1>2, <1>3, <1>4 DEF WorkInv, Records

\* What the stages of a handler write is written to its occurrence.
LEMMA StageElsewhere ==
  ASSUME LeaseInv, WorkInv, Records, HandlerInv', NEW r \in Runner, RunStep(r),
         UNCHANGED <<mgr, row>>, ~Mine(r)
  PROVE  WorkInv'
<1>1. mgr[r].scope \in Scope /\ mgr[r].plan \in Plan /\ ~Clean(mgr[r].scope, mgr[r].plan)
  BY Typed, OneManager DEF Mine
<1>2. \A t \in Scope, u \in Plan :
        t # mgr[r].scope \/ u # mgr[r].plan => runs'[t][u] = runs[t][u]
  BY DEF RunStep, Writes
<1>3. \A q \in Runner : q # r => handler'[q] = handler[q]
  BY DEF RunStep, OthersKept
<1> QED
  BY <1>1, <1>2, <1>3, Elsewhere

LEMMA EndElsewhere ==
  ASSUME LeaseInv, WorkInv, Records, HandlerInv', NEW r \in Runner, ~Mine(r), OthersKept(r),
         handler'[r].at = "off",
         \/ runs' = runs
         \/ \E k, y : Writes(mgr[r].scope, mgr[r].plan, k, y),
         \A s \in Scope, p \in Plan : s # mgr[r].scope \/ p # mgr[r].plan =>
           (row'[s][p].status = "SUCCESS" => row[s][p].status = "SUCCESS")
  PROVE  WorkInv'
<1>1. mgr[r].scope \in Scope /\ mgr[r].plan \in Plan /\ ~Clean(mgr[r].scope, mgr[r].plan)
  BY Typed, OneManager DEF Mine
<1>2. \A t \in Scope, u \in Plan :
        t # mgr[r].scope \/ u # mgr[r].plan => runs'[t][u] = runs[t][u]
  BY DEF Writes
<1>3. \A q \in Runner : q # r => handler'[q] = handler[q] /\ mgr'[q] = mgr[q]
  BY DEF OthersKept
<1> QED
  BY <1>1, <1>2, <1>3, Elsewhere

\* A written run that keeps its slot and can be seen shows its occurrence.
LEMMA WrittenShown ==
  ASSUME NEW s \in Scope, NEW p \in Plan, NEW k, NEW y, Writes(s, p, k, y), y.planned, Seen(y)
  PROVE  \E l \in DOMAIN runs'[s][p] : runs'[s][p][l].planned /\ Seen(runs'[s][p][l])
  BY DEF Writes

\* A stage that writes run k: what the run must be for the stage that follows.
Ready(at, y) ==
  /\ at \in {"recover", "dispatch", "link"} => ~y.issue
  /\ at \in {"dispatch", "enqueue", "link"} => y.planned
  /\ at = "link" => y.task # "none"
  /\ at = "ok" => y.planned /\ Seen(y)

LEMMA StageReady ==
  ASSUME NEW r \in Runner, StageOK(r), handler[r].at # "ok"
  PROVE  Ready(handler[r].at, This(r))
  BY DEF StageOK, Ready

LEMMA WriteStage ==
  ASSUME LeaseInv, WorkInv, Records, HandlerInv', NEW r \in Runner, Mine(r), RunStep(r), UNCHANGED <<mgr, row>>,
         NEW k \in Nat, NEW y, Writes(mgr[r].scope, mgr[r].plan, k, y), RunOK(y),
         \/ handler'[r].at = "create"
         \/ handler'[r].run = k /\ Ready(handler'[r].at, y)
  PROVE  WorkInv'
<1> DEFINE s == mgr[r].scope
           p == mgr[r].plan
<1>1. mgr[r].at = "running" /\ OthersKept(r)
  BY DEF RunStep
<1>2. s \in Scope /\ p \in Plan
  BY <1>1, AtWork
<1>3. StageOK(r)'
  <2>1. CASE handler'[r].at = "create"
    BY <2>1 DEF StageOK
  <2>2. CASE handler'[r].run = k /\ Ready(handler'[r].at, y)
    <3>1. This(r)' = y
      BY <2>2 DEF This, Occurrence, Writes
    <3>2. y.planned /\ Seen(y) => Shown(mgr[r].scope, mgr[r].plan)'
      <4>1. ASSUME y.planned, Seen(y)
            PROVE  \E l \in DOMAIN runs'[s][p] : runs'[s][p][l].planned /\ Seen(runs'[s][p][l])
        <5> HIDE DEF s, p
        <5>1. Writes(s, p, k, y)
          BY DEF s, p
        <5> QED
          BY <1>2, <4>1, <5>1, WrittenShown
      <4> QED
        BY <4>1 DEF Shown, Slot, Seen
    <3> QED
      BY <2>2, <3>1, <3>2 DEF StageOK, Ready
  <2> QED
    BY <2>1, <2>2
<1>4. \/ runs' = runs
      \/ \E l \in Nat, z \in Run : Writes(mgr[r].scope, mgr[r].plan, l, z) /\ RunOK(z)
  <2>1. y \in Run
    <3>1. k \in DOMAIN runs'[s][p] /\ runs'[s][p][k] = y /\ runs' \in Runs
      BY DEF Writes
    <3>2. runs'[s][p] \in Seq(Run) /\ DOMAIN runs'[s][p] = 1..Len(runs'[s][p])
      BY <1>2, <3>1, LenProperties DEF Runs
    <3> QED
      BY <3>1, <3>2, ElementOfSeq
  <2> QED
    BY <2>1
<1>5. \A t \in Scope, q \in Plan : row'[t][q] = row[t][q]
  OBVIOUS
<1> QED
  BY <1>1, <1>3, <1>4, <1>5, OwnOccurrence

\* The parts of the invariants the stages start from.
LEMMA AtStage ==
  ASSUME LeaseInv, WorkInv, NEW r \in Runner
  PROVE  /\ LeaseInv /\ TypeOK /\ HandlerInv /\ (Mine(r) => StageOK(r))
         /\ handler[r].at \in NeedsRun =>
              /\ This(r) \in Run /\ (Mine(r) => RunOK(This(r))) /\ handler[r].run \in Nat
              /\ handler[r].run \in DOMAIN Occurrence(r)
              /\ mgr[r].at = "running" /\ mgr[r].scope \in Scope /\ mgr[r].plan \in Plan
<1>1. LeaseInv /\ TypeOK /\ HandlerInv /\ (Mine(r) => StageOK(r))
  BY Typed DEF WorkInv
<1>2. mgr[r].scope \in Scope /\ mgr[r].plan \in Plan /\ HandlerAt(r)
  BY <1>1, OneManager, HandlerParts
<1>3. ASSUME handler[r].at \in NeedsRun
      PROVE  /\ This(r) \in Run /\ handler[r].run \in Nat /\ mgr[r].at = "running"
             /\ handler[r].run \in DOMAIN Occurrence(r)
  BY <1>1, <1>2, <1>3, ThisType DEF HandlerAt
<1>4. ASSUME handler[r].at \in NeedsRun, Mine(r) PROVE RunOK(This(r))
  BY <1>2, <1>3, <1>4 DEF WorkInv, AllRunsOK, This, Occurrence, Mine
<1> QED
  BY <1>1, <1>2, <1>3, <1>4

\* The look-up finds the run an earlier attempt left, and knows by it whether
\* the occurrence was served.
LEMMA CompleteSeen ==
  ASSUME NEW x, RunOK(x)
  PROVE  (Complete(x) => Seen(x)) /\ (x \in Run /\ ~Complete(x) => ~x.issue)
  BY DEF RunOK, Complete, Seen, Run

LEMMA LookupWork ==
  ASSUME LeaseInv, WorkInv, Records, NEW r \in Runner, Mine(r), Lookup(r) PROVE WorkInv'
<1> DEFINE s == mgr[r].scope
           p == mgr[r].plan
<1>1. HandlerInv' /\ RunStep(r) /\ UNCHANGED <<runs, mgr, row>>
  BY AtStage, LookupHandler DEF Lookup, Quiet, cronVars
<1>2. s \in Scope /\ p \in Plan /\ TypeOK /\ HandlerInv
  BY AtStage, OneManager
<1>3. handler' = [handler EXCEPT ![r] = handler'[r]]
  BY <1>2, HandlerParts DEF Lookup, Goto, HandlerType
<1>4. ASSUME NEW k \in Slot(s, p), NEW at, handler' = [handler EXCEPT ![r] = [at |-> at, run |-> k]],
             \/ at = "ok" /\ Complete(Occurrence(r)[k])
             \/ at = "recover" /\ ~Complete(Occurrence(r)[k])
      PROVE  StageOK(r)'
  <2> DEFINE x == Occurrence(r)[k]
  <2>1. k \in DOMAIN runs[s][p] /\ x = runs[s][p][k] /\ x.planned
    BY DEF Slot, Occurrence
  <2>2. x \in Run /\ RunOK(x)
    BY <1>2, <2>1, HandlerParts, RunType DEF WorkInv, AllRunsOK, Mine
  <2>3. handler'[r].at = at /\ handler'[r].run = k
    BY <1>2, <1>4, HandlerParts
  <2>4. This(r)' = x
    BY <1>1, <2>3 DEF This, Occurrence
  <2>5. CASE at = "ok" /\ Complete(x)
    <3>1. Seen(x)
      BY <2>2, <2>5, CompleteSeen
    <3>2. Shown(s, p)
      BY <2>1, <3>1 DEF Shown
    <3>3. Shown(mgr[r].scope, mgr[r].plan)'
      BY <1>1, <3>2 DEF Shown, Slot, Seen
    <3> QED
      BY <2>3, <2>5, <3>3 DEF StageOK
  <2>6. CASE at = "recover" /\ ~Complete(x)
    <3>1. ~x.issue
      BY <2>2, <2>6, CompleteSeen
    <3> QED
      BY <2>3, <2>4, <2>6, <3>1 DEF StageOK
  <2> QED
    BY <1>4, <2>5, <2>6
<1>5. StageOK(r)'
  <2>1. CASE Goto(r, "create", 0)
    <3>1. handler'[r].at = "create"
      BY <1>2, <2>1, HandlerParts DEF Goto
    <3> QED
      BY <3>1 DEF StageOK
  <2>2. CASE \E k \in Slot(s, p) :
               \/ Complete(Occurrence(r)[k]) /\ Goto(r, "ok", k)
               \/ ~Complete(Occurrence(r)[k]) /\ Goto(r, "recover", k)
    BY <1>4, <2>2 DEF Goto
  <2> QED
    BY <2>1, <2>2 DEF Lookup
<1> QED
  BY <1>1, <1>5, OwnOccurrence DEF RunStep

LEMMA RecoverWork ==
  ASSUME LeaseInv, WorkInv, Records, NEW r \in Runner, Mine(r), Recover(r) PROVE WorkInv'
<1> DEFINE y == [This(r) EXCEPT !.status = "failed", !.planned = FALSE]
<1>1. /\ HandlerInv' /\ RunStep(r) /\ handler'[r].at = "create"
      /\ Writes(mgr[r].scope, mgr[r].plan, handler[r].run, y)
  BY AtStage, RecoverHandler
<1>2. UNCHANGED <<mgr, row>> /\ handler[r].at \in NeedsRun /\ handler[r].at = "recover"
  BY DEF Recover, Quiet, cronVars, At, NeedsRun
<1>3. RunOK(y) /\ handler[r].run \in Nat
  BY <1>2, AtStage DEF StageOK, RunOK, Run
<1> HIDE DEF y
<1> QED
  BY <1>1, <1>2, <1>3, WriteStage

LEMMA CreateWork ==
  ASSUME LeaseInv, WorkInv, Records, NEW r \in Runner, Mine(r), Create(r) PROVE WorkInv'
<1>1. HandlerInv' /\ RunStep(r) /\ UNCHANGED <<mgr, row>>
  BY AtStage, CreateHandler DEF Create, Quiet, cronVars
<1>2. PICK status \in {"skipped", "running", "issue_created"}, k \in Nat :
        /\ Writes(mgr[r].scope, mgr[r].plan, k, NewRun(status))
        /\ handler'[r] = [at |-> IF status = "skipped" THEN "ok" ELSE "dispatch", run |-> k]
  BY AtStage, CreateHandler
<1>3. RunOK(NewRun(status))
  BY DEF RunOK, NewRun
<1>4. handler'[r].run = k /\ Ready(handler'[r].at, NewRun(status))
  BY <1>2 DEF Ready, NewRun, Seen
<1> QED
  BY <1>1, <1>2, <1>3, <1>4, WriteStage

\* From the dispatch on.
LEMMA DispatchWork ==
  ASSUME LeaseInv, WorkInv, Records, NEW r \in Runner, Mine(r), NEW at, NEW y, Next1(r, at, y), Quiet,
         handler[r].at \in NeedsRun, RunOK(y), Ready(at, y)
  PROVE  WorkInv'
<1>1. HandlerInv' /\ RunStep(r) /\ handler'[r].run = handler[r].run /\ handler'[r].at = at
      /\ Writes(mgr[r].scope, mgr[r].plan, handler[r].run, y)
  BY DEF Next1
<1>2. handler[r].run \in Nat /\ UNCHANGED <<mgr, row>>
  BY AtStage DEF Quiet, cronVars
<1> QED
  BY <1>1, <1>2, WriteStage

LEMMA DispatchStages ==
  ASSUME LeaseInv, WorkInv, Records, NEW r \in Runner, Mine(r),
         CreateIssue(r) \/ EnqueueTaskForIssue(r) \/ CreateTask(r) \/ Link(r) \/ Skip(r)
  PROVE  WorkInv'
<1> DEFINE x == This(r)
<1>1. /\ handler[r].at \in {"dispatch", "enqueue", "link"} /\ handler[r].at \in NeedsRun /\ Quiet
  BY DEF CreateIssue, EnqueueTaskForIssue, CreateTask, Link, Skip, At, NeedsRun
<1>2. x \in Run /\ RunOK(x) /\ Ready(handler[r].at, x) /\ TypeOK /\ HandlerInv
  BY <1>1, AtStage, StageReady
<1>3. CASE CreateIssue(r)
  <2>1. Next1(r, "enqueue", IssueMade(x)) /\ handler[r].at = "dispatch"
    BY <1>2, <1>3, DispatchHandler DEF CreateIssue, At
  <2>2. RunOK(IssueMade(x)) /\ Ready("enqueue", IssueMade(x))
    BY <1>2, <2>1 DEF IssueMade, RunOK, Ready, Run
  <2> QED
    BY <1>1, <2>1, <2>2, DispatchWork
<1>4. CASE EnqueueTaskForIssue(r)
  <2>1. Next1(r, "ok", TaskMade(x)) /\ handler[r].at = "enqueue"
    BY <1>2, <1>4, DispatchHandler DEF EnqueueTaskForIssue, At
  <2>2. RunOK(TaskMade(x)) /\ Ready("ok", TaskMade(x))
    BY <1>2, <2>1 DEF TaskMade, RunOK, Ready, Run, Seen
  <2> QED
    BY <1>1, <2>1, <2>2, DispatchWork
<1>5. CASE CreateTask(r)
  <2>1. Next1(r, "link", TaskMade(x)) /\ handler[r].at = "dispatch"
    BY <1>2, <1>5, DispatchHandler DEF CreateTask, At
  <2>2. RunOK(TaskMade(x)) /\ Ready("link", TaskMade(x))
    BY <1>2, <2>1 DEF TaskMade, RunOK, Ready, Run
  <2> QED
    BY <1>1, <2>1, <2>2, DispatchWork
<1>6. CASE Link(r)
  <2>1. Next1(r, "ok", Linked(x)) /\ handler[r].at = "link"
    BY <1>2, <1>6, DispatchHandler DEF Link, At
  <2>2. RunOK(Linked(x)) /\ Ready("ok", Linked(x))
    BY <1>2, <2>1 DEF Linked, RunOK, Ready, Run, Seen
  <2> QED
    BY <1>1, <2>1, <2>2, DispatchWork
<1>7. CASE Skip(r)
  <2>1. Next1(r, "ok", Skipped(x)) /\ handler[r].at = "dispatch"
    BY <1>2, <1>7, DispatchHandler DEF Skip, At
  <2>2. RunOK(Skipped(x)) /\ Ready("ok", Skipped(x))
    BY <1>2, <2>1 DEF Skipped, RunOK, Ready, Run, Seen
  <2> QED
    BY <1>1, <2>1, <2>2, DispatchWork
<1> QED
  BY <1>3, <1>4, <1>5, <1>6, <1>7

LEMMA LinkLostWork ==
  ASSUME LeaseInv, WorkInv, Records, NEW r \in Runner, Mine(r), LinkLost(r) PROVE WorkInv'
<1>1. HandlerInv' /\ RunStep(r) /\ handler'[r].at = "ok" /\ UNCHANGED <<runs, mgr, row>>
  BY AtStage, LinkLostHandler DEF LinkLost, Quiet, cronVars
<1>2. handler[r].at = "link" /\ handler[r].at \in NeedsRun
  BY DEF LinkLost, At, NeedsRun
<1>3. This(r).planned /\ Seen(This(r)) /\ handler[r].run \in DOMAIN Occurrence(r)
  BY <1>2, AtStage DEF StageOK, Seen
<1>4. Shown(mgr[r].scope, mgr[r].plan)'
  BY <1>1, <1>3 DEF Shown, Slot, Seen, This, Occurrence
<1>5. StageOK(r)'
  BY <1>1, <1>4 DEF StageOK
<1> QED
  BY <1>1, <1>5, OwnOccurrence DEF RunStep

\* What the end of a handler writes to its row.
LEMMA FinishRow ==
  ASSUME LeaseInv, NEW r \in Runner, NEW ok \in BOOLEAN, Finish(r, ok),
         NEW s \in Scope, NEW p \in Plan, row'[s][p].status = "SUCCESS"
  PROVE  \/ row[s][p].status = "SUCCESS"
         \/ ok /\ s = mgr[r].scope /\ p = mgr[r].plan
<1> DEFINE t == mgr[r].scope
           q == mgr[r].plan
           x == Outcome(row[t][q], mgr[r], ok)
<1>1. t \in Scope /\ q \in Plan /\ mgr[r] \in Manager /\ row[t][q] \in Row
  BY Typed, OneManager, OneRow
<1>2. x \in Row
  BY <1>1, Typed, OutcomeType
<1>3. CASE row' = [row EXCEPT ![t][q] = x]
  <2>1. ~ok => x.status = "FAILED"
    BY <1>1 DEF Outcome, Row
  <2> HIDE DEF t, q, x
  <2>2. CASE s = t /\ q = p
    BY <1>1, <1>2, <1>3, <2>1, <2>2, Typed, SetRow DEF t, q
  <2>3. CASE ~(s = t /\ q = p)
    BY <1>1, <1>2, <1>3, <2>3, Typed, SetRow
  <2> QED
    BY <2>2, <2>3
<1>4. CASE row' = row
  BY <1>4
<1> QED
  BY <1>3, <1>4 DEF Finish, Lease

LEMMA SucceedWork ==
  ASSUME LeaseInv, WorkInv, Records, NEW r \in Runner, Mine(r), Succeed(r) PROVE WorkInv'
<1>1. /\ LeaseInv /\ HandlerInv /\ StageOK(r) /\ handler[r].at = "ok" /\ Finish(r, TRUE)
      /\ mgr[r].at = "running" /\ UNCHANGED <<execution, runs>>
      /\ handler' = [handler EXCEPT ![r] = Off]
  BY AtStage DEF Succeed, At, Finish
<1>2. HandlerInv' /\ OthersKept(r) /\ handler'[r].at = "off"
  BY <1>1, FinishEnds, EndHandler
<1>3. Shown(mgr[r].scope, mgr[r].plan)
  BY <1>1 DEF StageOK
<1>4. ASSUME NEW s \in Scope, NEW p \in Plan, row'[s][p].status = "SUCCESS"
      PROVE  \/ row[s][p].status = "SUCCESS"
             \/ s = mgr[r].scope /\ p = mgr[r].plan /\ Shown(s, p)'
  <2>1. \/ row[s][p].status = "SUCCESS"
        \/ s = mgr[r].scope /\ p = mgr[r].plan
    BY <1>1, <1>4, FinishRow
  <2>2. Shown(s, p)' <=> Shown(s, p)
    BY <1>1, SlotKept
  <2> QED
    BY <1>3, <2>1, <2>2
<1>5. StageOK(r)'
  BY <1>2 DEF StageOK
<1> QED
  BY <1>1, <1>2, <1>4, <1>5, OwnOccurrence

LEMMA FailWork ==
  ASSUME LeaseInv, WorkInv, Records, NEW r \in Runner, Mine(r), Fail(r) PROVE WorkInv'
<1>1. LeaseInv /\ HandlerInv /\ Finish(r, FALSE) /\ mgr[r].at = "running"
  BY AtStage DEF Fail, Finish
<1>2. /\ HandlerInv' /\ OthersKept(r) /\ handler'[r].at = "off"
      /\ \/ runs' = runs
         \/ /\ handler[r].at \in NeedsRun
            /\ Writes(mgr[r].scope, mgr[r].plan, handler[r].run, Failed(This(r)))
  BY <1>1, FailHandler
<1>3. \/ runs' = runs
      \/ \E k \in Nat, y \in Run : Writes(mgr[r].scope, mgr[r].plan, k, y) /\ RunOK(y)
  <2>1. ASSUME handler[r].at \in NeedsRun
        PROVE  handler[r].run \in Nat /\ Failed(This(r)) \in Run /\ RunOK(Failed(This(r)))
    <3>1. handler[r].run \in Nat /\ This(r) \in Run /\ RunOK(This(r))
      BY <2>1, AtStage
    <3> QED
      BY <3>1, Changes DEF Failed, RunOK, Run
  <2> QED
    BY <1>2, <2>1
<1>4. ASSUME NEW s \in Scope, NEW p \in Plan, row'[s][p].status = "SUCCESS"
      PROVE  row[s][p].status = "SUCCESS"
  BY <1>1, <1>4, FinishRow
<1>5. StageOK(r)'
  BY <1>2 DEF StageOK
<1> QED
  BY <1>1, <1>2, <1>3, <1>4, <1>5, OwnOccurrence

\* A step that leaves runs and stages alone, and ends no execution well.
LEMMA StillWork ==
  ASSUME LeaseInv, WorkInv, Records, HandlerInv', runs' = runs,
         \A q \in Runner : \/ handler'[q].at \in {"off", "lookup"}
                           \/ /\ handler'[q] = handler[q]
                              /\ mgr'[q].scope = mgr[q].scope /\ mgr'[q].plan = mgr[q].plan,
         \A s \in Scope, p \in Plan : row'[s][p].status = "SUCCESS" => row[s][p].status = "SUCCESS"
  PROVE  WorkInv'
<1>1. AllRunsOK'
  BY CleanBefore DEF WorkInv, AllRunsOK
<1>2. SuccessIsVisible'
  BY SlotKept DEF WorkInv, SuccessIsVisible, Records
<1>3. ASSUME NEW q \in Runner, Mine(q)' PROVE StageOK(q)'
  <2>1. CASE handler'[q].at \in {"off", "lookup"}
    BY <2>1 DEF StageOK
  <2>2. CASE /\ handler'[q] = handler[q]
             /\ mgr'[q].scope = mgr[q].scope /\ mgr'[q].plan = mgr[q].plan
    <3>1. StageOK(q) /\ This(q)' = This(q)
      BY <1>3, <2>2 DEF WorkInv, This, Occurrence, Mine, Records, Clean
    <3>2. Shown(mgr[q].scope, mgr[q].plan)' <=> Shown(mgr[q].scope, mgr[q].plan)
      BY <2>2 DEF Shown, Slot, Seen
    <3> QED
      BY <2>2, <3>1, <3>2 DEF StageOK
  <2> QED
    BY <2>1, <2>2
<1> QED
  BY <1>1, <1>2, <1>3 DEF WorkInv, Records

LEMMA ClaimWork ==
  ASSUME LeaseInv, WorkInv, Records, NEW r \in Runner, NEW s \in Scope, NEW p \in Plan, ClaimPlan(r, s, p)
  PROVE  WorkInv'
<1>1. LeaseInv /\ HandlerInv /\ Claim(r, s, p)
  BY AtStage DEF ClaimPlan
<1>2. /\ HandlerInv' /\ OthersKept(r) /\ runs' = runs /\ handler'[r].at \in {"lookup", "off"}
  BY <1>1, ClaimHandler
<1>3. ASSUME NEW t \in Scope, NEW q \in Plan, row'[t][q].status = "SUCCESS"
      PROVE  row[t][q].status = "SUCCESS"
  <2>1. CASE Claimable(row[s][p], mgr[r].now)
    <3>1. TakesOver(r, s, p)
      BY <1>1, <2>1, ClaimTakesOver
    <3>2. row'[s][p].status = "RUNNING" /\ (t # s \/ q # p => row'[t][q] = row[t][q])
      BY <3>1 DEF TakesOver, Claimed
    <3> QED
      BY <1>3, <3>2
  <2>2. CASE ~Claimable(row[s][p], mgr[r].now)
    BY <1>1, <1>3, <2>2 DEF Claim
  <2> QED
    BY <2>1, <2>2
<1> QED
  BY <1>2, <1>3, StillWork DEF OthersKept

LEMMA DieWork ==
  ASSUME LeaseInv, WorkInv, Records, NEW r \in Runner, Die(r) PROVE WorkInv'
<1>1. LeaseInv /\ HandlerInv /\ Crash(r) /\ UNCHANGED <<execution, runs, row>>
      /\ handler' = [handler EXCEPT ![r] = Off]
  BY AtStage DEF Die, Crash
<1>2. HandlerInv' /\ OthersKept(r) /\ handler'[r].at = "off"
  BY <1>1, CrashEnds, EndHandler
<1> QED
  BY <1>1, <1>2, StillWork DEF OthersKept

LEMMA ScheduleWork ==
  ASSUME LeaseInv, WorkInv, Records, NEW r \in Runner, Schedule(r) PROVE WorkInv'
<1>1. LeaseInv /\ HandlerInv /\ TypeOK /\ UNCHANGED <<execution, runs, handler>>
  BY AtStage DEF Schedule
<1>2. SameHandlers
  BY <1>1, ScheduleKeeps
<1>3. HandlerInv'
  BY <1>1, <1>2, SameHandlersHandler
<1>4. ASSUME NEW q \in Runner
      PROVE  \/ handler'[q].at \in {"off", "lookup"}
             \/ /\ handler'[q] = handler[q]
                /\ mgr'[q].scope = mgr[q].scope /\ mgr'[q].plan = mgr[q].plan
  BY <1>1, <1>2, HandlerParts DEF SameHandlers, SameClaim, HandlerAt
<1>5. ASSUME NEW s \in Scope, NEW p \in Plan, row'[s][p].status = "SUCCESS"
      PROVE  row[s][p].status = "SUCCESS"
  <2>1. CASE Sweep(r)
    BY <1>5, <2>1 DEF Sweep, MarkStale
  <2>2. CASE Heartbeat(r)
    <3> DEFINE t == mgr[r].scope
               q == mgr[r].plan
               x == [row[t][q] EXCEPT !.stale = clock + StaleTimeout]
    <3>1. t \in Scope /\ q \in Plan /\ row[t][q] \in Row /\ clock + StaleTimeout \in Nat
      BY <1>1, OneManager, OneRow, Typed, SchedulerAssumption DEF SchedulerAssumption
    <3>2. x \in Row /\ x.status = row[t][q].status
      BY <3>1 DEF Row
    <3>3. row' = [row EXCEPT ![t][q] = x]
      BY <2>2 DEF Heartbeat
    <3> HIDE DEF t, q, x
    <3> QED
      BY <1>1, <1>5, <3>1, <3>2, <3>3, SetRow
  <2>3. CASE row' = row
    BY <1>5, <2>3
  <2> QED
    BY <2>1, <2>2, <2>3 DEF Schedule, Tick, PlanScope
<1> QED
  BY <1>1, <1>3, <1>4, <1>5, StillWork

\* The end of the work leaves the slot, the issue and the task to be seen.
LEMMA EndedRun ==
  ASSUME NEW x \in Run, RunOK(x), NEW status \in {x.status, "completed", "failed"}
  PROVE  LET y == Ended(x, status) IN
         /\ y.planned = x.planned /\ y.issue = x.issue /\ y.task = "ended" /\ RunOK(y) /\ Seen(y)
  BY DEF Run, Ended, RunOK, Seen

LEMMA WorkEndsElsewhere ==
  ASSUME LeaseInv, WorkInv, Records, NEW s \in Scope, NEW p \in Plan, NEW k \in DOMAIN runs[s][p],
         WorkEnds(s, p, k), ~Clean(s, p)
  PROVE  WorkInv'
<1>1. TypeOK /\ HandlerInv
  BY Typed DEF WorkInv
<1>2. /\ HandlerInv' /\ UNCHANGED <<mgr, row, handler>>
      /\ \A t \in Scope, u \in Plan : t # s \/ u # p => runs'[t][u] = runs[t][u]
  BY <1>1, WorkEndsHandler DEF cronVars, Writes
<1> QED
  BY <1>2, Elsewhere

LEMMA WorkEndsWork ==
  ASSUME LeaseInv, WorkInv, Records, NEW s \in Scope, NEW p \in Plan, NEW k \in DOMAIN runs[s][p],
         WorkEnds(s, p, k), Clean(s, p)
  PROVE  WorkInv'
<1> DEFINE x == runs[s][p][k]
<1>1. LeaseInv /\ TypeOK /\ HandlerInv
  BY Typed DEF WorkInv
<1>2. x \in Run /\ RunOK(x)
  BY <1>1, HandlerParts, RunType DEF WorkInv, AllRunsOK
<1>3. HandlerInv' /\ UNCHANGED <<mgr, row, handler>>
  BY <1>1, WorkEndsHandler DEF cronVars
<1>4. PICK y : /\ Writes(s, p, k, y) /\ y.planned = x.planned /\ y.issue = x.issue
               /\ y.task = "ended" /\ RunOK(y) /\ Seen(y)
  BY <1>1, <1>2, WorkEndsHandler, EndedRun
<1> HIDE DEF x
<1>5. AllRunsOK'
  <2> SUFFICES ASSUME NEW t \in Scope, NEW q \in Plan, Clean(t, q), NEW l \in DOMAIN runs'[t][q]
               PROVE  RunOK(runs'[t][q][l])
    BY CleanBefore DEF AllRunsOK
  <2> QED
    BY <1>4 DEF Writes, WorkInv, AllRunsOK
<1>6. ASSUME NEW t \in Scope, NEW q \in Plan, Shown(t, q) PROVE Shown(t, q)'
  <2>1. CASE t = s /\ q = p
    <3>1. PICK l \in DOMAIN runs[s][p] : runs[s][p][l].planned /\ Seen(runs[s][p][l])
      BY <1>6, <2>1 DEF Shown, Slot
    <3>2. l \in DOMAIN runs'[s][p] /\ runs'[s][p][l].planned /\ Seen(runs'[s][p][l])
      BY <1>4, <3>1 DEF Writes, x
    <3>3. \E j \in DOMAIN runs'[s][p] : runs'[s][p][j].planned /\ Seen(runs'[s][p][j])
      BY <3>2
    <3> QED
      BY <2>1, <3>3 DEF Shown, Slot, Seen
  <2>2. CASE t # s \/ q # p
    BY <1>4, <1>6, <2>2, SlotKept DEF Writes
  <2> QED
    BY <2>1, <2>2
<1>7. SuccessIsVisible'
  BY <1>3, <1>6 DEF WorkInv, SuccessIsVisible, Records
<1>8. ASSUME NEW r \in Runner, Mine(r)' PROVE StageOK(r)'
  <2> DEFINE t == mgr[r].scope
             q == mgr[r].plan
  <2>1. t \in Scope /\ q \in Plan /\ StageOK(r)
    BY <1>1, <1>3, <1>8, OneManager DEF WorkInv, Mine, Records, Clean
  <2>2. t' = t /\ q' = q /\ handler'[r] = handler[r]
    BY <1>3
  <2>3. \A t0 \in Scope, q0 \in Plan : Shown(t0, q0) => Shown(t0, q0)'
    BY <1>6
  <2>4. Shown(t, q) => Shown(mgr[r].scope, mgr[r].plan)'
    <3>1. PICK t0 \in Scope, q0 \in Plan : t0 = t /\ q0 = q
      BY <2>1
    <3>2. (Shown(t0, q0) <=> Shown(t, q)) /\ (Shown(t0, q0)' <=> Shown(mgr[r].scope, mgr[r].plan)')
      BY <2>2, <3>1 DEF Shown, Slot
    <3> QED
      BY <2>3, <3>2
  <2>5. ASSUME handler[r].at \in NeedsRun
        PROVE  /\ This(r)'.issue = This(r).issue /\ This(r)'.planned = This(r).planned
               /\ This(r).task # "none" => This(r)'.task # "none"
    <3>1. handler[r].run \in DOMAIN runs[t][q]
      BY <2>5, AtStage DEF Occurrence
    <3>2. This(r) = runs[t][q][handler[r].run] /\ This(r)' = runs'[t][q][handler[r].run]
      BY <2>2 DEF This, Occurrence
    <3> HIDE DEF t, q
    <3> QED
      BY <1>4, <2>1, <3>1, <3>2 DEF Writes, x
  <2> QED
    BY <2>1, <2>2, <2>4, <2>5 DEF StageOK, NeedsRun
<1> QED
  BY <1>3, <1>5, <1>7, <1>8 DEF WorkInv, Records

LEMMA InitWork == AutopilotInit => WorkInv
<1> SUFFICES ASSUME AutopilotInit PROVE WorkInv
  OBVIOUS
<1>1. \A s \in Scope, p \in Plan : DOMAIN runs[s][p] = {} /\ row[s][p].status # "SUCCESS"
  <2>1. DOMAIN << >> = {}
    OBVIOUS
  <2> QED
    BY <2>1 DEF AutopilotInit, Init, Absent
<1>2. \A r \in Runner : handler[r].at = "off" /\ mgr[r].at # "running"
  BY OffType DEF AutopilotInit, Init, Idle
<1> QED
  BY <1>1, <1>2, InitHandler DEF WorkInv, AllRunsOK, SuccessIsVisible, StageOK, Watched

\* The steps of a handler, wherever it is.
LEMMA HandlerWork ==
  ASSUME LeaseInv, WorkInv, Records, NEW r \in Runner,
         \/ Lookup(r) \/ Recover(r) \/ Create(r) \/ CreateIssue(r)
         \/ EnqueueTaskForIssue(r) \/ CreateTask(r) \/ Link(r) \/ Skip(r) \/ LinkLost(r)
  PROVE  WorkInv'
<1>1. CASE Mine(r)
  BY <1>1, LookupWork, RecoverWork, CreateWork, DispatchStages, LinkLostWork
<1>2. HandlerInv /\ TypeOK
  BY Typed DEF WorkInv
<1>3. CASE ~Mine(r)
  <2>1. HandlerInv' /\ RunStep(r)
    BY <1>2, LookupHandler, RecoverHandler, CreateHandler, DispatchHandler, LinkLostHandler
    DEF Next1
  <2>2. UNCHANGED <<mgr, row>>
    BY DEF Lookup, Recover, Create, CreateIssue, EnqueueTaskForIssue, CreateTask, Link, Skip,
       LinkLost, Quiet, cronVars
  <2> QED
    BY <1>3, <2>1, <2>2, StageElsewhere
<1> QED
  BY <1>1, <1>3

LEMMA OutcomeWork ==
  ASSUME LeaseInv, WorkInv, Records, NEW r \in Runner, Succeed(r) \/ Fail(r) PROVE WorkInv'
<1>1. CASE Mine(r)
  BY <1>1, SucceedWork, FailWork
<1>2. HandlerInv
  BY DEF WorkInv
<1>3. PICK ok \in BOOLEAN : Finish(r, ok)
  BY DEF Succeed, Fail
<1>4. \A s \in Scope, p \in Plan : s # mgr[r].scope \/ p # mgr[r].plan =>
        (row'[s][p].status = "SUCCESS" => row[s][p].status = "SUCCESS")
  BY <1>3, FinishRow
<1>5. CASE ~Mine(r) /\ Succeed(r)
  <2>1. HandlerInv' /\ OthersKept(r) /\ handler'[r].at = "off" /\ runs' = runs
    BY <1>2, <1>5, FinishEnds, EndHandler DEF Succeed
  <2> QED
    BY <1>4, <1>5, <2>1, EndElsewhere
<1>6. CASE ~Mine(r) /\ Fail(r)
  <2>1. /\ HandlerInv' /\ OthersKept(r) /\ handler'[r].at = "off"
        /\ runs' = runs \/ \E k, y : Writes(mgr[r].scope, mgr[r].plan, k, y)
    BY <1>2, <1>6, FailHandler
  <2> QED
    BY <1>4, <1>6, <2>1, EndElsewhere
<1> QED
  BY <1>1, <1>5, <1>6

LEMMA NextWork ==
  ASSUME LeaseInv, WorkInv, [AutopilotNext]_vars PROVE WorkInv'
<1>1. Records
  BY NextRecords DEF WorkInv
<1>2. CASE UNCHANGED vars \/ (Advance /\ UNCHANGED <<execution, runs, handler>>)
  <2>1. UNCHANGED <<mgr, row, execution, runs, handler>>
    BY <1>2 DEF vars, cronVars, Advance
  <2>2. HandlerInv'
    BY NextHandler DEF WorkInv
  <2> QED
    BY <1>1, <2>1, <2>2, StillWork
<1>3. ASSUME NEW r \in Runner, Schedule(r) \/ Succeed(r) \/ Fail(r) \/ Die(r) PROVE WorkInv'
  BY <1>1, <1>3, ScheduleWork, OutcomeWork, DieWork
<1>4. ASSUME NEW r \in Runner,
             \/ Lookup(r) \/ Recover(r) \/ Create(r) \/ CreateIssue(r)
             \/ EnqueueTaskForIssue(r) \/ CreateTask(r) \/ Link(r) \/ Skip(r) \/ LinkLost(r)
      PROVE  WorkInv'
  BY <1>1, <1>4, HandlerWork
<1>5. ASSUME NEW s \in Scope, NEW p \in Plan, NEW k \in DOMAIN runs[s][p], WorkEnds(s, p, k)
      PROVE  WorkInv'
  BY <1>1, <1>5, WorkEndsWork, WorkEndsElsewhere
<1> QED
  BY <1>1, <1>2, <1>3, <1>4, <1>5, ClaimWork DEF AutopilotNext, AutopilotStep

LEMMA OneIssuePerOccurrence == WorkInv => OneIssue
<1> SUFFICES ASSUME WorkInv, NEW s \in Scope, NEW p \in Plan, Clean(s, p),
                    NEW k \in DOMAIN runs[s][p], NEW l \in DOMAIN runs[s][p],
                    runs[s][p][k].issue, runs[s][p][l].issue
             PROVE  k = l
  BY DEF OneIssue, Clean
<1>1. k \in Slot(s, p) /\ l \in Slot(s, p)
  BY DEF WorkInv, AllRunsOK, RunOK, Slot
<1> QED
  BY <1>1, HandlerParts DEF WorkInv, OneSlot

LEMMA WorkInvariant == AutopilotSpec => []WorkInv
<1>1. LeaseInv /\ WorkInv /\ [AutopilotNext]_vars => WorkInv'
  BY NextWork
<1> QED
  BY <1>1, InitWork, LeaseHere, PTL DEF AutopilotSpec

\* An occurrence gets at most one issue, however often it is attempted and by
\* whichever servers, unless a handler of it went on without its lease.
THEOREM OneIssueEach == AutopilotSpec => []OneIssue
  BY WorkInvariant, OneIssuePerOccurrence, PTL

\* An occurrence that is done has left a run to see, with the same exception.
THEOREM SuccessVisible == AutopilotSpec => []SuccessIsVisible
<1>1. WorkInv => SuccessIsVisible
  BY DEF WorkInv
<1> QED
  BY <1>1, WorkInvariant, PTL
=============================================================================
