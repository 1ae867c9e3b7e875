--------------------------- MODULE TaskQueueProofs ---------------------------
(***************************************************************************)
(* What holds of the task queue for any agents, works, capacities and      *)
(* bounds.  Most steps are quiet: they end rows, insert rows or promote    *)
(* them, and at most drop claims and copies.  What a quiet step preserves  *)
(* is proved once; the steps that dispatch, deliver, requeue and start are *)
(* the ones each theorem looks at.                                         *)
(***************************************************************************)
EXTENDS TaskQueue, FiniteSetTheorems, TLAPS

\* How a quiet step may change a row.
RowKept(i) ==
  \/ /\ task'[i].work = task[i].work /\ task'[i].gen = task[i].gen
     /\ \/ task'[i].status = task[i].status
        \/ Is(i, Live) /\ task'[i].status \in Terminal
        \/ Is(i, {"deferred"}) /\ task'[i].status = "queued"
        \/ Is(i, {"dispatched"}) /\ task'[i].status = "waiting"
  \/ /\ Is(i, {"absent"}) /\ task'[i].status \in {"queued", "deferred"}
     /\ task'[i].gen = task[i].gen
KeepsRows == \A i \in Id : RowKept(i)

\* A claim or copy after a quiet step was there before it, perhaps further on.
KeepsClaims ==
  /\ \A c \in claim' : \E d \in claim : c.task = d.task /\ c.gen = d.gen
  /\ \A c, d \in claim' : c.task = d.task /\ c.gen = d.gen => c = d
KeepsCopies ==
  /\ \A c \in copy' : \E d \in copy : c.task = d.task /\ c.gen = d.gen
  /\ \A c, d \in copy' : c.task = d.task /\ c.gen = d.gen => c = d

Quiet == TypeOK' /\ Slots' /\ KeepsRows /\ KeepsClaims /\ KeepsCopies
-----------------------------------------------------------------------------
(* Rows                                                                    *)

LEMMA NewRow == ASSUME NEW w \in Work PROVE New(w) \in Row
  BY QueueAssumption DEF QueueAssumption, New, Row, Live, Active, Reason

LEMMA AbsentRow == Absent \in Row
<1>1. (CHOOSE w \in Work : TRUE) \in Work
  BY QueueAssumption DEF QueueAssumption
<1> QED
  BY <1>1, NewRow DEF Absent, Row

LEMMA StatusRow ==
  ASSUME NEW row \in Row, NEW status \in Live \union Terminal, NEW reason \in Reason
  PROVE  /\ [row EXCEPT !.status = status] \in Row
         /\ [row EXCEPT !.status = status, !.reason = reason] \in Row
  BY DEF Row

LEMMA SetRows ==
  ASSUME TypeOK, NEW S, NEW status \in Live \union Terminal
  PROVE  /\ Set(S, status) \in [Id -> Row]
         /\ \A i \in Id : Set(S, status)[i] = IF i \in S
                            THEN [task[i] EXCEPT !.status = status] ELSE task[i]
<1>1. \A i \in Id : task[i] \in Row
  BY DEF TypeOK
<1>2. \A i \in Id : [task[i] EXCEPT !.status = status] \in Row
  BY <1>1, StatusRow DEF Reason
<1> QED
  BY <1>1, <1>2 DEF Set

LEMMA FailedRows ==
  ASSUME TypeOK, NEW S, NEW reason \in Reason
  PROVE  /\ FailAll(S, reason) \in [Id -> Row]
         /\ \A i \in Id : FailAll(S, reason)[i] = IF i \in S
              THEN [task[i] EXCEPT !.status = "failed", !.reason = reason] ELSE task[i]
<1>1. \A i \in Id : task[i] \in Row
  BY DEF TypeOK
<1>2. \A i \in Id : [task[i] EXCEPT !.status = "failed", !.reason = reason] \in Row
  BY <1>1, StatusRow DEF Terminal
<1> QED
  BY <1>1, <1>2 DEF FailAll

LEMMA RetryRow ==
  ASSUME TypeOK, NEW i \in Id, NEW reason \in Reason
  PROVE  /\ Retry(i, reason) \in Row
         /\ Retry(i, reason).status \in {"queued", "deferred"}
         /\ Retry(i, reason).gen = 0
<1>1. task[i] \in Row /\ task[i].work \in Work
  BY DEF TypeOK, Row
<1>2. New(task[i].work) \in Row /\ New(task[i].work).gen = 0
  BY <1>1, NewRow DEF New
<1>3. Ceiling(reason, task[i].max) \in Nat
  BY <1>1 DEF Ceiling, Row
<1>4. i \in Nat
  BY QueueAssumption DEF Id, QueueAssumption
<1> DEFINE status == IF reason = "network" /\ task[i].attempt >= 2 THEN "deferred" ELSE "queued"
           prio == IF task[i].work.kind = "chat" /\ task[i].prio < 3 THEN 3 ELSE task[i].prio
<1>5. /\ status \in {"queued", "deferred"} /\ status \in Live
      /\ prio \in Nat /\ task[i].attempt + 1 \in Nat
  BY <1>1 DEF Row, Live
<1>6. Retry(i, reason) = [New(task[i].work) EXCEPT
        !.status = status, !.prio = prio, !.attempt = task[i].attempt + 1,
        !.max = Ceiling(reason, task[i].max), !.parent = i]
  BY DEF Retry
<1> HIDE DEF status, prio
<1> DEFINE base == New(task[i].work)  max == Ceiling(reason, task[i].max)
           attempt == task[i].attempt + 1
<1>7. base \in Row /\ max \in Nat /\ attempt \in Nat /\ base.gen = 0
  BY <1>2, <1>3, <1>5
<1>8. Retry(i, reason) = [base EXCEPT
        !.status = status, !.prio = prio, !.attempt = attempt, !.max = max, !.parent = i]
  BY <1>6
<1> HIDE DEF base, max, attempt
<1>9. LET row == [base EXCEPT !.status = status, !.prio = prio, !.attempt = attempt,
                              !.max = max, !.parent = i]
      IN  row \in Row /\ row.status = status /\ row.gen = base.gen
  BY <1>4, <1>5, <1>7 DEF Row
<1> QED
  BY <1>5, <1>7, <1>8, <1>9

\* An insert puts a new row where there was none.
LEMMA InsertKept ==
  ASSUME QueueInv, NEW row \in Row, row.status \in {"queued", "deferred"}, row.gen = 0,
         NEW rows \in [Id -> Row], NEW k \in NextId,
         \A i \in Id : Is(i, {"absent"}) => rows[i] = task[i],
         task' = [rows EXCEPT ![k] = row],
         \A i \in Id : rows[i].work = task[i].work /\ rows[i].gen = task[i].gen
                       /\ \/ rows[i].status = task[i].status
                          \/ Is(i, Live) /\ rows[i].status = "failed"
  PROVE  task' \in [Id -> Row] /\ KeepsRows
<1>1. k \in Id /\ Is(k, {"absent"})
  BY DEF NextId
<1>2. task[k].gen = 0
  BY <1>1 DEF QueueInv, Generations, Is
<1>3. task' \in [Id -> Row]
  OBVIOUS
<1>4. ASSUME NEW i \in Id PROVE RowKept(i)
  <2>1. CASE i = k
    BY <1>1, <1>2, <2>1 DEF RowKept, QueueInv, TypeOK
  <2>2. CASE i # k
    <3>1. task'[i] = rows[i]
      BY <2>2
    <3> QED
      BY <3>1 DEF RowKept, Terminal
  <2> QED
    BY <2>1, <2>2
<1> QED
  BY <1>3, <1>4 DEF KeepsRows

\* Ending live rows is quiet.
LEMMA SetKept ==
  ASSUME QueueInv, NEW S, NEW status \in {"completed", "cancelled"},
         \A i \in Id : i \in S => Is(i, Live), task' = Set(S, status)
  PROVE  task' \in [Id -> Row] /\ KeepsRows
<1>1. status \in Live \union Terminal /\ status \in Terminal
  BY DEF Terminal
<1>2. TypeOK
  BY DEF QueueInv
<1>3. task' \in [Id -> Row]
  BY <1>1, <1>2, SetRows DEF Terminal
<1>4. ASSUME NEW i \in Id PROVE RowKept(i)
  <2>1. task[i] \in Row /\ task'[i] = IF i \in S THEN [task[i] EXCEPT !.status = status] ELSE task[i]
    BY <1>1, <1>2, SetRows DEF TypeOK, Terminal
  <2>2. CASE i \in S
    <3>1. /\ task'[i].status = status /\ task'[i].work = task[i].work
          /\ task'[i].gen = task[i].gen
      BY <2>1, <2>2 DEF Row
    <3> QED
      BY <1>1, <2>2, <3>1 DEF RowKept
  <2>3. CASE i \notin S
    BY <2>1, <2>3 DEF RowKept
  <2> QED
    BY <2>2, <2>3
<1> QED
  BY <1>3, <1>4 DEF KeepsRows

LEMMA FailKept ==
  ASSUME QueueInv, NEW S, NEW reason \in Reason,
         \A i \in Id : i \in S => Is(i, Live), task' = FailAll(S, reason)
  PROVE  task' \in [Id -> Row] /\ KeepsRows
<1>1. "failed" \in Terminal
  BY DEF Terminal
<1>2. TypeOK
  BY DEF QueueInv
<1>3. task' \in [Id -> Row]
  BY <1>1, <1>2, FailedRows DEF Terminal
<1>4. ASSUME NEW i \in Id PROVE RowKept(i)
  <2>1. task[i] \in Row /\ task'[i] = IF i \in S THEN [task[i] EXCEPT !.status = "failed", !.reason = reason] ELSE task[i]
    <3>1. task[i] \in Row
      BY <1>2 DEF TypeOK
    <3>2. FailAll(S, reason)[i] = IF i \in S
            THEN [task[i] EXCEPT !.status = "failed", !.reason = reason] ELSE task[i]
      BY DEF FailAll
    <3> QED
      BY <3>1, <3>2
  <2>2. CASE i \in S
    <3>1. /\ task'[i].status = "failed" /\ task'[i].work = task[i].work
          /\ task'[i].gen = task[i].gen
      BY <2>1, <2>2 DEF Row
    <3> QED
      BY <1>1, <2>2, <3>1 DEF RowKept
  <2>3. CASE i \notin S
    BY <2>1, <2>3 DEF RowKept
  <2> QED
    BY <2>2, <2>3
<1> QED
  BY <1>3, <1>4 DEF KeepsRows

LEMMA SameRows ==
  ASSUME QueueInv, task' = task PROVE task' \in [Id -> Row] /\ KeepsRows
  BY DEF KeepsRows, RowKept, QueueInv, TypeOK

LEMMA SameClaims ==
  ASSUME QueueInv, claim' \subseteq claim
  PROVE  KeepsClaims /\ claim' \subseteq [task: Id, gen: Nat, lost: BOOLEAN]
  BY DEF KeepsClaims, QueueInv, TypeOK, Generations

CopyType == [task: Id, gen: Nat, at: Stage]

LEMMA SameCopies ==
  ASSUME QueueInv, copy' \subseteq copy
  PROVE  KeepsCopies /\ copy' \subseteq CopyType
  BY DEF KeepsCopies, QueueInv, TypeOK, Generations, CopyType

\* A copy that gets further is still the copy of that generation.
LEMMA MovedCopies ==
  ASSUME QueueInv, NEW c \in copy, NEW at \in Stage,
         Moves(c, at)
  PROVE  KeepsCopies /\ copy' \subseteq CopyType
<1> DEFINE d == [c EXCEPT !.at = at]
<1>1. c \in CopyType /\ copy \subseteq CopyType
  BY DEF QueueInv, TypeOK, CopyType
<1>2. d \in CopyType /\ d.task = c.task /\ d.gen = c.gen
  BY <1>1 DEF CopyType
<1>3. copy' = (copy \ {c}) \union {d}
  BY DEF Moves
<1>4. \A e, f \in copy : e.task = f.task /\ e.gen = f.gen => e = f
  BY DEF QueueInv, Generations
<1> HIDE DEF d
<1> QED
  BY <1>1, <1>2, <1>3, <1>4 DEF KeepsCopies

\* What is left to show of a step that touches one component.
LEMMA QuietParts ==
  ASSUME QueueInv, task' \in [Id -> Row], KeepsRows,
         KeepsClaims, claim' \subseteq [task: Id, gen: Nat, lost: BOOLEAN],
         KeepsCopies, copy' \subseteq CopyType,
         poll' \in [Runtime -> [at: {"idle", "promoted", "scan", "claiming"},
                                agents: SUBSET Agent, left: Nat]],
         Slots',
         runtime' \in [Runtime -> [online: BOOLEAN, daemon: Daemon]],
         job' \subseteq [what: {"failed", "started"}, task: Id],
         sweeping' \in BOOLEAN, faults' \in 0..MaxFault
  PROVE  Quiet
  BY DEF Quiet, TypeOK, CopyType

\* Only rows change.
LEMMA OnlyTaskQuiet ==
  ASSUME QueueInv, task' \in [Id -> Row], KeepsRows, OnlyTask
  PROVE  Quiet
<1>1. claim' = claim /\ copy' = copy
  BY DEF OnlyTask
<1>2. KeepsClaims /\ KeepsCopies
  BY <1>1, SameClaims, SameCopies
<1> QED
  BY <1>2 DEF Quiet, OnlyTask, QueueInv, TypeOK, Slots
-----------------------------------------------------------------------------
(* Quiet steps                                                             *)

\* One row takes new values in fields that no theorem is about, or parks.
LEMMA TouchKept ==
  ASSUME QueueInv, NEW i \in Id, NEW row \in Row, task' = [task EXCEPT ![i] = row],
         row.work = task[i].work, row.gen = task[i].gen,
         \/ row.status = task[i].status
         \/ Is(i, {"dispatched"}) /\ row.status = "waiting"
  PROVE  task' \in [Id -> Row] /\ KeepsRows
<1>1. task \in [Id -> Row]
  BY DEF QueueInv, TypeOK
<1>2. task' \in [Id -> Row]
  BY <1>1
<1>3. ASSUME NEW j \in Id PROVE RowKept(j)
  BY <1>1 DEF RowKept
<1> QED
  BY <1>2, <1>3 DEF KeepsRows

LEMMA UsersQuiet == ASSUME QueueInv, Users PROVE Quiet
<1>1. task \in [Id -> Row]
  BY DEF QueueInv, TypeOK
<1>2. ASSUME NEW row \in Row, Insert(row), OnlyTask, row.gen = 0,
             row.status \in {"queued", "deferred"}
      PROVE  Quiet
  <2>1. PICK k \in NextId : task' = [task EXCEPT ![k] = row]
    BY <1>2 DEF Insert
  <2> QED
    BY <1>1, <1>2, <2>1, InsertKept, OnlyTaskQuiet
<1>3. ASSUME NEW S, \A i \in Id : i \in S => Is(i, Live), task' = Set(S, "cancelled"), OnlyTask
      PROVE  Quiet
  BY <1>3, SetKept, OnlyTaskQuiet
<1>4. ASSUME NEW w \in Work, Enqueue(w) PROVE Quiet
  <2>1. New(w) \in Row /\ New(w).gen = 0 /\ New(w).status = "queued"
    BY NewRow DEF New
  <2> QED
    BY <1>2, <1>4, <2>1 DEF Enqueue
<1>5. ASSUME NEW w \in Work, NEW p \in Id, EnqueueDeferred(p, w) PROVE Quiet
  <2> DEFINE row == [New(w) EXCEPT !.status = "deferred", !.esc = p]
  <2>1. New(w) \in Row /\ New(w).gen = 0 /\ p \in Nat
    BY NewRow, QueueAssumption DEF New, Id, QueueAssumption
  <2>2. row \in Row /\ row.gen = 0 /\ row.status = "deferred"
    BY <2>1 DEF Row, Live
  <2> QED
    BY <1>2, <1>5, <2>2 DEF EnqueueDeferred
<1>6. ASSUME NEW i \in Id, Cancel(i) PROVE Quiet
  BY <1>3, <1>6 DEF Cancel
<1>7. ASSUME NEW w \in Work, CancelWork(w) PROVE Quiet
  BY <1>3, <1>7 DEF CancelWork
<1>8. ASSUME NEW w \in Work, Acknowledge(w) PROVE Quiet
  <2>1. \A S : \A i \in Id : i \in Fallbacks(S) => Is(i, Live)
    BY DEF Fallbacks, Is, Live, Active
  <2> QED
    BY <1>3, <1>8, <2>1 DEF Acknowledge
<1> QED
  BY <1>4, <1>5, <1>6, <1>7, <1>8 DEF Users

LEMMA ClockQuiet == ASSUME QueueInv, Clock PROVE Quiet
<1>1. task \in [Id -> Row]
  BY DEF QueueInv, TypeOK
<1>2. ASSUME NEW i \in Id, FireAt(i) PROVE Quiet
  <2> DEFINE row == [task[i] EXCEPT !.due = TRUE]
  <2>1. row \in Row /\ row.work = task[i].work /\ row.gen = task[i].gen
        /\ row.status = task[i].status
    BY <1>1 DEF Row
  <2>2. task' = [task EXCEPT ![i] = row] /\ OnlyTask
    BY <1>2 DEF FireAt
  <2> QED
    BY <2>1, <2>2, TouchKept, OnlyTaskQuiet
<1>3. ASSUME NEW i \in Id, Lapse(i) PROVE Quiet
  <2> DEFINE row == [task[i] EXCEPT !.fresh = FALSE]
  <2>1. row \in Row /\ row.work = task[i].work /\ row.gen = task[i].gen
        /\ row.status = task[i].status
    BY <1>1 DEF Row
  <2>2. task' = [task EXCEPT ![i] = row]
    BY <1>3 DEF Lapse
  <2>3. task' \in [Id -> Row] /\ KeepsRows
    BY <2>1, <2>2, TouchKept
  <2>4. UNCHANGED <<claim, copy, poll, runtime, job, sweeping>> /\ faults' \in 0..MaxFault
    BY <1>3, QueueAssumption
    DEF Lapse, Fault, ServerUnchanged, QueueInv, TypeOK, QueueAssumption
  <2>5. KeepsClaims /\ KeepsCopies
    BY <2>4, SameClaims, SameCopies
  <2> QED
    BY <2>3, <2>4, <2>5 DEF Quiet, QueueInv, TypeOK, Slots
<1> QED
  BY <1>2, <1>3 DEF Clock

LEMMA FollowUpsQuiet == ASSUME QueueInv, FollowUps PROVE Quiet
<1>1. task \in [Id -> Row] /\ TypeOK
  BY DEF QueueInv, TypeOK
<1>2. ASSUME job' \subseteq job, UNCHANGED <<claim, copy, poll, runtime, sweeping, faults>>,
             task' \in [Id -> Row], KeepsRows
      PROVE  Quiet
  <2>1. KeepsClaims /\ KeepsCopies
    BY <1>2, SameClaims, SameCopies
  <2> QED
    BY <1>2, <2>1 DEF Quiet, QueueInv, TypeOK, Slots
<1>3. ASSUME NEW i \in Id, HandleFailed(i) PROVE Quiet
  <2>1. job' \subseteq job /\ UNCHANGED <<claim, copy, poll, runtime, sweeping, faults>>
    BY <1>3 DEF HandleFailed
  <2>2. CASE task' = task
    BY <1>2, <2>1, <2>2, SameRows
  <2>3. CASE task' # task
    <3>1. PICK k \in NextId : task' = [task EXCEPT ![k] = Retry(i, task[i].reason)]
      BY <1>3, <2>3 DEF HandleFailed
    <3>2. task[i].reason \in Reason
      BY <1>1 DEF Row
    <3> DEFINE row == Retry(i, task[i].reason)
    <3>3. row \in Row /\ row.status \in {"queued", "deferred"} /\ row.gen = 0
      BY <1>1, <3>2, RetryRow
    <3> HIDE DEF row
    <3> QED
      BY <1>1, <1>2, <2>1, <3>1, <3>3, InsertKept DEF row
  <2> QED
    BY <2>2, <2>3
<1>4. ASSUME NEW i \in Id, CancelFallbacks(i) PROVE Quiet
  <2>1. job' \subseteq job /\ UNCHANGED <<claim, copy, poll, runtime, sweeping, faults>>
    BY <1>4 DEF CancelFallbacks
  <2>2. \A j \in Id : j \in Fallbacks({i}) => Is(j, Live)
    BY DEF Fallbacks, Is, Live, Active
  <2>3. task' = Set(Fallbacks({i}), "cancelled")
    BY <1>4 DEF CancelFallbacks
  <2> QED
    BY <1>2, <2>1, <2>2, <2>3, SetKept
<1> QED
  BY <1>3, <1>4 DEF FollowUps

\* What a failure does to the rows, with or without a retry.
LEMMA FailWithRetryKept ==
  ASSUME QueueInv, NEW i \in Id, NEW reason \in Reason, Is(i, Active),
         FailWithRetry(i, reason)
  PROVE  task' \in [Id -> Row] /\ KeepsRows
<1>1. TypeOK
  BY DEF QueueInv
<1>2. \A j \in Id : j \in {i} => Is(j, Live)
  BY DEF Is, Live
<1>3. CASE task' = FailAll({i}, reason)
  BY <1>2, <1>3, FailKept
<1>4. CASE task' # FailAll({i}, reason)
  <2>1. PICK k \in NextId : task' = [FailAll({i}, reason) EXCEPT ![k] = Retry(i, reason)]
    BY <1>4 DEF FailWithRetry
  <2> DEFINE row == Retry(i, reason)
             rows == FailAll({i}, reason)
  <2>2. row \in Row /\ row.status \in {"queued", "deferred"} /\ row.gen = 0
    BY <1>1, RetryRow
  <2>3. rows \in [Id -> Row]
    BY <1>1, FailedRows
  <2>4. ASSUME NEW j \in Id
        PROVE  /\ rows[j].work = task[j].work /\ rows[j].gen = task[j].gen
               /\ \/ rows[j].status = task[j].status
                  \/ Is(j, Live) /\ rows[j].status = "failed"
               /\ Is(j, {"absent"}) => rows[j] = task[j]
    <3>1. task[j] \in Row
      BY <1>1 DEF TypeOK
    <3>2. rows[j] = IF j = i THEN [task[j] EXCEPT !.status = "failed", !.reason = reason]
                            ELSE task[j]
      BY DEF FailAll
    <3>3. CASE j = i
      <4>1. ~Is(j, {"absent"}) /\ Is(j, Live)
        BY <3>3 DEF Is, Active, Live
      <4>2. /\ rows[j].work = task[j].work /\ rows[j].gen = task[j].gen
            /\ rows[j].status = "failed"
        BY <3>1, <3>2, <3>3 DEF Row
      <4> QED
        BY <4>1, <4>2
    <3>4. CASE j # i
      BY <3>2, <3>4
    <3> QED
      BY <3>3, <3>4
  <2> HIDE DEF row, rows
  <2>5. task' = [rows EXCEPT ![k] = row]
    BY <2>1 DEF row, rows
  <2> QED
    BY <2>2, <2>3, <2>4, <2>5, InsertKept
<1> QED
  BY <1>3, <1>4

\* All that a daemon's copy does, but starting its row.
RunsOn(c) == \/ ExtendLease(c) \/ Park(c) \/ StartRefused(c)
             \/ Interrupt(c) \/ CompleteTask(c) \/ ReportLost(c)
             \/ \E reason \in Reason : FailTask(c, reason) \/ FailRolledBack(c, reason)

LEMMA RunningQuiet == ASSUME QueueInv, NEW c \in copy, RunsOn(c) PROVE Quiet
<1>1. task \in [Id -> Row] /\ c.task \in Id /\ TypeOK
  BY DEF QueueInv, TypeOK
<1>2. ASSUME copy' \subseteq copy, UNCHANGED <<claim, runtime>>, ServerUnchanged,
             faults' \in 0..MaxFault, task' \in [Id -> Row], KeepsRows
      PROVE  Quiet
  <2>1. KeepsClaims /\ KeepsCopies
    BY <1>2, SameClaims, SameCopies
  <2> QED
    BY <1>2, <2>1 DEF Quiet, QueueInv, TypeOK, Slots, ServerUnchanged
<1>3. faults \in 0..MaxFault
  BY <1>1 DEF TypeOK
<1>4. CASE ExtendLease(c)
  <2> DEFINE row == [task[c.task] EXCEPT !.fresh = TRUE]
  <2>1. row \in Row /\ row.work = task[c.task].work /\ row.gen = task[c.task].gen
        /\ row.status = task[c.task].status
    BY <1>1 DEF Row
  <2>2. task' = [task EXCEPT ![c.task] = row] /\ OnlyTask
    BY <1>4 DEF ExtendLease
  <2> HIDE DEF row
  <2> QED
    BY <1>1, <2>1, <2>2, TouchKept, OnlyTaskQuiet
<1>5. CASE Park(c)
  <2> DEFINE row == [task[c.task] EXCEPT !.status = "waiting", !.fresh = TRUE]
  <2>1. row \in Row /\ row.work = task[c.task].work /\ row.gen = task[c.task].gen
        /\ row.status = "waiting"
    BY <1>1 DEF Row, Live, Active
  <2>2. task' = [task EXCEPT ![c.task] = row] /\ OnlyTask /\ Is(c.task, {"dispatched"})
    BY <1>5 DEF Park
  <2> HIDE DEF row
  <2> QED
    BY <1>1, <2>1, <2>2, TouchKept, OnlyTaskQuiet
<1>6. CASE StartRefused(c)
  <2>1. Moves(c, "refused") /\ OnlyCopies
    BY <1>6 DEF StartRefused
  <2>2. KeepsCopies /\ copy' \subseteq CopyType
    BY <2>1, MovedCopies DEF Stage
  <2>3. KeepsClaims /\ KeepsRows
    BY <2>1, SameClaims, SameRows DEF OnlyCopies
  <2> QED
    BY <2>1, <2>2, <2>3
    DEF Quiet, QueueInv, TypeOK, Slots, OnlyCopies, ServerUnchanged, CopyType
<1>7. CASE Interrupt(c)
  BY <1>2, <1>3, <1>7, SameRows DEF Interrupt, OnlyCopies
<1>8. CASE CompleteTask(c)
  <2>1. task' = task \/ (task' = Set({c.task}, "completed") /\ Is(c.task, {"running"}))
    BY <1>8 DEF CompleteTask
  <2>2. Is(c.task, {"running"}) => \A i \in Id : i \in {c.task} => Is(i, Live)
    BY DEF Is, Live, Active
  <2>3. task' \in [Id -> Row] /\ KeepsRows
    BY <2>1, <2>2, SetKept, SameRows
  <2> QED
    BY <1>2, <1>3, <1>8, <2>3 DEF CompleteTask
<1>9. CASE ReportLost(c)
  <2>1. faults' \in 0..MaxFault
    BY <1>3, <1>9, QueueAssumption DEF ReportLost, Fault, QueueAssumption
  <2> QED
    BY <1>2, <1>9, <2>1, SameRows DEF ReportLost
<1>10. ASSUME NEW reason \in Reason, FailTask(c, reason) PROVE Quiet
  <2>1. task' = task \/ (Is(c.task, Active) /\ FailWithRetry(c.task, reason))
    BY <1>10 DEF FailTask
  <2>2. task' \in [Id -> Row] /\ KeepsRows
    BY <1>1, <2>1, FailWithRetryKept, SameRows
  <2> QED
    BY <1>2, <1>3, <1>10, <2>2 DEF FailTask
<1>11. ASSUME NEW reason \in Reason, FailRolledBack(c, reason) PROVE Quiet
  BY <1>2, <1>3, <1>11, SameRows DEF FailRolledBack, OnlyCopies
<1> QED
  BY <1>4, <1>5, <1>6, <1>7, <1>8, <1>9, <1>10, <1>11 DEF RunsOn

LEMMA SweepingQuiet == ASSUME QueueInv, Sweeping PROVE Quiet
<1>1. task \in [Id -> Row] /\ TypeOK
  BY DEF QueueInv, TypeOK
<1>2. ASSUME UNCHANGED <<claim, copy, poll>>, task' \in [Id -> Row], KeepsRows,
             runtime' \in [Runtime -> [online: BOOLEAN, daemon: Daemon]],
             job' \subseteq [what: {"failed", "started"}, task: Id],
             sweeping' \in BOOLEAN, faults' \in 0..MaxFault
      PROVE  Quiet
  <2>1. KeepsClaims /\ KeepsCopies
    BY <1>2, SameClaims, SameCopies
  <2> QED
    BY <1>2, <2>1 DEF Quiet, QueueInv, TypeOK, Slots
<1>3. ASSUME NEW S \in SUBSET Id, NEW reason \in Reason, FailRows(S, reason),
             \A i \in Id : i \in S => Is(i, Live)
      PROVE  /\ task' \in [Id -> Row] /\ KeepsRows
             /\ job' \subseteq [what: {"failed", "started"}, task: Id]
  <2>1. task' = FailAll(S, reason) /\ job' = job \union FailedJobs(S)
    BY <1>3 DEF FailRows
  <2>2. FailedJobs(S) \subseteq [what: {"failed", "started"}, task: Id]
    BY DEF FailedJobs
  <2> QED
    BY <1>1, <1>3, <2>1, <2>2, FailKept DEF TypeOK
<1>4. ASSUME NEW r \in Runtime, MarkOffline(r) PROVE Quiet
  <2>1. faults' \in 0..MaxFault
    BY <1>1, <1>4, QueueAssumption DEF MarkOffline, Fault, TypeOK, QueueAssumption
  <2>2. runtime' \in [Runtime -> [online: BOOLEAN, daemon: Daemon]]
    BY <1>1, <1>4 DEF MarkOffline, SetRuntime, TypeOK
  <2>3. UNCHANGED <<task, claim, copy, poll, job>> /\ sweeping' \in BOOLEAN
    BY <1>4 DEF MarkOffline
  <2> QED
    BY <1>1, <1>2, <2>1, <2>2, <2>3, SameRows DEF TypeOK
<1>5. ASSUME FailTasksForOfflineRuntimes PROVE Quiet
  <2> DEFINE S == ActiveOn({r \in Runtime : ~runtime[r].online})
  <2>1. S \in SUBSET Id /\ \A i \in Id : i \in S => Is(i, Live)
    BY DEF ActiveOn, Is, Live
  <2>2. FailRows(S, "infra") /\ "infra" \in Reason /\ sweeping' \in BOOLEAN
        /\ UNCHANGED <<claim, copy, poll, runtime, faults>>
    BY <1>5 DEF FailTasksForOfflineRuntimes, Reason
  <2> HIDE DEF S
  <2> QED
    BY <1>1, <1>2, <1>3, <2>1, <2>2 DEF TypeOK
<1>6. ASSUME NEW i \in Id, FailStale(i) \/ ExpireQueued(i) PROVE Quiet
  <2>1. PICK reason \in {"infra", "agent"} : FailRows({i}, reason)
    BY <1>6 DEF FailStale, ExpireQueued
  <2>2. Is(i, Live) /\ UNCHANGED <<claim, copy, poll, runtime, sweeping, faults>>
    BY <1>6 DEF FailStale, ExpireQueued, Is, Live, Active
  <2>3. reason \in Reason
    BY DEF Reason
  <2> QED
    BY <1>1, <1>2, <1>3, <2>1, <2>2, <2>3 DEF TypeOK
<1> QED
  BY <1>4, <1>5, <1>6 DEF Sweeping

PollType == [at: {"idle", "promoted", "scan", "claiming"}, agents: SUBSET Agent, left: Nat]

LEMMA PollKept ==
  ASSUME QueueInv, NEW r \in Runtime, NEW p \in PollType, Poll(r, p),
         p.at # "idle" => p.left > 0
  PROVE  poll' \in [Runtime -> PollType] /\ Slots'
  BY DEF QueueInv, TypeOK, Slots, Poll, PollType

LEMMA IdlePoll == Idle \in PollType /\ Idle.at = "idle"
  BY DEF Idle, PollType

LEMMA RuntimeKept ==
  ASSUME QueueInv, NEW r \in Runtime, NEW online \in BOOLEAN,
         NEW daemon \in Daemon, SetRuntime(r, online, daemon)
  PROVE  runtime' \in [Runtime -> [online: BOOLEAN, daemon: Daemon]]
  BY DEF QueueInv, TypeOK, SetRuntime

LEMMA DaemonDownQuiet == ASSUME QueueInv, NEW r \in Runtime, DaemonDown(r) PROVE Quiet
<1>1. TypeOK /\ runtime[r].online \in BOOLEAN
  BY DEF QueueInv, TypeOK
<1>2. poll' \in [Runtime -> PollType] /\ Slots'
  BY PollKept, IdlePoll DEF DaemonDown
<1>3. runtime' \in [Runtime -> [online: BOOLEAN, daemon: Daemon]]
  <2>1. PICK online \in {FALSE, runtime[r].online} : SetRuntime(r, online, "down")
    BY DEF DaemonDown
  <2> QED
    BY <1>1, <2>1, RuntimeKept DEF Daemon
<1>4. KeepsRows /\ task' \in [Id -> Row]
  BY SameRows DEF DaemonDown
<1>5. KeepsCopies /\ copy' \subseteq CopyType
  BY SameCopies DEF DaemonDown
<1>6. KeepsClaims /\ claim' \subseteq [task: Id, gen: Nat, lost: BOOLEAN]
  <2> DEFINE lost(c) == [c EXCEPT !.lost = @ \/ task[c.task].work.runtime = r]
  <2>1. claim' = {lost(c) : c \in claim}
    BY DEF DaemonDown
  <2>2. ASSUME NEW c \in claim
        PROVE  /\ lost(c) \in [task: Id, gen: Nat, lost: BOOLEAN]
               /\ lost(c).task = c.task /\ lost(c).gen = c.gen
    BY <1>1 DEF TypeOK
  <2>3. \A c, d \in claim : c.task = d.task /\ c.gen = d.gen => c = d
    BY DEF QueueInv, Generations
  <2> HIDE DEF lost
  <2> QED
    BY <2>1, <2>2, <2>3 DEF KeepsClaims
<1>7. job' = job /\ sweeping' = sweeping /\ faults' \in 0..MaxFault
  BY <1>1, QueueAssumption DEF DaemonDown, Fault, TypeOK, QueueAssumption
<1> QED
  BY <1>1, <1>2, <1>3, <1>4, <1>5, <1>6, <1>7, QuietParts DEF TypeOK, PollType

LEMMA ProcessesQuiet == ASSUME QueueInv, Processes PROVE Quiet
<1>1. TypeOK
  BY DEF QueueInv
<1>2. ASSUME claim' \subseteq claim, copy' = copy, poll' = poll, task' \in [Id -> Row],
             KeepsRows,
             runtime' \in [Runtime -> [online: BOOLEAN, daemon: Daemon]],
             job' \subseteq [what: {"failed", "started"}, task: Id],
             sweeping' = sweeping, faults' \in 0..MaxFault
      PROVE  Quiet
  <2>1. KeepsClaims /\ KeepsCopies
    BY <1>2, SameClaims, SameCopies
  <2> QED
    BY <1>2, <2>1 DEF Quiet, QueueInv, TypeOK, Slots
<1>3. ASSUME NEW r \in Runtime, Register(r) \/ RegisterLate(r) PROVE Quiet
  <2>1. PICK daemon \in Daemon : SetRuntime(r, TRUE, daemon)
    BY <1>3 DEF Register, RegisterLate, Daemon
  <2>2. OnlyRuntime
    BY <1>3 DEF Register, RegisterLate
  <2> QED
    BY <1>1, <1>2, <2>1, <2>2, RuntimeKept, SameRows DEF OnlyRuntime, TypeOK
<1>4. ASSUME NEW r \in Runtime, Heartbeat(r) PROVE Quiet
  <2>1. runtime[r].daemon \in Daemon
    BY <1>1 DEF TypeOK
  <2> QED
    BY <1>1, <1>2, <1>4, <2>1, RuntimeKept, SameRows DEF Heartbeat, OnlyRuntime, TypeOK
<1>5. ASSUME NEW r \in Runtime, RecoverOrphansLost(r) \/ RegisterFailed(r) PROVE Quiet
  <2>1. runtime[r].online \in BOOLEAN
    BY <1>1 DEF TypeOK
  <2>2. faults' \in 0..MaxFault
    BY <1>1, <1>5, QueueAssumption
    DEF RecoverOrphansLost, RegisterFailed, Fault, TypeOK, QueueAssumption
  <2>3. PICK daemon \in Daemon : SetRuntime(r, runtime[r].online, daemon)
    BY <1>5 DEF RecoverOrphansLost, RegisterFailed, Daemon
  <2>4. UNCHANGED <<task, claim, copy, poll, job, sweeping>>
    BY <1>5 DEF RecoverOrphansLost, RegisterFailed
  <2> QED
    BY <1>1, <1>2, <2>1, <2>2, <2>3, <2>4, RuntimeKept, SameRows DEF TypeOK
<1>6. ASSUME NEW r \in Runtime, RecoverOrphans(r) PROVE Quiet
  <2> DEFINE S == ActiveOn({r})
  <2>1. S \subseteq Id /\ \A i \in Id : i \in S => Is(i, Live)
    BY DEF ActiveOn, Is, Live
  <2>2. task' = FailAll(S, "recovery") /\ job' = job \union FailedJobs(S)
    BY <1>6 DEF RecoverOrphans, FailRows
  <2>3. task' \in [Id -> Row] /\ KeepsRows
    BY <2>1, <2>2, FailKept DEF Reason
  <2>4. FailedJobs(S) \subseteq [what: {"failed", "started"}, task: Id]
    BY <2>1 DEF FailedJobs
  <2>5. runtime[r].online \in BOOLEAN
    BY <1>1 DEF TypeOK
  <2> HIDE DEF S
  <2>6. runtime' \in [Runtime -> [online: BOOLEAN, daemon: Daemon]]
    BY <1>6, <2>5, RuntimeKept DEF RecoverOrphans, Daemon
  <2> QED
    BY <1>1, <1>2, <1>6, <2>2, <2>3, <2>4, <2>6 DEF RecoverOrphans, TypeOK
<1>7. ASSUME ServerCrash PROVE Quiet
  <2>1. poll' \in [Runtime -> PollType] /\ Slots'
    BY <1>7, IdlePoll DEF ServerCrash, Slots
  <2>2. claim' \subseteq claim /\ copy' = copy /\ job' = {} /\ sweeping' \in BOOLEAN
        /\ task' = task /\ runtime' = runtime
    BY <1>7 DEF ServerCrash
  <2>3. faults' \in 0..MaxFault
    BY <1>1, <1>7, QueueAssumption DEF ServerCrash, Fault, TypeOK, QueueAssumption
  <2> QED
    BY <1>1, <2>1, <2>2, <2>3, SameRows, SameClaims, SameCopies, QuietParts
    DEF TypeOK, PollType
<1> QED
  BY <1>3, <1>4, <1>5, <1>6, <1>7, DaemonDownQuiet DEF Processes

LEMMA PollingQuiet ==
  ASSUME QueueInv, NEW r \in Runtime,
         ListQueued(r) \/ \E n \in 1..MaxBatch : Promote(r, n)
  PROVE  Quiet
<1>1. TypeOK
  BY DEF QueueInv
<1>2. ASSUME UNCHANGED <<claim, copy, runtime, job, sweeping, faults>>,
             task' \in [Id -> Row], KeepsRows, poll' \in [Runtime -> PollType], Slots'
      PROVE  Quiet
  <2>1. KeepsClaims /\ KeepsCopies
    BY <1>2, SameClaims, SameCopies
  <2> QED
    BY <1>1, <1>2, <2>1 DEF Quiet, TypeOK, PollType
<1>3. CASE ListQueued(r)
  <2> DEFINE agents == {task[i].work.agent : i \in {j \in Id : /\ Is(j, {"queued"})
                                                               /\ task[j].work.runtime = r}}
             p == IF agents = {} THEN Idle
                  ELSE [at |-> "claiming", agents |-> agents, left |-> poll[r].left]
  <2>1. \A i \in Id : task[i].work.agent \in Agent
    BY <1>1, QueueAssumption DEF TypeOK, Row, QueueAssumption
  <2>2. agents \in SUBSET Agent
    BY <2>1
  <2>3. Poll(r, p) /\ UNCHANGED <<task, claim, copy, runtime, job, sweeping, faults>>
        /\ poll[r].at = "scan"
    BY <1>3 DEF ListQueued
  <2>4. poll[r].left \in Nat /\ poll[r].left > 0
    BY <1>1, <2>3 DEF TypeOK, QueueInv, Slots
  <2> HIDE DEF agents
  <2>5. p \in PollType /\ (p.at # "idle" => p.left > 0)
    BY <2>2, <2>4, IdlePoll DEF PollType
  <2> QED
    BY <1>2, <2>3, <2>5, PollKept, SameRows
<1>4. ASSUME NEW n \in 1..MaxBatch, Promote(r, n) PROVE Quiet
  <2>1. [at |-> "promoted", agents |-> {}, left |-> n] \in PollType /\ n > 0
    BY QueueAssumption DEF PollType, QueueAssumption
  <2>2. poll' \in [Runtime -> PollType] /\ Slots'
    BY <1>4, <2>1, PollKept DEF Promote
  <2> DEFINE S == {i \in Id : Is(i, {"deferred"}) /\ task[i].due /\ task[i].work.runtime = r}
  <2>3. task' = Set(S, "queued")
    BY <1>4 DEF Promote, PromoteDue
  <2>4. task' \in [Id -> Row]
    BY <1>1, <2>3, SetRows DEF Live
  <2>5. ASSUME NEW i \in Id PROVE RowKept(i)
    <3>1. task[i] \in Row /\ (i \in S => Is(i, {"deferred"}))
      BY <1>1 DEF TypeOK
    <3> HIDE DEF S
    <3>2. task'[i] = IF i \in S THEN [task[i] EXCEPT !.status = "queued"] ELSE task[i]
      BY <2>3 DEF Set
    <3>3. CASE i \in S
      <4>1. task'[i].status = "queued" /\ task'[i].work = task[i].work
            /\ task'[i].gen = task[i].gen
        BY <3>1, <3>2, <3>3 DEF Row
      <4> QED
        BY <3>1, <3>3, <4>1 DEF RowKept
    <3>4. CASE i \notin S
      BY <3>2, <3>4 DEF RowKept
    <3> QED
      BY <3>3, <3>4
  <2> QED
    BY <1>2, <1>4, <2>2, <2>4, <2>5 DEF Promote, KeepsRows
<1> QED
  BY <1>3, <1>4

LEMMA LoseResponseQuiet == ASSUME QueueInv, NEW c \in claim, LoseResponse(c) PROVE Quiet
<1>1. TypeOK
  BY DEF QueueInv
<1>2. faults' \in 0..MaxFault
  BY <1>1, QueueAssumption DEF LoseResponse, Fault, TypeOK, QueueAssumption
<1>3. /\ claim' \subseteq claim
      /\ UNCHANGED <<task, copy, runtime, poll, job, sweeping>>
  BY DEF LoseResponse, ServerUnchanged
<1>4. KeepsRows /\ KeepsClaims /\ KeepsCopies
  BY <1>3, SameRows, SameClaims, SameCopies
<1> QED
  BY <1>1, <1>2, <1>3, <1>4 DEF Quiet, QueueInv, TypeOK, Slots
-----------------------------------------------------------------------------
(* The steps that are not quiet                                            *)

LEMMA IdFinite == IsFiniteSet(Id)
  BY QueueAssumption, FS_Interval DEF Id, QueueAssumption

LEMMA DispatchRows ==
  ASSUME TypeOK, NEW S \in SUBSET Id
  PROVE  /\ Dispatch(S) \in [Id -> Row]
         /\ \A i \in Id : /\ Dispatch(S)[i].work = task[i].work
                          /\ i \in S => /\ Dispatch(S)[i].status = "dispatched"
                                        /\ Dispatch(S)[i].gen = task[i].gen + 1
                          /\ i \notin S => Dispatch(S)[i] = task[i]
<1> DEFINE row(i) == [task[i] EXCEPT !.status = "dispatched", !.gen = task[i].gen + 1,
                                     !.fresh = TRUE]
<1>1. ASSUME NEW i \in Id
      PROVE  /\ task[i] \in Row /\ row(i) \in Row /\ row(i).work = task[i].work
             /\ row(i).status = "dispatched" /\ row(i).gen = task[i].gen + 1
  <2>1. task[i] \in Row /\ task[i].gen + 1 \in Nat
    BY DEF TypeOK, Row
  <2> QED
    BY <2>1 DEF Row, Live, Active
<1>2. \A i \in Id : Dispatch(S)[i] = IF i \in S THEN row(i) ELSE task[i]
  BY DEF Dispatch
<1>3. Dispatch(S) = [i \in Id |-> IF i \in S THEN row(i) ELSE task[i]]
  BY DEF Dispatch
<1> HIDE DEF row
<1> QED
  BY <1>1, <1>2, <1>3

\* A claim dispatches rows and hands some of them to the daemon that asks.
Dispatches(S, own) == /\ task' = Dispatch(S) /\ claim' = claim \union Claims(own)
                      /\ copy' = copy

LEMMA DispatchesGenerations ==
  ASSUME QueueInv, NEW S \in SUBSET Id, NEW own \in SUBSET S, Dispatches(S, own)
  PROVE  Generations' /\ claim' \subseteq [task: Id, gen: Nat, lost: BOOLEAN]
<1>1. TypeOK /\ Generations
  BY DEF QueueInv
<1>2. \A i \in Id : /\ task[i].gen \in Nat /\ task'[i].gen \in Nat
                    /\ i \in S => task'[i].gen = task[i].gen + 1 /\ task'[i].status = "dispatched"
                    /\ i \notin S => task'[i] = task[i]
  BY <1>1, DispatchRows DEF TypeOK, Row, Dispatches
<1>3. \A c \in claim : c \in [task: Id, gen: Nat, lost: BOOLEAN]
  BY <1>1 DEF TypeOK
<1>4. \A c \in copy : c.task \in Id /\ c.gen \in Nat
  BY <1>1 DEF TypeOK
<1>5. \A c \in Claims(own) : /\ c \in [task: Id, gen: Nat, lost: BOOLEAN]
                             /\ c.task \in own /\ c.gen = task[c.task].gen + 1
                             /\ c.lost = FALSE
  <2> SUFFICES ASSUME NEW c \in Claims(own)
               PROVE  /\ c \in [task: Id, gen: Nat, lost: BOOLEAN]
                      /\ c.task \in own /\ c.gen = task[c.task].gen + 1 /\ c.lost = FALSE
    OBVIOUS
  <2>1. PICK i \in own : c = [task |-> i, gen |-> task[i].gen + 1, lost |-> FALSE]
    BY DEF Claims
  <2>2. i \in Id /\ task[i].gen + 1 \in Nat
    BY <1>2
  <2> QED
    BY <2>1, <2>2
<1>6. claim' = claim \union Claims(own) /\ copy' = copy
  BY DEF Dispatches
<1>7. \A c \in claim \union copy : c.gen \in 1..task[c.task].gen
  BY <1>1 DEF Generations
<1>8. \A c \in claim' \union copy' : c.gen \in 1..task'[c.task].gen
  BY <1>2, <1>3, <1>4, <1>5, <1>6, <1>7
<1>9. \A c, d \in claim' : c.task = d.task /\ c.gen = d.gen => c = d
  <2> SUFFICES ASSUME NEW c \in claim', NEW d \in claim', c.task = d.task, c.gen = d.gen
               PROVE  c = d
    OBVIOUS
  <2>1. CASE c \in claim /\ d \in claim
    BY <1>1, <2>1 DEF Generations
  <2>2. CASE c \in Claims(own) /\ d \in Claims(own)
    BY <1>5, <2>2
  <2>3. CASE c \in claim /\ d \in Claims(own)
    BY <1>2, <1>3, <1>5, <1>7, <2>3
  <2>4. CASE c \in Claims(own) /\ d \in claim
    BY <1>2, <1>3, <1>5, <1>7, <2>4
  <2> QED
    BY <1>6, <2>1, <2>2, <2>3, <2>4
<1>10. \A c \in claim', d \in copy' : c.task = d.task => c.gen # d.gen
  <2> SUFFICES ASSUME NEW c \in claim', NEW d \in copy', c.task = d.task
               PROVE  c.gen # d.gen
    OBVIOUS
  <2>1. CASE c \in claim
    BY <1>1, <1>6, <2>1 DEF Generations
  <2>2. CASE c \in Claims(own)
    BY <1>2, <1>4, <1>5, <1>6, <1>7, <2>2
  <2> QED
    BY <1>6, <2>1, <2>2
<1>11. \A i \in Id : task'[i].status \in {"absent", "deferred"} => task'[i].gen = 0
  BY <1>1, <1>2 DEF Generations, Is
<1> QED
  BY <1>1, <1>3, <1>5, <1>6, <1>8, <1>9, <1>10, <1>11 DEF Generations, Is

LEMMA ReclaimStep ==
  ASSUME QueueInv, NEW r \in Runtime, Reclaim(r)
  PROVE  QueueInv' /\ \E S \in SUBSET Stale(r) : Dispatches(S, S)
<1>1. PICK S \in SUBSET Stale(r) :
        /\ Cardinality(S) <= poll[r].left
        /\ task' = Dispatch(S) /\ claim' = claim \union Claims(S)
        /\ Poll(r, IF Cardinality(S) = poll[r].left THEN Idle
                   ELSE [at |-> "scan", agents |-> {}, left |-> poll[r].left - Cardinality(S)])
  BY DEF Reclaim
<1>2. UNCHANGED <<copy, runtime, job, sweeping, faults>>
  BY DEF Reclaim
<1>3. S \in SUBSET Id /\ TypeOK
  BY DEF Stale, QueueInv
<1>4. Cardinality(S) \in Nat /\ poll[r].left \in Nat
  BY <1>3, IdFinite, FS_Subset, FS_CardinalityType DEF TypeOK
<1>5. Dispatches(S, S)
  BY <1>1, <1>2 DEF Dispatches
<1>6. Generations' /\ claim' \subseteq [task: Id, gen: Nat, lost: BOOLEAN]
  BY <1>3, <1>5, DispatchesGenerations
<1>7. task' \in [Id -> Row]
  BY <1>1, <1>3, DispatchRows
<1> DEFINE p == IF Cardinality(S) = poll[r].left THEN Idle
                ELSE [at |-> "scan", agents |-> {}, left |-> poll[r].left - Cardinality(S)]
<1>8. p \in PollType /\ (p.at # "idle" => p.left > 0)
  BY <1>1, <1>4, IdlePoll DEF PollType
<1>9. poll' \in [Runtime -> PollType] /\ Slots'
  BY <1>1, <1>8, PollKept
<1> QED
  BY <1>2, <1>3, <1>5, <1>6, <1>7, <1>9 DEF QueueInv, TypeOK, PollType

\* The row a transaction of ClaimTask dispatches.
Chosen(a) == IF RunningCount(a) < Capacity[a] THEN Head(a) ELSE {}

LEMMA ChosenOne ==
  ASSUME TypeOK, NEW a
  PROVE  /\ Chosen(a) \subseteq Claimable(a) /\ Chosen(a) \subseteq Id
         /\ \A i, j \in Chosen(a) : i = j
         /\ Chosen(a) # {} => RunningCount(a) < Capacity[a]
<1>1. Chosen(a) \subseteq Head(a) /\ Head(a) \subseteq Claimable(a) /\ Claimable(a) \subseteq Id
  BY DEF Chosen, Head, Claimable
<1>2. \A i \in Id : i \in Nat /\ task[i].prio \in Nat
  BY QueueAssumption DEF TypeOK, Row, Id, QueueAssumption
<1>3. \A i, j \in Head(a) : Before(i, j) /\ Before(j, i)
  BY DEF Head
<1>4. \A i, j \in Head(a) : i = j
  BY <1>1, <1>2, <1>3 DEF Before
<1> QED
  BY <1>1, <1>4 DEF Chosen

LEMMA ClaimStep ==
  ASSUME QueueInv, NEW r \in Runtime, NEW a \in Agent, ClaimTask(r, a)
  PROVE  QueueInv' /\ \E own \in SUBSET Chosen(a) : Dispatches(Chosen(a), own)
<1> DEFINE H == Chosen(a)
           own == {i \in H : task[i].work.runtime = r}
           left == poll[r].left - Cardinality(own)
           agents == poll[r].agents \ {a}
           p == IF left = 0 \/ agents = {} THEN Idle
                ELSE [at |-> "claiming", agents |-> agents, left |-> left]
<1>1. /\ task' = Dispatch(H) /\ claim' = claim \union Claims(own) /\ Poll(r, p)
      /\ poll[r].at = "claiming" /\ UNCHANGED <<copy, runtime, job, sweeping, faults>>
  BY DEF ClaimTask, Chosen
<1>2. TypeOK
  BY DEF QueueInv
<1>3. H \in SUBSET Id /\ own \in SUBSET H /\ \A i, j \in H : i = j
  BY <1>2, ChosenOne
<1>4. Dispatches(H, own)
  BY <1>1 DEF Dispatches
<1>5. Generations' /\ claim' \subseteq [task: Id, gen: Nat, lost: BOOLEAN]
  BY <1>3, <1>4, DispatchesGenerations
<1>6. task' \in [Id -> Row]
  BY <1>1, <1>2, <1>3, DispatchRows
<1>7. Cardinality(own) \in 0..1
  <2>1. CASE own = {}
    BY <2>1, FS_EmptySet
  <2>2. CASE own # {}
    <3>1. PICK i \in own : own = {i}
      BY <1>3, <2>2
    <3> QED
      BY <3>1, FS_Singleton
  <2> QED
    BY <2>1, <2>2
<1>8. poll[r].left \in Nat /\ poll[r].left > 0 /\ poll[r].agents \in SUBSET Agent
  BY <1>1, <1>2 DEF TypeOK, QueueInv, Slots
<1>9. left \in Nat
  BY <1>7, <1>8
<1> HIDE DEF left
<1>10. p \in PollType /\ (p.at # "idle" => p.left > 0)
  BY <1>8, <1>9, IdlePoll DEF PollType
<1>11. poll' \in [Runtime -> PollType] /\ Slots'
  BY <1>1, <1>10, PollKept
<1> QED
  BY <1>1, <1>2, <1>3, <1>4, <1>5, <1>6, <1>11 DEF QueueInv, TypeOK, PollType

LEMMA DeliverStep ==
  ASSUME QueueInv, NEW c \in claim, Deliver(c)
  PROVE  QueueInv'
<1> DEFINE d == [task |-> c.task, gen |-> c.gen, at |-> "preparing"]
<1>1. /\ claim' = claim \ {c} /\ copy' = copy \union {d}
      /\ UNCHANGED <<task, runtime, faults, poll, job, sweeping>>
  BY DEF Deliver, ServerUnchanged
<1>2. TypeOK /\ Generations /\ c.task \in Id /\ c.gen \in Nat
  BY DEF QueueInv, TypeOK
<1>3. d \in CopyType /\ d.task = c.task /\ d.gen = c.gen
  BY <1>2 DEF CopyType, Stage
<1> HIDE DEF d
<1>4. TypeOK'
  BY <1>1, <1>2, <1>3 DEF TypeOK, CopyType
<1>5. Generations'
  BY <1>1, <1>2, <1>3 DEF Generations, Is
<1> QED
  BY <1>1, <1>4, <1>5 DEF QueueInv, Slots

LEMMA RequeueStep ==
  ASSUME QueueInv, NEW c \in claim, Requeue(c)
  PROVE  /\ QueueInv'
         /\ claim' = claim \ {c} /\ copy' = copy
         /\ task' = task \/ (CurrentClaim(c) /\ task' = Set({c.task}, "queued"))
<1>1. /\ claim' = claim \ {c}
      /\ UNCHANGED <<copy, runtime, poll, job, sweeping>>
      /\ task' = task \/ (CurrentClaim(c) /\ task' = Set({c.task}, "queued"))
  BY DEF Requeue, ServerUnchanged
<1>2. TypeOK /\ Generations /\ c.task \in Id
  BY DEF QueueInv, TypeOK
<1>3. faults' \in 0..MaxFault
  BY <1>2, QueueAssumption DEF Requeue, Fault, TypeOK, QueueAssumption
<1>4. task' \in [Id -> Row]
  BY <1>1, <1>2, SetRows DEF TypeOK, Live
<1>5. \A i \in Id : /\ task'[i].gen = task[i].gen
                    /\ task'[i].status \in {task[i].status, "queued"}
  <2>1. CASE task' = task
    BY <2>1
  <2>2. CASE task' = Set({c.task}, "queued")
    <3> SUFFICES ASSUME NEW i \in Id
                 PROVE  /\ task'[i].gen = task[i].gen
                        /\ task'[i].status \in {task[i].status, "queued"}
      OBVIOUS
    <3>1. task[i] \in Row
      BY <1>2 DEF TypeOK
    <3>2. task'[i] = IF i \in {c.task} THEN [task[i] EXCEPT !.status = "queued"] ELSE task[i]
      BY <2>2 DEF Set
    <3> QED
      BY <3>1, <3>2 DEF Row
  <2> QED
    BY <1>1, <2>1, <2>2
<1>6. TypeOK'
  BY <1>1, <1>2, <1>3, <1>4 DEF TypeOK
<1>7. Generations'
  <2>1. \A e \in claim \union copy : e.task \in Id
    BY <1>2 DEF TypeOK
  <2> QED
    BY <1>1, <1>2, <1>5, <2>1 DEF Generations, Is
<1> QED
  BY <1>1, <1>6, <1>7 DEF QueueInv, Slots

LEMMA StartStep ==
  ASSUME QueueInv, NEW c \in copy, StartTask(c) \/ StartReplyLost(c)
  PROVE  /\ QueueInv'
         /\ Is(c.task, {"dispatched", "waiting"}) /\ KeepsCopies /\ claim' = claim
         /\ \A i \in Id : /\ task'[i].work = task[i].work /\ task'[i].gen = task[i].gen
                          /\ task'[i].status = IF i = c.task THEN "running" ELSE task[i].status
<1>1. TypeOK /\ Generations /\ c.task \in Id
  BY DEF QueueInv, TypeOK
<1>2. Start(c.task) /\ \E at \in {"running", "unsure"} : Moves(c, at)
  BY DEF StartTask, StartReplyLost
<1>3. KeepsCopies /\ copy' \subseteq CopyType
  BY <1>2, MovedCopies DEF Stage
<1>4. faults' \in 0..MaxFault
  BY <1>1, QueueAssumption DEF StartTask, StartReplyLost, Fault, TypeOK, QueueAssumption
<1> DEFINE row == [task[c.task] EXCEPT !.status = "running", !.starts = task[c.task].starts + 1]
<1>5. /\ row \in Row /\ row.work = task[c.task].work /\ row.gen = task[c.task].gen
      /\ row.status = "running"
  <2>1. task[c.task] \in Row /\ task[c.task].starts + 1 \in Nat
    BY <1>1 DEF TypeOK, Row
  <2> QED
    BY <2>1 DEF Row, Live, Active
<1>6. task' = [task EXCEPT ![c.task] = row] /\ Is(c.task, {"dispatched", "waiting"})
      /\ UNCHANGED <<claim, poll, runtime, sweeping>>
      /\ job' \subseteq job \union {[what |-> "started", task |-> c.task]}
  <2>1. task' = [task EXCEPT ![c.task] = row]
    BY <1>1, <1>2 DEF Start, TypeOK
  <2> HIDE DEF row
  <2>2. job' \subseteq job \union {[what |-> "started", task |-> c.task]}
    BY <1>2 DEF Start
  <2> QED
    BY <1>2, <2>1, <2>2 DEF Start
<1> HIDE DEF row
<1>7. task' \in [Id -> Row]
      /\ \A i \in Id : /\ task'[i].work = task[i].work /\ task'[i].gen = task[i].gen
                       /\ task'[i].status = IF i = c.task THEN "running" ELSE task[i].status
  BY <1>1, <1>5, <1>6 DEF TypeOK
<1>8. TypeOK'
  BY <1>1, <1>3, <1>4, <1>6, <1>7 DEF TypeOK, CopyType
<1>9. Generations'
  <2>1. \A e \in claim \union copy : e.task \in Id
    BY <1>1 DEF TypeOK
  <2>2. Is(c.task, {"absent", "deferred"})' = FALSE
    BY <1>1, <1>7 DEF Is
  <2> QED
    BY <1>1, <1>3, <1>6, <1>7, <2>1, <2>2 DEF Generations, KeepsCopies, Is
<1> QED
  BY <1>3, <1>6, <1>7, <1>8, <1>9 DEF QueueInv, Slots

LEMMA QuietGenerations == ASSUME QueueInv, Quiet PROVE QueueInv'
<1>1. Generations /\ TypeOK /\ TypeOK' /\ Slots' /\ KeepsClaims /\ KeepsCopies
  BY DEF QueueInv, Quiet
<1>2. \A i \in Id : /\ task'[i].gen = task[i].gen
                    /\ task'[i].status \in {"absent", "deferred"}
                         => task[i].status \in {"absent", "deferred"}
  BY DEF Quiet, KeepsRows, RowKept, Is, Terminal
<1>3. \A c \in claim \union copy : c.task \in Id
  BY <1>1 DEF TypeOK
<1>4. Generations'
  <2>1. /\ \A c \in claim' \union copy' : c.gen \in 1..task'[c.task].gen
        /\ \A c \in claim', d \in copy' : c.task = d.task => c.gen # d.gen
    <3>1. \A c \in claim' \union copy' :
            \E d \in claim \union copy : c.task = d.task /\ c.gen = d.gen
      BY <1>1 DEF KeepsClaims, KeepsCopies
    <3>2. \A c \in claim' \union copy' : c.gen \in 1..task'[c.task].gen
      BY <1>1, <1>2, <1>3, <3>1 DEF Generations
    <3>3. \A c \in claim', d \in copy' : c.task = d.task => c.gen # d.gen
      BY <1>1 DEF Generations, KeepsClaims, KeepsCopies
    <3> QED
      BY <3>2, <3>3
  <2>2. /\ \A c, d \in claim' : c.task = d.task /\ c.gen = d.gen => c = d
        /\ \A c, d \in copy' : c.task = d.task /\ c.gen = d.gen => c = d
    BY <1>1 DEF KeepsClaims, KeepsCopies
  <2>3. \A i \in Id : task'[i].status \in {"absent", "deferred"} => task'[i].gen = 0
    BY <1>1, <1>2 DEF Generations, Is
  <2> QED
    BY <2>1, <2>2, <2>3 DEF Generations, Is
<1> QED
  BY <1>1, <1>4 DEF QueueInv

\* A step is quiet or one of these.
LEMMA Steps ==
  ASSUME QueueInv, [Next]_vars
  PROVE  \/ Quiet
         \/ \E r \in Runtime : Reclaim(r) \/ \E a \in Agent : ClaimTask(r, a)
         \/ \E c \in claim : Deliver(c) \/ Requeue(c)
         \/ \E c \in copy : StartTask(c) \/ StartReplyLost(c)
<1>1. CASE UNCHANGED vars
  <2>1. OnlyTask /\ task' = task
    BY <1>1 DEF vars, OnlyTask
  <2> QED
    BY <2>1, SameRows, OnlyTaskQuiet
<1>2. CASE Users
  BY <1>2, UsersQuiet
<1>3. CASE Claiming
  BY <1>3, PollingQuiet DEF Claiming
<1>4. CASE Finalizing
  BY <1>4, LoseResponseQuiet DEF Finalizing
<1>5. CASE Running
  BY <1>5, RunningQuiet DEF Running, RunsOn
<1>6. CASE FollowUps
  BY <1>6, FollowUpsQuiet
<1>7. CASE Clock
  BY <1>7, ClockQuiet
<1>8. CASE Sweeping
  BY <1>8, SweepingQuiet
<1>9. CASE Processes
  BY <1>9, ProcessesQuiet
<1> QED
  BY <1>1, <1>2, <1>3, <1>4, <1>5, <1>6, <1>7, <1>8, <1>9 DEF Next
-----------------------------------------------------------------------------
LEMMA InitQueueInv == Init => QueueInv
<1> SUFFICES ASSUME Init PROVE QueueInv
  OBVIOUS
<1>1. task \in [Id -> Row] /\ \A i \in Id : task[i].gen = 0
  BY AbsentRow DEF Init, Absent, New
<1>2. TypeOK
  <2>1. poll \in [Runtime -> PollType]
    BY IdlePoll DEF Init
  <2>2. runtime \in [Runtime -> [online: BOOLEAN, daemon: Daemon]]
    BY DEF Init, Daemon
  <2>3. faults \in 0..MaxFault /\ claim = {} /\ copy = {} /\ job = {} /\ sweeping = FALSE
    BY QueueAssumption DEF Init, QueueAssumption
  <2> QED
    BY <1>1, <2>1, <2>2, <2>3 DEF TypeOK, PollType
<1>3. Generations
  BY <1>1 DEF Init, Generations
<1>4. Slots
  BY IdlePoll DEF Init, Slots
<1> QED
  BY <1>2, <1>3, <1>4 DEF QueueInv

LEMMA NextQueueInv == QueueInv /\ [Next]_vars => QueueInv'
<1> SUFFICES ASSUME QueueInv, [Next]_vars PROVE QueueInv'
  OBVIOUS
<1>1. CASE Quiet
  BY <1>1, QuietGenerations
<1>2. ASSUME NEW r \in Runtime, Reclaim(r) PROVE QueueInv'
  BY <1>2, ReclaimStep
<1>3. ASSUME NEW r \in Runtime, NEW a \in Agent, ClaimTask(r, a) PROVE QueueInv'
  BY <1>3, ClaimStep
<1>4. ASSUME NEW c \in claim, Deliver(c) \/ Requeue(c) PROVE QueueInv'
  BY <1>4, DeliverStep, RequeueStep
<1>5. ASSUME NEW c \in copy, StartTask(c) \/ StartReplyLost(c) PROVE QueueInv'
  BY <1>5, StartStep
<1> QED
  BY <1>1, <1>2, <1>3, <1>4, <1>5, Steps

\* The variables keep their types, and dispatched_at tells every claim in flight
\* and every copy of a row apart: what the CASes of finalization rely on.
THEOREM QueueInvariant == Spec => []QueueInv
<1>1. Init => QueueInv
  BY InitQueueInv
<1>2. QueueInv /\ [Next]_vars => QueueInv'
  BY NextQueueInv
<1> QED
  BY <1>1, <1>2, PTL DEF Spec
-----------------------------------------------------------------------------
LEMMA NextDelivered == QueueInv /\ DeliveredStaysOut /\ [Next]_vars => DeliveredStaysOut'
<1> SUFFICES ASSUME QueueInv, DeliveredStaysOut, [Next]_vars PROVE DeliveredStaysOut'
  OBVIOUS
<1> DEFINE Out(e) == task[e.task].gen = e.gen => task[e.task].status \notin {"queued", "deferred"}
<1>1. TypeOK /\ Generations /\ \A e \in claim \union copy : Out(e)
  BY DEF QueueInv, DeliveredStaysOut, Is
<1>2. \A e \in claim \union copy : e.task \in Id /\ e.gen \in 1..task[e.task].gen
  BY <1>1 DEF TypeOK, Generations
<1>3. \A i \in Id : task[i].gen \in Nat
  BY <1>1 DEF TypeOK, Row
<1>4. CASE Quiet
  <2>1. \A e \in claim' \union copy' :
          \E d \in claim \union copy : e.task = d.task /\ e.gen = d.gen
    BY <1>4 DEF Quiet, KeepsClaims, KeepsCopies
  <2>2. ASSUME NEW i \in Id, task[i].gen # 0, task'[i].status \in {"queued", "deferred"}
        PROVE  task[i].status = task'[i].status /\ task'[i].gen = task[i].gen
    <3>1. task[i].status \notin {"absent", "deferred"}
      BY <1>1, <2>2 DEF Generations, Is
    <3> QED
      BY <1>4, <2>2, <3>1 DEF Quiet, KeepsRows, RowKept, Is, Terminal
  <2>3. \A i \in Id : task'[i].gen = task[i].gen
    BY <1>4 DEF Quiet, KeepsRows, RowKept
  <2> QED
    BY <1>1, <1>2, <1>3, <2>1, <2>2, <2>3 DEF DeliveredStaysOut, Is
<1>5. ASSUME NEW S \in SUBSET Id, NEW own \in SUBSET S, Dispatches(S, own)
      PROVE  DeliveredStaysOut'
  <2>1. \A i \in Id : /\ i \in S => task'[i].status = "dispatched"
                      /\ i \notin S => task'[i] = task[i]
    BY <1>1, <1>5, DispatchRows DEF Dispatches
  <2>2. \A e \in claim' \union copy' : e \in claim \union copy \/ e.task \in S
    BY <1>5 DEF Dispatches, Claims
  <2> QED
    BY <1>1, <1>2, <2>1, <2>2 DEF DeliveredStaysOut, Is
<1>6. ASSUME NEW r \in Runtime, Reclaim(r) PROVE DeliveredStaysOut'
  <2>1. PICK S \in SUBSET Stale(r) : Dispatches(S, S)
    BY <1>6, ReclaimStep
  <2> QED
    BY <1>5, <2>1 DEF Stale
<1>7. ASSUME NEW r \in Runtime, NEW a \in Agent, ClaimTask(r, a) PROVE DeliveredStaysOut'
  <2>1. PICK own \in SUBSET Chosen(a) : Dispatches(Chosen(a), own)
    BY <1>7, ClaimStep
  <2> QED
    BY <1>1, <1>5, <2>1, ChosenOne
<1>8. ASSUME NEW c \in claim, Deliver(c) PROVE DeliveredStaysOut'
  <2> DEFINE d == [task |-> c.task, gen |-> c.gen, at |-> "preparing"]
  <2>1. claim' = claim \ {c} /\ copy' = copy \union {d} /\ task' = task
    BY <1>8 DEF Deliver
  <2>2. d.task = c.task /\ d.gen = c.gen
    OBVIOUS
  <2> HIDE DEF d
  <2> QED
    BY <1>1, <2>1, <2>2 DEF DeliveredStaysOut, Is
<1>9. ASSUME NEW c \in claim, Requeue(c) PROVE DeliveredStaysOut'
  <2>1. /\ claim' = claim \ {c} /\ copy' = copy
        /\ task' = task \/ (CurrentClaim(c) /\ task' = Set({c.task}, "queued"))
    BY <1>9, RequeueStep
  <2>2. CASE task' = task
    BY <1>1, <2>1, <2>2 DEF DeliveredStaysOut, Is
  <2>3. CASE CurrentClaim(c) /\ task' = Set({c.task}, "queued")
    <3> SUFFICES ASSUME NEW e \in claim' \union copy', task'[e.task].gen = e.gen
                 PROVE  task'[e.task].status \notin {"queued", "deferred"}
      BY DEF DeliveredStaysOut, Is
    <3>1. e \in (claim \ {c}) \union copy /\ e.task \in Id /\ c.task \in Id
      BY <1>2, <2>1
    <3>2. CASE e.task = c.task
      <4>1. task[c.task] \in Row /\ task[c.task].gen = c.gen
        BY <1>1, <2>3, <3>1 DEF CurrentClaim, TypeOK
      <4>2. task'[c.task] = [task[c.task] EXCEPT !.status = "queued"]
        BY <2>3, <3>1 DEF Set
      <4>3. e.gen = c.gen
        BY <3>2, <4>1, <4>2 DEF Row
      <4> QED
        BY <1>1, <3>1, <3>2, <4>3 DEF Generations
    <3>3. CASE e.task # c.task
      BY <1>1, <2>3, <3>1, <3>3 DEF Set
    <3> QED
      BY <3>2, <3>3
  <2> QED
    BY <2>1, <2>2, <2>3
<1>10. ASSUME NEW c \in copy, StartTask(c) \/ StartReplyLost(c) PROVE DeliveredStaysOut'
  <2>1. /\ KeepsCopies /\ claim' = claim
        /\ \A i \in Id : /\ task'[i].gen = task[i].gen
                         /\ task'[i].status = IF i = c.task THEN "running" ELSE task[i].status
    BY <1>10, StartStep
  <2>2. \A e \in claim' \union copy' :
          \E d \in claim \union copy : e.task = d.task /\ e.gen = d.gen
    BY <2>1 DEF KeepsCopies
  <2> QED
    BY <1>1, <1>2, <2>1, <2>2 DEF DeliveredStaysOut, Is
<1> QED
  BY <1>4, <1>6, <1>7, <1>8, <1>9, <1>10, Steps

\* No interleaving of requeues, reclaims and lost responses puts a row back in the
\* queue while somebody holds its current claim generation.
THEOREM ClaimNeverRequeued == Spec => []DeliveredStaysOut
<1>1. Init => DeliveredStaysOut
  BY DEF Init, DeliveredStaysOut
<1>2. QueueInv /\ DeliveredStaysOut /\ [Next]_vars => DeliveredStaysOut'
  BY NextDelivered
<1> QED
  BY <1>1, <1>2, QueueInvariant, PTL DEF Spec
-----------------------------------------------------------------------------
(* Rows that are active                                                    *)

\* Only a claim makes a row active.
LEMMA ActiveSteps ==
  ASSUME QueueInv, [Next]_vars
  PROVE  \/ \A i \in Id : Is(i, Active)' => Is(i, Active) /\ task'[i].work = task[i].work
         \/ \E a \in Agent : task' = Dispatch(Chosen(a))
<1> DEFINE Shrinks == \A i \in Id : Is(i, Active)' => Is(i, Active) /\ task'[i].work = task[i].work
<1>1. TypeOK
  BY DEF QueueInv
<1>2. CASE Quiet
  <2>1. \A i \in Id : RowKept(i)
    BY <1>2 DEF Quiet, KeepsRows
  <2> QED
    BY <2>1 DEF RowKept, Is, Active, Live, Terminal
<1>3. ASSUME NEW r \in Runtime, Reclaim(r) PROVE Shrinks
  <2>1. PICK S \in SUBSET Stale(r) : task' = Dispatch(S)
    BY <1>3, ReclaimStep DEF Dispatches
  <2>2. S \in SUBSET Id /\ \A i \in S : Is(i, Active)
    BY DEF Stale, Is, Active
  <2> QED
    BY <1>1, <2>1, <2>2, DispatchRows DEF Is
<1>4. ASSUME NEW r \in Runtime, NEW a \in Agent, ClaimTask(r, a)
      PROVE  task' = Dispatch(Chosen(a))
  BY <1>4, ClaimStep DEF Dispatches
<1>5. ASSUME NEW c \in claim, Deliver(c) \/ Requeue(c) PROVE Shrinks
  <2>1. task' = task \/ task' = Set({c.task}, "queued")
    BY <1>5, RequeueStep DEF Deliver
  <2>2. CASE task' = task
    BY <2>2 DEF Is
  <2>3. CASE task' = Set({c.task}, "queued")
    <3> SUFFICES ASSUME NEW i \in Id, Is(i, Active)'
                 PROVE  Is(i, Active) /\ task'[i].work = task[i].work
      OBVIOUS
    <3>1. task[i] \in Row
      BY <1>1 DEF TypeOK
    <3>2. task'[i] = IF i \in {c.task} THEN [task[i] EXCEPT !.status = "queued"] ELSE task[i]
      BY <2>3 DEF Set
    <3>3. i # c.task
      BY <3>1, <3>2 DEF Row, Is, Active
    <3> QED
      BY <3>2, <3>3 DEF Is
  <2> QED
    BY <2>1, <2>2, <2>3
<1>6. ASSUME NEW c \in copy, StartTask(c) \/ StartReplyLost(c) PROVE Shrinks
  BY <1>6, StartStep DEF Is, Active
<1> QED
  BY <1>2, <1>3, <1>4, <1>5, <1>6, Steps

LEMMA NextSerialized == QueueInv /\ OneActivePerWork /\ [Next]_vars => OneActivePerWork'
<1> SUFFICES ASSUME QueueInv, OneActivePerWork, [Next]_vars PROVE OneActivePerWork'
  OBVIOUS
<1>1. CASE \A i \in Id : Is(i, Active)' => Is(i, Active) /\ task'[i].work = task[i].work
  BY <1>1 DEF OneActivePerWork
<1>2. ASSUME NEW a \in Agent, task' = Dispatch(Chosen(a)) PROVE OneActivePerWork'
  <2> DEFINE H == Chosen(a)
  <2>1. /\ H \subseteq Id /\ \A i, j \in H : i = j
        /\ \A i \in H : ~Blocked(i)
    BY ChosenOne DEF QueueInv, Claimable
  <2>2. \A i \in Id : /\ task'[i].work = task[i].work
                      /\ i \notin H => task'[i] = task[i]
    BY <1>2, <2>1, DispatchRows DEF QueueInv
  <2>3. \A i \in H, j \in Id \ H : Is(j, Active) /\ task[i].work = task[j].work
                                   => ~Serialized(task[i].work)
    BY <2>1 DEF Blocked
  <2> HIDE DEF H
  <2> QED
    BY <2>1, <2>2, <2>3 DEF OneActivePerWork, Is
<1> QED
  BY <1>1, <1>2, ActiveSteps

\* An agent never works twice at one issue, chat session or quick-create, however
\* claims, reclaims, restarts and retries interleave.
THEOREM Serialization == Spec => []OneActivePerWork
<1>1. Init => OneActivePerWork
  <2> SUFFICES ASSUME Init PROVE OneActivePerWork
    OBVIOUS
  <2>1. \A i \in Id : ~Is(i, Active)
    BY DEF Init, Is, Active, Absent, New
  <2> QED
    BY <2>1 DEF OneActivePerWork
<1>2. QueueInv /\ OneActivePerWork /\ [Next]_vars => OneActivePerWork'
  BY NextSerialized
<1> QED
  BY <1>1, <1>2, QueueInvariant, PTL DEF Spec

LEMMA NextCapacity == QueueInv /\ WithinCapacity /\ [Next]_vars => WithinCapacity'
<1> SUFFICES ASSUME QueueInv, WithinCapacity, [Next]_vars, NEW a \in Agent
             PROVE  Cardinality(ActiveOf(a)') <= Capacity[a]
  BY DEF WithinCapacity
<1>1. Capacity[a] \in Nat /\ Cardinality(ActiveOf(a)) <= Capacity[a]
  BY QueueAssumption DEF QueueAssumption, WithinCapacity
<1>2. IsFiniteSet(ActiveOf(a)) /\ Cardinality(ActiveOf(a)) \in Nat
  <2>1. ActiveOf(a) \subseteq Id
    BY DEF ActiveOf
  <2> QED
    BY <2>1, IdFinite, FS_Subset, FS_CardinalityType
<1>3. ASSUME ActiveOf(a)' \subseteq ActiveOf(a)
      PROVE  Cardinality(ActiveOf(a)') <= Capacity[a]
  <2>1. Cardinality(ActiveOf(a)') <= Cardinality(ActiveOf(a))
        /\ Cardinality(ActiveOf(a)') \in Nat
    BY <1>2, <1>3, FS_Subset, FS_CardinalityType
  <2> QED
    BY <1>1, <1>2, <2>1
<1>4. CASE \A i \in Id : Is(i, Active)' => Is(i, Active) /\ task'[i].work = task[i].work
  <2>1. ActiveOf(a)' \subseteq ActiveOf(a)
    BY <1>4 DEF ActiveOf
  <2> QED
    BY <1>3, <2>1
<1>5. ASSUME NEW b \in Agent, task' = Dispatch(Chosen(b))
      PROVE  Cardinality(ActiveOf(a)') <= Capacity[a]
  <2> DEFINE H == Chosen(b)
  <2>1. /\ H \subseteq Id /\ \A i, j \in H : i = j
        /\ \A i \in H : task[i].work.agent = b /\ RunningCount(b) < Capacity[b]
    BY ChosenOne DEF QueueInv, Claimable
  <2>2. \A i \in Id : /\ task'[i].work = task[i].work
                      /\ i \notin H => task'[i] = task[i]
    BY <1>5, <2>1, DispatchRows DEF QueueInv
  <2> HIDE DEF H
  <2>3. ActiveOf(a)' \subseteq ActiveOf(a) \union {i \in H : task[i].work.agent = a}
    BY <2>2 DEF ActiveOf, Is
  <2>4. CASE {i \in H : task[i].work.agent = a} = {}
    BY <1>3, <2>3, <2>4
  <2>5. CASE {i \in H : task[i].work.agent = a} # {}
    <3>1. PICK i \in H : a = b
      BY <2>1, <2>5
    <3>2. ActiveOf(a)' \subseteq ActiveOf(a) \union {i}
      BY <2>1, <2>3, <3>1
    <3>3. Cardinality(ActiveOf(a)) < Capacity[a]
      BY <2>1, <3>1 DEF RunningCount
    <3>4. /\ IsFiniteSet(ActiveOf(a) \union {i})
          /\ Cardinality(ActiveOf(a) \union {i}) \in Nat
          /\ Cardinality(ActiveOf(a) \union {i}) <= Cardinality(ActiveOf(a)) + 1
      <4> DEFINE A == ActiveOf(a)
      <4>1. IsFiniteSet(A) /\ Cardinality(A) \in Nat
        BY <1>2
      <4> HIDE DEF A
      <4>2. IsFiniteSet(A \union {i}) /\ Cardinality(A \union {i}) \in Nat
        BY <4>1, FS_AddElement, FS_CardinalityType
      <4>3. Cardinality(A \union {i}) = IF i \in A THEN Cardinality(A) ELSE Cardinality(A) + 1
        BY <4>1, FS_AddElement
      <4>4. Cardinality(A \union {i}) <= Cardinality(A) + 1
        BY <4>1, <4>3
      <4> QED
        BY <4>2, <4>4 DEF A
    <3>5. Cardinality(ActiveOf(a)') <= Cardinality(ActiveOf(a) \union {i})
          /\ Cardinality(ActiveOf(a)') \in Nat
      BY <3>2, <3>4, FS_Subset, FS_CardinalityType
    <3> QED
      BY <1>1, <1>2, <3>3, <3>4, <3>5
  <2> QED
    BY <2>4, <2>5
<1> QED
  BY <1>4, <1>5, ActiveSteps

\* An agent never has more rows dispatched, waiting or running than its
\* max_concurrent_tasks.
THEOREM CapacityRespected == Spec => []WithinCapacity
<1>1. Init => WithinCapacity
  <2> SUFFICES ASSUME Init, NEW a \in Agent PROVE Cardinality(ActiveOf(a)) <= Capacity[a]
    BY DEF WithinCapacity
  <2>1. ActiveOf(a) = {}
    BY DEF Init, ActiveOf, Is, Active, Absent, New
  <2> QED
    BY <2>1, FS_EmptySet, QueueAssumption DEF QueueAssumption
<1>2. QueueInv /\ WithinCapacity /\ [Next]_vars => WithinCapacity'
  BY NextCapacity
<1> QED
  BY <1>1, <1>2, QueueInvariant, PTL DEF Spec
-----------------------------------------------------------------------------
(* Refinement of TaskDispatch                                              *)

phase == [i \in Id |-> PhaseOf(task[i].status)]
what == [i \in Id |-> task[i].work]

LEMMA Phases ==
  ASSUME TypeOK
  PROVE  /\ \A i \in Id : phase[i] = PhaseOf(task[i].status) /\ what[i] = task[i].work
         /\ \A i \in Id : /\ phase[i] = "none" <=> Is(i, {"absent"})
                          /\ phase[i] = "pending" <=> Is(i, {"queued", "deferred"})
                          /\ phase[i] = "held" <=> Is(i, {"dispatched", "waiting"})
                          /\ phase[i] = "begun" <=> Is(i, {"running"})
                          /\ phase[i] = "done" <=> Is(i, Terminal)
         /\ what \in [Id -> Work]
<1>1. \A i \in Id : task[i].status \in Live \union Terminal \union {"absent"}
                    /\ task[i].work \in Work
  BY DEF TypeOK, Row
<1> QED
  BY <1>1 DEF phase, what, PhaseOf, Is, Live, Active, Terminal

\* A quiet step ends rows and submits others.
LEMMA QuietEndsAndSubmits ==
  ASSUME QueueInv, Quiet
  PROVE  Dispatcher!EndAndSubmit
<1> DEFINE E == {i \in Id : Is(i, Live) /\ task'[i].status \in Terminal}
           S == {i \in Id : Is(i, {"absent"}) /\ task'[i].status \in {"queued", "deferred"}}
<1>1. TypeOK /\ TypeOK' /\ \A i \in Id : RowKept(i)
  BY DEF QueueInv, Quiet, KeepsRows
<1>2. \A i \in E : phase[i] \in {"pending", "held", "begun"}
  BY <1>1, Phases DEF Is, Live, Active
<1>3. \A i \in S : phase[i] = "none"
  BY <1>1, Phases
<1>4. ASSUME NEW i \in Id
      PROVE  /\ PhaseOf(task'[i].status) = IF i \in E THEN "done"
                                           ELSE IF i \in S THEN "pending" ELSE phase[i]
             /\ i \notin S => task'[i].work = what[i]
  <2>1. phase[i] = PhaseOf(task[i].status) /\ what[i] = task[i].work
    BY <1>1, Phases
  <2>2. RowKept(i)
    BY <1>1
  <2> QED
    BY <2>1, <2>2 DEF RowKept, PhaseOf, Is, Live, Active, Terminal
<1>5. what' \in [Id -> Work] /\ \A i \in Id : what'[i] = task'[i].work
  BY <1>1 DEF TypeOK, Row, what
<1>6. phase' = [i \in Id |-> IF i \in E THEN "done"
                             ELSE IF i \in S THEN "pending" ELSE phase[i]]
  BY <1>4 DEF phase
<1>7. E \in SUBSET Id /\ S \in SUBSET Id
  OBVIOUS
<1> HIDE DEF E, S
<1> QED
  BY <1>2, <1>3, <1>4, <1>5, <1>6, <1>7 DEF Dispatcher!EndAndSubmit, phase, what

\* A claim holds one pending row, or none.
LEMMA ClaimHolds ==
  ASSUME QueueInv, NEW a \in Agent, task' = Dispatch(Chosen(a))
  PROVE  (\E i \in Id : Dispatcher!Hold(i)) \/ UNCHANGED <<phase, what>>
<1>1. TypeOK
  BY DEF QueueInv
<1>2. /\ Chosen(a) \subseteq Id /\ \A i, j \in Chosen(a) : i = j
      /\ \A i \in Chosen(a) : /\ Is(i, {"queued"}) /\ ~Blocked(i)
                              /\ task[i].work.agent = a /\ RunningCount(a) < Capacity[a]
  BY <1>1, ChosenOne DEF Claimable
<1>3. \A i \in Id : /\ task'[i].work = task[i].work
                    /\ i \in Chosen(a) => task'[i].status = "dispatched"
                    /\ i \notin Chosen(a) => task'[i] = task[i]
  BY <1>1, <1>2, DispatchRows
<1>4. UNCHANGED what
  BY <1>3 DEF what
<1>5. CASE Chosen(a) = {}
  BY <1>3, <1>4, <1>5 DEF phase
<1>6. ASSUME NEW i \in Chosen(a) PROVE Dispatcher!Hold(i)
  <2>1. i \in Id /\ Chosen(a) = {i}
    BY <1>2
  <2>2. phase[i] = "pending" /\ what[i].agent = a
    BY <1>1, <1>2, <2>1, Phases DEF Is
  <2>3. phase' = [phase EXCEPT ![i] = "held"]
    BY <1>3, <2>1 DEF phase, PhaseOf
  <2>4. \A j \in Id : Dispatcher!Busy(j) <=> Is(j, Active)
    BY <1>1, Phases DEF Dispatcher!Busy, Is, Active, phase
  <2>5. \A j \in Id : Dispatcher!Conflict(i, j) => ~Dispatcher!Busy(j)
    <3> SUFFICES ASSUME NEW j \in Id, Dispatcher!Conflict(i, j), Is(j, Active)
                 PROVE  FALSE
      BY <2>4
    <3>1. task[i].work = task[j].work /\ Serialized(task[i].work)
      BY <2>1 DEF Dispatcher!Conflict, Serialized
    <3> QED
      BY <1>2, <3>1 DEF Blocked
  <2>6. Dispatcher!BusyFor(what[i].agent) = ActiveOf(a)
    <3>1. what[i].agent = a /\ \A j \in Id : what[j].agent = task[j].work.agent
      BY <2>2 DEF what
    <3>2. Dispatcher!BusyFor(what[i].agent)
            = {j \in Id : Dispatcher!Busy(j) /\ what[j].agent = what[i].agent}
      BY DEF Dispatcher!BusyFor, what
    <3> QED
      BY <2>4, <3>1, <3>2 DEF ActiveOf
  <2>7. Dispatcher!Cardinality(Dispatcher!BusyFor(what[i].agent)) < Capacity[what[i].agent]
    <3>1. Dispatcher!Cardinality(ActiveOf(a)) = Cardinality(ActiveOf(a))
      BY DEF Dispatcher!Cardinality, Cardinality
    <3> QED
      BY <1>2, <2>2, <2>6, <3>1 DEF RunningCount
  <2> QED
    BY <1>4, <2>2, <2>3, <2>5, <2>7 DEF Dispatcher!Hold, phase, what
<1> QED
  BY <1>2, <1>5, <1>6

\* One row moves from a phase to another.
LEMMA RowMoves ==
  ASSUME NEW i \in Id, NEW p, PhaseOf(task'[i].status) = p,
         \A j \in Id \ {i} : task'[j].status = task[j].status,
         \A j \in Id : task'[j].work = task[j].work
  PROVE  phase' = [phase EXCEPT ![i] = p] /\ UNCHANGED what
  BY DEF phase, what

LEMMA StepRefines ==
  ASSUME QueueInv, [Next]_vars
  PROVE  [Dispatcher!Next]_<<phase, what>>
<1>1. TypeOK
  BY DEF QueueInv
<1>2. CASE Quiet
  BY <1>2, QuietEndsAndSubmits DEF Dispatcher!Next
<1>3. ASSUME NEW r \in Runtime, Reclaim(r) PROVE UNCHANGED <<phase, what>>
  <2>1. PICK S \in SUBSET Stale(r) : task' = Dispatch(S)
    BY <1>3, ReclaimStep DEF Dispatches
  <2>2. S \in SUBSET Id /\ \A i \in S : Is(i, {"dispatched"})
    BY DEF Stale
  <2>3. \A i \in Id : task'[i].work = task[i].work /\ task'[i].status = task[i].status
    BY <1>1, <2>1, <2>2, DispatchRows DEF Is
  <2> QED
    BY <2>3 DEF phase, what
<1>4. ASSUME NEW r \in Runtime, NEW a \in Agent, ClaimTask(r, a)
      PROVE  [Dispatcher!Next]_<<phase, what>>
  <2>1. task' = Dispatch(Chosen(a))
    BY <1>4, ClaimStep DEF Dispatches
  <2> QED
    BY <2>1, ClaimHolds DEF Dispatcher!Next
<1>5. ASSUME NEW c \in claim, Deliver(c) \/ Requeue(c)
      PROVE  [Dispatcher!Next]_<<phase, what>>
  <2>1. c.task \in Id
    BY <1>1 DEF TypeOK
  <2>2. task' = task \/ (CurrentClaim(c) /\ task' = Set({c.task}, "queued"))
    BY <1>5, RequeueStep DEF Deliver
  <2>3. CASE task' = task
    BY <2>3 DEF phase, what
  <2>4. CASE CurrentClaim(c) /\ task' = Set({c.task}, "queued")
    <3>1. phase[c.task] = "held"
      BY <1>1, <2>1, <2>4, Phases DEF CurrentClaim, Is
    <3>2. ASSUME NEW j \in Id
          PROVE  /\ task'[j].work = task[j].work
                 /\ task'[j].status = IF j = c.task THEN "queued" ELSE task[j].status
      <4>1. task[j] \in Row
        BY <1>1 DEF TypeOK
      <4>2. task'[j] = IF j \in {c.task} THEN [task[j] EXCEPT !.status = "queued"] ELSE task[j]
        BY <2>4 DEF Set
      <4> QED
        BY <4>1, <4>2 DEF Row
    <3>3. PhaseOf(task'[c.task].status) = "pending"
      BY <2>1, <3>2 DEF PhaseOf
    <3>4. phase' = [phase EXCEPT ![c.task] = "pending"] /\ UNCHANGED what
      BY <2>1, <3>2, <3>3, RowMoves
    <3>5. Dispatcher!GiveBack(c.task)
      BY <3>1, <3>4 DEF Dispatcher!GiveBack, phase, what
    <3> QED
      BY <2>1, <3>5 DEF Dispatcher!Next
  <2> QED
    BY <2>2, <2>3, <2>4
<1>6. ASSUME NEW c \in copy, StartTask(c) \/ StartReplyLost(c)
      PROVE  [Dispatcher!Next]_<<phase, what>>
  <2>1. c.task \in Id
    BY <1>1 DEF TypeOK
  <2>2. /\ Is(c.task, {"dispatched", "waiting"})
        /\ \A i \in Id : /\ task'[i].work = task[i].work
                         /\ task'[i].status = IF i = c.task THEN "running" ELSE task[i].status
    BY <1>6, StartStep
  <2>3. phase[c.task] = "held" /\ PhaseOf(task'[c.task].status) = "begun"
    BY <1>1, <2>1, <2>2, Phases DEF PhaseOf
  <2>4. phase' = [phase EXCEPT ![c.task] = "begun"] /\ UNCHANGED what
    BY <2>1, <2>2, <2>3, RowMoves
  <2>5. Dispatcher!Begin(c.task)
    BY <2>3, <2>4 DEF Dispatcher!Begin, phase, what
  <2> QED
    BY <2>1, <2>5 DEF Dispatcher!Next
<1> QED
  BY <1>2, <1>3, <1>4, <1>5, <1>6, Steps

\* The table, its claims, leases, daemons and sweepers implement the dispatch
\* service: every statement of the code is one of its steps, or none.
THEOREM Refinement == Spec => ImplementsDispatch
<1>1. Init => Dispatcher!Init
  <2> SUFFICES ASSUME Init PROVE Dispatcher!Init
    OBVIOUS
  <2>1. TypeOK
    BY InitQueueInv DEF QueueInv
  <2>2. phase = [i \in Id |-> "none"]
    BY DEF Init, phase, PhaseOf, Absent, New
  <2>3. what \in [Id -> Work]
    BY <2>1, Phases
  <2> QED
    BY <2>2, <2>3 DEF Dispatcher!Init, phase, what
<1>2. QueueInv /\ [Next]_vars => [Dispatcher!Next]_<<phase, what>>
  BY StepRefines
<1> QED
  BY <1>1, <1>2, QueueInvariant, PTL DEF Spec, ImplementsDispatch, Dispatcher!Spec, phase, what
=============================================================================
