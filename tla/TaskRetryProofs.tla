--------------------------- MODULE TaskRetryProofs ---------------------------
(***************************************************************************)
(* Retries of the task queue, for any agents, works, capacities and        *)
(* bounds: a failed row has one retry, whoever saw it fail, and the retry  *)
(* of a chat turn is claimed before a fresh one.  A row is retried by the  *)
(* transaction that fails it or by the follow-up job that remembers it     *)
(* failed; the invariant is that a row never has both ahead of it.         *)
(***************************************************************************)
EXTENDS TaskQueueProofs

FailedJob(i) == [what |-> "failed", task |-> i]

\* A row that waits to be retried has failed and has no retry yet.
JobsInv ==
  \A i \in Id : FailedJob(i) \in job =>
    Is(i, {"failed"}) /\ \A j \in Id : task[j].parent # i

ParentsInv == \A i \in Id : task[i].parent # 0 => task[i].parent \in Id

\* A retry of a chat turn outranks every fresh one.
PrioInv ==
  \A i \in Id : /\ task[i].parent = 0 => task[i].prio = task[i].work.prio
                /\ task[i].parent # 0 /\ task[i].work.kind = "chat" => task[i].prio >= 3

RetryInv == RetriedOnce /\ JobsInv /\ ParentsInv /\ PrioInv
-----------------------------------------------------------------------------
(* What a step does to the lines of descent                                *)

SameLine(i) ==
  /\ task'[i].parent = task[i].parent /\ task'[i].work = task[i].work
  /\ task'[i].attempt = task[i].attempt /\ task'[i].max = task[i].max
  /\ task'[i].prio = task[i].prio
  /\ task[i].status = "failed" => task'[i].status = "failed"

\* A new row that is no retry.
Rooted(i) == /\ task[i].status = "absent"
             /\ task'[i].parent = 0 /\ task'[i].prio = task'[i].work.prio

NewJobsFailed ==
  \A i \in Id : FailedJob(i) \in job' =>
    FailedJob(i) \in job \/ (task[i].status # "failed" /\ task'[i].status = "failed")

Plain == /\ \A i \in Id : SameLine(i) \/ Rooted(i)
         /\ NewJobsFailed

\* Row k becomes the retry of row i.
RetriedAs(i, k) ==
  /\ task[k].status = "absent" /\ task'[i].status = "failed"
  /\ \A j \in Id : j # k => SameLine(j)
  /\ task'[k].parent = i /\ task'[k].work = task[i].work
  /\ task'[k].attempt = task[i].attempt + 1 /\ task'[k].attempt <= task'[k].max
  /\ task[i].work.kind = "chat" => task'[k].prio >= 3
  /\ i # k /\ \A j \in Id : task[j].parent # i
  /\ FailedJob(i) \notin job' /\ NewJobsFailed

LEMMA PlainKeeps == ASSUME QueueInv, RetryInv, Plain PROVE RetryInv'
<1>1. \A i \in Id : task[i].status = "failed" => task'[i].status = "failed"
  BY DEF Plain, SameLine, Rooted
<1>2. \A i \in Id : task'[i].parent # 0 => SameLine(i)
  BY DEF Plain, Rooted
<1>3. \A i \in Id : 0 \notin Id
  BY QueueAssumption DEF Id, QueueAssumption
<1>4. ParentsInv'
  BY <1>2 DEF RetryInv, ParentsInv, SameLine
<1>5. ASSUME NEW i \in Id, task'[i].parent # 0
      PROVE  /\ task'[i].parent \in Id /\ task[i].parent = task'[i].parent
             /\ task[task[i].parent].status = "failed"
             /\ task[task[i].parent].work = task[i].work
             /\ task[i].attempt = task[task[i].parent].attempt + 1
             /\ task[i].attempt <= task[i].max
  BY <1>2, <1>5 DEF RetryInv, ParentsInv, RetriedOnce, SameLine, Is
<1>6. \A i \in Id : task[i].status = "failed" => SameLine(i)
  BY DEF Plain, Rooted
<1>7. RetriedOnce'
  <2>1. ASSUME NEW i \in Id, NEW j \in Id,
               task'[i].parent = task'[j].parent, task'[i].parent # 0
        PROVE  i = j
    BY <1>5, <2>1 DEF RetryInv, RetriedOnce
  <2>2. ASSUME NEW i \in Id, task'[i].parent # 0
        PROVE  /\ task'[task'[i].parent].status = "failed"
               /\ task'[task'[i].parent].work = task'[i].work
               /\ task'[i].attempt = task'[task'[i].parent].attempt + 1
               /\ task'[i].attempt <= task'[i].max
    <3>1. PICK p \in Id : p = task'[i].parent
      BY <1>5, <2>2
    <3>2. /\ task[p].status = "failed" /\ task[p].work = task[i].work
          /\ task[i].attempt = task[p].attempt + 1 /\ task[i].attempt <= task[i].max
      BY <1>5, <2>2, <3>1
    <3>3. SameLine(p) /\ SameLine(i)
      BY <1>2, <1>6, <2>2, <3>2
    <3> QED
      BY <3>1, <3>2, <3>3 DEF SameLine
  <2> QED
    BY <2>1, <2>2 DEF RetriedOnce, Is
<1>8. JobsInv'
  <2> SUFFICES ASSUME NEW i \in Id, FailedJob(i) \in job'
               PROVE  task'[i].status = "failed" /\ \A j \in Id : task'[j].parent # i
    BY DEF JobsInv, Is, FailedJob
  <2>1. CASE FailedJob(i) \in job
    <3>1. task[i].status = "failed" /\ \A j \in Id : task[j].parent # i
      BY <2>1 DEF RetryInv, JobsInv, Is
    <3> QED
      BY <1>1, <1>3, <1>5, <3>1
  <2>2. CASE task[i].status # "failed" /\ task'[i].status = "failed"
    BY <1>3, <1>5, <2>2
  <2> QED
    BY <2>1, <2>2 DEF Plain, NewJobsFailed
<1>9. PrioInv'
  BY DEF Plain, SameLine, Rooted, RetryInv, PrioInv
<1> QED
  BY <1>4, <1>7, <1>8, <1>9 DEF RetryInv

LEMMA RetryKeeps ==
  ASSUME QueueInv, RetryInv, NEW i \in Id, NEW k \in Id, RetriedAs(i, k)
  PROVE  RetryInv'
<1>1. 0 \notin Id
  BY QueueAssumption DEF Id, QueueAssumption
<1>2. \A j \in Id : j # k => SameLine(j)
  BY DEF RetriedAs
<1>3. /\ task[k].status = "absent" /\ task'[i].status = "failed" /\ i # k
      /\ task'[k].parent = i /\ task'[k].work = task[i].work
      /\ task'[k].attempt = task[i].attempt + 1 /\ task'[k].attempt <= task'[k].max
      /\ task[i].work.kind = "chat" => task'[k].prio >= 3
      /\ \A j \in Id : task[j].parent # i
  BY DEF RetriedAs
<1>4. ASSUME NEW j \in Id, j # k, task'[j].parent # 0
      PROVE  /\ task'[j].parent \in Id /\ task[j].parent = task'[j].parent
             /\ task'[j].parent # k /\ task'[j].parent # i
             /\ task[task[j].parent].status = "failed"
             /\ task[task[j].parent].work = task[j].work
             /\ task[j].attempt = task[task[j].parent].attempt + 1
             /\ task[j].attempt <= task[j].max
  <2>1. task[j].parent = task'[j].parent
    BY <1>2, <1>4 DEF SameLine
  <2>2. /\ task[j].parent \in Id /\ task[task[j].parent].status = "failed"
        /\ task[task[j].parent].work = task[j].work
        /\ task[j].attempt = task[task[j].parent].attempt + 1
        /\ task[j].attempt <= task[j].max
    BY <1>4, <2>1 DEF RetryInv, ParentsInv, RetriedOnce, Is
  <2> QED
    BY <1>3, <2>1, <2>2
<1>5. ParentsInv'
  BY <1>3, <1>4 DEF ParentsInv
<1>6. RetriedOnce'
  <2>1. ASSUME NEW j \in Id, NEW l \in Id,
               task'[j].parent = task'[l].parent, task'[j].parent # 0
        PROVE  j = l
    <3>1. CASE j = k \/ l = k
      BY <1>3, <1>4, <2>1, <3>1
    <3>2. CASE j # k /\ l # k
      BY <1>4, <2>1, <3>2 DEF RetryInv, RetriedOnce
    <3> QED
      BY <3>1, <3>2
  <2>2. ASSUME NEW j \in Id, task'[j].parent # 0
        PROVE  /\ task'[task'[j].parent].status = "failed"
               /\ task'[task'[j].parent].work = task'[j].work
               /\ task'[j].attempt = task'[task'[j].parent].attempt + 1
               /\ task'[j].attempt <= task'[j].max
    <3>1. CASE j = k
      <4>1. SameLine(i)
        BY <1>2, <1>3
      <4> QED
        BY <1>3, <3>1, <4>1 DEF SameLine
    <3>2. CASE j # k
      <4>1. PICK p \in Id : p = task'[j].parent
        BY <1>4, <2>2, <3>2
      <4>2. /\ p # k /\ task[p].status = "failed" /\ task[p].work = task[j].work
            /\ task[j].attempt = task[p].attempt + 1 /\ task[j].attempt <= task[j].max
        BY <1>4, <2>2, <3>2, <4>1
      <4>3. SameLine(p) /\ SameLine(j)
        BY <1>2, <3>2, <4>2
      <4> QED
        BY <4>1, <4>2, <4>3 DEF SameLine
    <3> QED
      BY <3>1, <3>2
  <2> QED
    BY <2>1, <2>2 DEF RetriedOnce, Is
<1>7. JobsInv'
  <2> SUFFICES ASSUME NEW j \in Id, FailedJob(j) \in job'
               PROVE  task'[j].status = "failed" /\ \A l \in Id : task'[l].parent # j
    BY DEF JobsInv, Is, FailedJob
  <2>1. j # i
    BY DEF RetriedAs
  <2>2. CASE FailedJob(j) \in job
    <3>1. task[j].status = "failed" /\ \A l \in Id : task[l].parent # j
      BY <2>2 DEF RetryInv, JobsInv, Is
    <3>2. SameLine(j)
      BY <1>2, <1>3, <3>1
    <3> QED
      BY <1>1, <1>3, <1>4, <2>1, <3>1, <3>2 DEF SameLine
  <2>3. CASE task[j].status # "failed" /\ task'[j].status = "failed"
    BY <1>1, <1>3, <1>4, <2>1, <2>3
  <2> QED
    BY <2>2, <2>3 DEF RetriedAs, NewJobsFailed
<1>8. PrioInv'
  <2> SUFFICES ASSUME NEW j \in Id
               PROVE  /\ task'[j].parent = 0 => task'[j].prio = task'[j].work.prio
                      /\ task'[j].parent # 0 /\ task'[j].work.kind = "chat"
                           => task'[j].prio >= 3
    BY DEF PrioInv
  <2>1. CASE j = k
    BY <1>1, <1>3, <2>1
  <2>2. CASE j # k
    BY <1>2, <2>2 DEF SameLine, RetryInv, PrioInv
  <2> QED
    BY <2>1, <2>2
<1> QED
  BY <1>5, <1>6, <1>7, <1>8 DEF RetryInv
-----------------------------------------------------------------------------
(* Rows                                                                    *)

LEMMA SameRowsLine == ASSUME task' = task PROVE \A i \in Id : SameLine(i)
  BY DEF SameLine

LEMMA SetLine ==
  ASSUME TypeOK, NEW S, NEW status, task' = Set(S, status),
         \A i \in Id : i \in S => task[i].status # "failed"
  PROVE  \A i \in Id : SameLine(i)
<1> SUFFICES ASSUME NEW i \in Id PROVE SameLine(i)
  OBVIOUS
<1>1. task[i] \in Row
  BY DEF TypeOK
<1>2. task'[i] = IF i \in S THEN [task[i] EXCEPT !.status = status] ELSE task[i]
  BY DEF Set
<1>3. CASE i \in S
  BY <1>1, <1>2, <1>3 DEF SameLine, Row
<1>4. CASE i \notin S
  BY <1>2, <1>4 DEF SameLine
<1> QED
  BY <1>3, <1>4

LEMMA FailLine ==
  ASSUME TypeOK, NEW S, NEW reason, NEW rows, rows = FailAll(S, reason), NEW i \in Id
  PROVE  /\ rows[i].parent = task[i].parent /\ rows[i].work = task[i].work
         /\ rows[i].attempt = task[i].attempt /\ rows[i].max = task[i].max
         /\ rows[i].prio = task[i].prio
         /\ rows[i].status = IF i \in S THEN "failed" ELSE task[i].status
<1>1. task[i] \in Row
  BY DEF TypeOK
<1>2. rows[i] = IF i \in S THEN [task[i] EXCEPT !.status = "failed", !.reason = reason]
                           ELSE task[i]
  BY DEF FailAll
<1>3. CASE i \in S
  BY <1>1, <1>2, <1>3 DEF Row
<1>4. CASE i \notin S
  BY <1>2, <1>4
<1> QED
  BY <1>3, <1>4

LEMMA DispatchLine ==
  ASSUME TypeOK, NEW S, task' = Dispatch(S),
         \A i \in Id : i \in S => task[i].status # "failed"
  PROVE  \A i \in Id : SameLine(i)
<1> SUFFICES ASSUME NEW i \in Id PROVE SameLine(i)
  OBVIOUS
<1>1. task[i] \in Row
  BY DEF TypeOK
<1>2. task'[i] = IF i \in S THEN [task[i] EXCEPT !.status = "dispatched",
                                    !.gen = task[i].gen + 1, !.fresh = TRUE]
                           ELSE task[i]
  BY DEF Dispatch
<1>3. CASE i \in S
  BY <1>1, <1>2, <1>3 DEF SameLine, Row
<1>4. CASE i \notin S
  BY <1>2, <1>4 DEF SameLine
<1> QED
  BY <1>3, <1>4

\* One row changes in what its line does not record.
LEMMA TouchLine ==
  ASSUME TypeOK, NEW k \in Id, NEW row, task' = [task EXCEPT ![k] = row],
         row.parent = task[k].parent, row.work = task[k].work,
         row.attempt = task[k].attempt, row.max = task[k].max, row.prio = task[k].prio,
         task[k].status = "failed" => row.status = "failed"
  PROVE  \A i \in Id : SameLine(i)
  BY DEF TypeOK, SameLine

\* The retry of a row that failed in this step or before it.
LEMMA RetryLine ==
  ASSUME TypeOK, NEW i \in Id, NEW reason \in Reason, RetryEligible(i, reason),
         NEW row, row = Retry(i, reason)
  PROVE  /\ row.parent = i /\ row.work = task[i].work
         /\ row.attempt = task[i].attempt + 1 /\ row.attempt <= row.max
         /\ task[i].work.kind = "chat" => row.prio >= 3
<1>1. task[i] \in Row
  BY DEF TypeOK
<1>2. task[i].attempt \in Nat /\ task[i].max \in Nat /\ task[i].prio \in Nat
  BY <1>1 DEF Row
<1>3. Ceiling(reason, task[i].max) \in Nat
  BY <1>2 DEF Ceiling
<1>4. task[i].attempt + 1 <= Ceiling(reason, task[i].max)
  BY <1>2, <1>3 DEF RetryEligible
<1> DEFINE status == IF reason = "network" /\ task[i].attempt >= 2 THEN "deferred" ELSE "queued"
           prio == IF task[i].work.kind = "chat" /\ task[i].prio < 3 THEN 3 ELSE task[i].prio
           max == Ceiling(reason, task[i].max)
           attempt == task[i].attempt + 1
           base == New(task[i].work)
<1>5. row = [base EXCEPT !.status = status, !.prio = prio, !.attempt = attempt,
                         !.max = max, !.parent = i]
  BY DEF Retry
<1>6. base \in Row /\ base.work = task[i].work
  BY <1>1, NewRow DEF New, Row
<1>7. task[i].work.kind = "chat" => prio >= 3
  BY <1>2
<1>8. attempt = task[i].attempt + 1 /\ attempt <= max
  BY <1>4
<1> HIDE DEF status, prio, max, attempt, base
<1>9. /\ row.parent = i /\ row.work = base.work /\ row.attempt = attempt
      /\ row.max = max /\ row.prio = prio
  BY <1>5, <1>6 DEF Row
<1> QED
  BY <1>6, <1>7, <1>8, <1>9

LEMMA SameJobs == ASSUME job' \subseteq job PROVE NewJobsFailed
  BY DEF NewJobsFailed

LEMMA FailRowsPlain ==
  ASSUME TypeOK, NEW S \in SUBSET Id, NEW reason, FailRows(S, reason),
         \A i \in S : task[i].status # "failed"
  PROVE  Plain
<1>1. task' = FailAll(S, reason) /\ job' = job \union FailedJobs(S)
  BY DEF FailRows
<1>2. ASSUME NEW i \in Id
      PROVE  SameLine(i) /\ (i \in S => task'[i].status = "failed")
  BY <1>1, <1>2, FailLine DEF SameLine
<1>3. ASSUME NEW i \in Id, FailedJob(i) \in FailedJobs(S) PROVE i \in S
  BY <1>3 DEF FailedJob, FailedJobs
<1> QED
  BY <1>1, <1>2, <1>3 DEF Plain, NewJobsFailed

LEMMA InsertPlain ==
  ASSUME TypeOK, NEW row, Insert(row), row.parent = 0, row.prio = row.work.prio,
         job' = job
  PROVE  Plain
<1>1. PICK k \in NextId : task' = [task EXCEPT ![k] = row]
  BY DEF Insert
<1>2. k \in Id /\ task[k].status = "absent"
  BY <1>1 DEF NextId, Is
<1>3. Rooted(k)
  BY <1>1, <1>2 DEF Rooted, TypeOK
<1>4. \A i \in Id : i # k => SameLine(i)
  BY <1>1, <1>2 DEF SameLine, TypeOK
<1> QED
  BY <1>3, <1>4, SameJobs DEF Plain
-----------------------------------------------------------------------------
(* Steps that retry                                                        *)

Retried == \E i, k \in Id : RetriedAs(i, k)

\* A failure reported by a daemon, the retry in the same transaction.
LEMMA FailRetries ==
  ASSUME QueueInv, RetryInv, NEW i \in Id, NEW reason \in Reason, Is(i, Active),
         FailWithRetry(i, reason), job' = job
  PROVE  Plain \/ Retried
<1>1. TypeOK
  BY DEF QueueInv
<1>2. task[i].status \notin {"failed", "absent"}
  BY DEF Is, Active
<1> DEFINE rows == FailAll({i}, reason)
<1>3. \A j \in Id :
        /\ rows[j].parent = task[j].parent /\ rows[j].work = task[j].work
        /\ rows[j].attempt = task[j].attempt /\ rows[j].max = task[j].max
        /\ rows[j].prio = task[j].prio
        /\ rows[j].status = IF j \in {i} THEN "failed" ELSE task[j].status
  BY <1>1, FailLine
<1>4. rows \in [Id -> Row]
  BY <1>1, FailedRows
<1>5. NewJobsFailed
  BY SameJobs
<1>6. CASE task' = rows
  BY <1>3, <1>5, <1>6 DEF Plain, SameLine
<1>7. CASE task' # rows
  <2>1. RetryEligible(i, reason)
    BY <1>7 DEF FailWithRetry
  <2>2. PICK k \in NextId : task' = [rows EXCEPT ![k] = Retry(i, reason)]
    BY <1>7 DEF FailWithRetry
  <2>3. k \in Id /\ task[k].status = "absent" /\ i # k
    BY <1>2, <2>2 DEF NextId, Is
  <2> DEFINE row == Retry(i, reason)
  <2>4. /\ row.parent = i /\ row.work = task[i].work
        /\ row.attempt = task[i].attempt + 1 /\ row.attempt <= row.max
        /\ task[i].work.kind = "chat" => row.prio >= 3
    BY <1>1, <2>1, RetryLine
  <2> HIDE DEF row, rows
  <2>5. task' = [rows EXCEPT ![k] = row]
    BY <2>2 DEF row
  <2>6. task'[k] = row /\ \A j \in Id : j # k => task'[j] = rows[j]
    BY <1>4, <2>3, <2>5
  <2>7. \A j \in Id : j # k => SameLine(j)
    BY <1>3, <2>6 DEF SameLine
  <2>8. task'[i].status = "failed"
    BY <1>3, <2>3, <2>6
  <2>9. \A j \in Id : task[j].parent # i
    <3> SUFFICES ASSUME NEW j \in Id, task[j].parent = i PROVE FALSE
      OBVIOUS
    <3>1. i # 0
      BY QueueAssumption DEF Id, QueueAssumption
    <3> QED
      BY <1>2, <3>1 DEF RetryInv, RetriedOnce, Is
  <2>10. FailedJob(i) \notin job'
    BY <1>2 DEF RetryInv, JobsInv, Is
  <2>11. RetriedAs(i, k)
    BY <1>5, <2>3, <2>4, <2>6, <2>7, <2>8, <2>9, <2>10 DEF RetriedAs
  <2> QED
    BY <2>3, <2>11 DEF Retried
<1> QED
  BY <1>6, <1>7

\* The follow-up of a sweep or a recovery.
LEMMA HandleFailedRetries ==
  ASSUME QueueInv, RetryInv, NEW i \in Id, HandleFailed(i)
  PROVE  Plain \/ Retried
<1>1. TypeOK
  BY DEF QueueInv
<1>2. job' = job \ {FailedJob(i)} /\ FailedJob(i) \in job
  BY DEF HandleFailed, FailedJob
<1>3. NewJobsFailed
  BY <1>2, SameJobs
<1>4. CASE task' = task
  BY <1>3, <1>4, SameRowsLine DEF Plain
<1>5. CASE task' # task
  <2>1. RetryEligible(i, task[i].reason)
    BY <1>5 DEF HandleFailed
  <2>2. PICK k \in NextId : task' = [task EXCEPT ![k] = Retry(i, task[i].reason)]
    BY <1>5 DEF HandleFailed
  <2>3. task[i].status = "failed" /\ \A j \in Id : task[j].parent # i
    BY <1>2 DEF RetryInv, JobsInv, Is
  <2>4. k \in Id /\ task[k].status = "absent" /\ i # k
    BY <2>2, <2>3 DEF NextId, Is
  <2>5. PICK reason \in Reason : reason = task[i].reason
    BY <1>1 DEF TypeOK, Row
  <2> DEFINE row == Retry(i, reason)
  <2>6. /\ row.parent = i /\ row.work = task[i].work
        /\ row.attempt = task[i].attempt + 1 /\ row.attempt <= row.max
        /\ task[i].work.kind = "chat" => row.prio >= 3
    BY <1>1, <2>1, <2>5, RetryLine
  <2> HIDE DEF row
  <2>7. task' = [task EXCEPT ![k] = row]
    BY <2>2, <2>5 DEF row
  <2>8. task'[k] = row /\ \A j \in Id : j # k => task'[j] = task[j]
    BY <1>1, <2>4, <2>7 DEF TypeOK
  <2>9. \A j \in Id : j # k => SameLine(j)
    BY <2>8 DEF SameLine
  <2>10. task'[i].status = "failed"
    BY <2>3, <2>4, <2>8
  <2>11. RetriedAs(i, k)
    BY <1>2, <1>3, <2>3, <2>4, <2>6, <2>8, <2>9, <2>10 DEF RetriedAs
  <2> QED
    BY <2>4, <2>11 DEF Retried
<1> QED
  BY <1>4, <1>5
-----------------------------------------------------------------------------
(* Every step                                                              *)

LEMMA UsersLine == ASSUME QueueInv, Users PROVE Plain
<1>1. TypeOK
  BY DEF QueueInv
<1>2. ASSUME NEW S, task' = Set(S, "cancelled"), job' = job,
             \A i \in Id : i \in S => task[i].status # "failed"
      PROVE  Plain
  BY <1>1, <1>2, SetLine, SameJobs DEF Plain
<1>3. ASSUME NEW w \in Work, Enqueue(w) PROVE Plain
  <2>1. New(w).parent = 0 /\ New(w).prio = New(w).work.prio
    BY DEF New
  <2> QED
    BY <1>1, <1>3, <2>1, InsertPlain DEF Enqueue, OnlyTask
<1>4. ASSUME NEW p \in Id, NEW w \in Work, EnqueueDeferred(p, w) PROVE Plain
  <2> DEFINE row == [New(w) EXCEPT !.status = "deferred", !.esc = p]
  <2>1. row.parent = 0 /\ row.prio = row.work.prio
    BY DEF New
  <2>2. Insert(row) /\ job' = job
    BY <1>4 DEF EnqueueDeferred, OnlyTask
  <2> HIDE DEF row
  <2> QED
    BY <1>1, <2>1, <2>2, InsertPlain
<1>5. ASSUME NEW i \in Id, Cancel(i) PROVE Plain
  <2>1. \A j \in Id : j \in {i} => task[j].status # "failed"
    BY <1>5 DEF Cancel, Is, Live, Active
  <2> QED
    BY <1>2, <1>5, <2>1 DEF Cancel, OnlyTask
<1>6. ASSUME NEW w \in Work, CancelWork(w) PROVE Plain
  <2> DEFINE S == {i \in Id : Is(i, Live) /\ task[i].work = w}
  <2>1. \A j \in Id : j \in S => task[j].status # "failed"
    BY DEF Is, Live, Active
  <2>2. task' = Set(S, "cancelled") /\ job' = job
    BY <1>6 DEF CancelWork, OnlyTask
  <2> HIDE DEF S
  <2> QED
    BY <1>2, <2>1, <2>2
<1>7. ASSUME NEW w \in Work, Acknowledge(w) PROVE Plain
  <2>1. \A S : \A j \in Id : j \in Fallbacks(S) => task[j].status # "failed"
    BY DEF Fallbacks, Is
  <2> QED
    BY <1>2, <1>7, <2>1 DEF Acknowledge, OnlyTask
<1> QED
  BY <1>3, <1>4, <1>5, <1>6, <1>7 DEF Users

LEMMA ClaimingLine == ASSUME QueueInv, Claiming PROVE Plain
<1>1. TypeOK
  BY DEF QueueInv
<1>2. ASSUME NEW r \in Runtime, NEW n \in 1..MaxBatch, Promote(r, n) PROVE Plain
  <2> DEFINE S == {i \in Id : Is(i, {"deferred"}) /\ task[i].due /\ task[i].work.runtime = r}
  <2>1. \A j \in Id : j \in S => task[j].status # "failed"
    BY DEF Is
  <2>2. task' = Set(S, "queued") /\ job' = job
    BY <1>2 DEF Promote, PromoteDue
  <2> HIDE DEF S
  <2> QED
    BY <1>1, <2>1, <2>2, SetLine, SameJobs DEF Plain
<1>3. ASSUME NEW r \in Runtime, Reclaim(r) PROVE Plain
  <2>1. PICK S \in SUBSET Stale(r) : task' = Dispatch(S)
    BY <1>3, ReclaimStep DEF Dispatches
  <2>2. \A j \in Id : j \in S => task[j].status # "failed"
    BY DEF Stale, Is
  <2> QED
    BY <1>1, <1>3, <2>1, <2>2, DispatchLine, SameJobs DEF Plain, Reclaim
<1>4. ASSUME NEW r \in Runtime, ListQueued(r) PROVE Plain
  BY <1>4, SameRowsLine, SameJobs DEF ListQueued, Plain
<1>5. ASSUME NEW r \in Runtime, NEW a \in Agent, ClaimTask(r, a) PROVE Plain
  <2>1. task' = Dispatch(Chosen(a))
    BY <1>5, ClaimStep DEF Dispatches
  <2>2. \A j \in Id : j \in Chosen(a) => task[j].status # "failed"
    BY <1>1, ChosenOne DEF Claimable, Is
  <2>3. job' = job
    BY <1>5 DEF ClaimTask
  <2> QED
    BY <1>1, <2>1, <2>2, <2>3, DispatchLine, SameJobs DEF Plain
<1> QED
  BY <1>2, <1>3, <1>4, <1>5 DEF Claiming

LEMMA FinalizingLine == ASSUME QueueInv, Finalizing PROVE Plain
<1>1. PICK c \in claim : Deliver(c) \/ LoseResponse(c) \/ Requeue(c)
  BY DEF Finalizing
<1>2. TypeOK /\ job' = job
  BY <1>1 DEF QueueInv, Deliver, LoseResponse, Requeue, ServerUnchanged
<1>3. task' = task \/ (CurrentClaim(c) /\ task' = Set({c.task}, "queued"))
  BY <1>1 DEF Deliver, LoseResponse, Requeue
<1>4. CurrentClaim(c) => \A j \in Id : j \in {c.task} => task[j].status # "failed"
  BY DEF CurrentClaim, Is
<1> QED
  BY <1>2, <1>3, <1>4, SetLine, SameRowsLine, SameJobs DEF Plain

LEMMA RunningLine == ASSUME QueueInv, RetryInv, Running PROVE Plain \/ Retried
<1>1. TypeOK
  BY DEF QueueInv
<1>2. PICK c \in copy : RunsOn(c) \/ StartTask(c) \/ StartReplyLost(c)
  BY DEF Running, RunsOn
<1>3. c.task \in Id /\ task[c.task] \in Row
  BY <1>1 DEF TypeOK
<1>4. CASE task' = task /\ job' = job
  BY <1>4, SameRowsLine, SameJobs DEF Plain
<1>5. CASE ExtendLease(c)
  <2> DEFINE row == [task[c.task] EXCEPT !.fresh = TRUE]
  <2>1. task' = [task EXCEPT ![c.task] = row] /\ job' = job
    BY <1>5 DEF ExtendLease, OnlyTask
  <2>2. /\ row.parent = task[c.task].parent /\ row.work = task[c.task].work
        /\ row.attempt = task[c.task].attempt /\ row.max = task[c.task].max
        /\ row.prio = task[c.task].prio /\ row.status = task[c.task].status
    BY <1>3 DEF Row
  <2> HIDE DEF row
  <2> QED
    BY <1>1, <1>3, <2>1, <2>2, TouchLine, SameJobs DEF Plain
<1>6. CASE Park(c)
  <2> DEFINE row == [task[c.task] EXCEPT !.status = "waiting", !.fresh = TRUE]
  <2>1. task' = [task EXCEPT ![c.task] = row] /\ job' = job /\ task[c.task].status # "failed"
    BY <1>6 DEF Park, OnlyTask, Is
  <2>2. /\ row.parent = task[c.task].parent /\ row.work = task[c.task].work
        /\ row.attempt = task[c.task].attempt /\ row.max = task[c.task].max
        /\ row.prio = task[c.task].prio
    BY <1>3 DEF Row
  <2> HIDE DEF row
  <2> QED
    BY <1>1, <1>3, <2>1, <2>2, TouchLine, SameJobs DEF Plain
<1>7. CASE StartTask(c) \/ StartReplyLost(c)
  <2>1. Start(c.task)
    BY <1>7 DEF StartTask, StartReplyLost
  <2> DEFINE row == [task[c.task] EXCEPT !.status = "running", !.starts = task[c.task].starts + 1]
  <2>2. task' = [task EXCEPT ![c.task] = row] /\ task[c.task].status # "failed"
    BY <1>1, <1>3, <2>1 DEF Start, Is, TypeOK
  <2>3. /\ row.parent = task[c.task].parent /\ row.work = task[c.task].work
        /\ row.attempt = task[c.task].attempt /\ row.max = task[c.task].max
        /\ row.prio = task[c.task].prio
    BY <1>3 DEF Row
  <2> HIDE DEF row
  <2>4. NewJobsFailed
    BY <2>1 DEF Start, NewJobsFailed, FailedJob
  <2> QED
    BY <1>1, <1>3, <2>2, <2>3, <2>4, TouchLine DEF Plain
<1>8. CASE CompleteTask(c)
  <2>1. job' = job
    BY <1>8 DEF CompleteTask, ServerUnchanged
  <2>2. task' = task \/ (Is(c.task, {"running"}) /\ task' = Set({c.task}, "completed"))
    BY <1>8 DEF CompleteTask
  <2>3. Is(c.task, {"running"}) => \A j \in Id : j \in {c.task} => task[j].status # "failed"
    BY DEF Is
  <2> QED
    BY <1>1, <2>1, <2>2, <2>3, SetLine, SameRowsLine, SameJobs DEF Plain
<1>9. CASE StartRefused(c) \/ Interrupt(c) \/ ReportLost(c)
           \/ \E reason \in Reason : FailRolledBack(c, reason)
  BY <1>4, <1>9 DEF StartRefused, Interrupt, ReportLost, FailRolledBack, OnlyCopies,
                    ServerUnchanged
<1>10. ASSUME NEW reason \in Reason, FailTask(c, reason) PROVE Plain \/ Retried
  <2>1. job' = job
    BY <1>10 DEF FailTask, ServerUnchanged
  <2>2. task' = task \/ (Is(c.task, Active) /\ FailWithRetry(c.task, reason))
    BY <1>10 DEF FailTask
  <2> QED
    BY <1>3, <1>4, <2>1, <2>2, FailRetries
<1> QED
  BY <1>2, <1>5, <1>6, <1>7, <1>8, <1>9, <1>10 DEF RunsOn

LEMMA FollowUpsLine == ASSUME QueueInv, RetryInv, FollowUps PROVE Plain \/ Retried
<1>1. TypeOK
  BY DEF QueueInv
<1>2. ASSUME NEW i \in Id, CancelFallbacks(i) PROVE Plain
  <2>1. task' = Set(Fallbacks({i}), "cancelled") /\ job' \subseteq job
    BY <1>2 DEF CancelFallbacks
  <2>2. \A j \in Id : j \in Fallbacks({i}) => task[j].status # "failed"
    BY DEF Fallbacks, Is
  <2> QED
    BY <1>1, <2>1, <2>2, SetLine, SameJobs DEF Plain
<1> QED
  BY <1>2, HandleFailedRetries DEF FollowUps

LEMMA ClockLine == ASSUME QueueInv, Clock PROVE Plain
<1>1. TypeOK /\ \A i \in Id : task[i] \in Row
  BY DEF QueueInv, TypeOK
<1>2. ASSUME NEW i \in Id, FireAt(i) PROVE Plain
  <2> DEFINE row == [task[i] EXCEPT !.due = TRUE]
  <2>1. task' = [task EXCEPT ![i] = row] /\ job' = job
    BY <1>2 DEF FireAt, OnlyTask
  <2>2. /\ row.parent = task[i].parent /\ row.work = task[i].work
        /\ row.attempt = task[i].attempt /\ row.max = task[i].max
        /\ row.prio = task[i].prio /\ row.status = task[i].status
    BY <1>1 DEF Row
  <2> HIDE DEF row
  <2> QED
    BY <1>1, <2>1, <2>2, TouchLine, SameJobs DEF Plain
<1>3. ASSUME NEW i \in Id, Lapse(i) PROVE Plain
  <2> DEFINE row == [task[i] EXCEPT !.fresh = FALSE]
  <2>1. task' = [task EXCEPT ![i] = row] /\ job' = job
    BY <1>3 DEF Lapse, ServerUnchanged
  <2>2. /\ row.parent = task[i].parent /\ row.work = task[i].work
        /\ row.attempt = task[i].attempt /\ row.max = task[i].max
        /\ row.prio = task[i].prio /\ row.status = task[i].status
    BY <1>1 DEF Row
  <2> HIDE DEF row
  <2> QED
    BY <1>1, <2>1, <2>2, TouchLine, SameJobs DEF Plain
<1> QED
  BY <1>2, <1>3 DEF Clock

LEMMA SweepingLine == ASSUME QueueInv, Sweeping PROVE Plain
<1>1. TypeOK
  BY DEF QueueInv
<1>2. ASSUME NEW r \in Runtime, MarkOffline(r) PROVE Plain
  BY <1>2, SameRowsLine, SameJobs DEF MarkOffline, Plain
<1>3. ASSUME FailTasksForOfflineRuntimes PROVE Plain
  <2> DEFINE S == ActiveOn({r \in Runtime : ~runtime[r].online})
  <2>1. S \in SUBSET Id /\ \A i \in S : task[i].status # "failed"
    BY DEF ActiveOn, Is, Active
  <2>2. FailRows(S, "infra")
    BY <1>3 DEF FailTasksForOfflineRuntimes
  <2> HIDE DEF S
  <2> QED
    BY <1>1, <2>1, <2>2, FailRowsPlain
<1>4. ASSUME NEW i \in Id, FailStale(i) \/ ExpireQueued(i) PROVE Plain
  <2>1. PICK reason \in {"infra", "agent"} : FailRows({i}, reason)
    BY <1>4 DEF FailStale, ExpireQueued
  <2>2. {i} \in SUBSET Id /\ \A j \in {i} : task[j].status # "failed"
    BY <1>4 DEF FailStale, ExpireQueued, Is
  <2> QED
    BY <1>1, <2>1, <2>2, FailRowsPlain
<1> QED
  BY <1>2, <1>3, <1>4 DEF Sweeping

LEMMA ProcessesLine == ASSUME QueueInv, Processes PROVE Plain
<1>1. TypeOK
  BY DEF QueueInv
<1>2. CASE task' = task /\ job' \subseteq job
  BY <1>2, SameRowsLine, SameJobs DEF Plain
<1>3. ASSUME NEW r \in Runtime,
             \/ DaemonDown(r) \/ Register(r) \/ RegisterFailed(r) \/ RegisterLate(r)
             \/ RecoverOrphansLost(r) \/ Heartbeat(r)
      PROVE  Plain
  BY <1>2, <1>3 DEF DaemonDown, Register, RegisterFailed, RegisterLate, RecoverOrphansLost,
     Heartbeat, OnlyRuntime
<1>4. ASSUME NEW r \in Runtime, RecoverOrphans(r) PROVE Plain
  <2> DEFINE S == ActiveOn({r})
  <2>1. S \in SUBSET Id /\ \A i \in S : task[i].status # "failed"
    BY DEF ActiveOn, Is, Active
  <2>2. FailRows(S, "recovery")
    BY <1>4 DEF RecoverOrphans
  <2> HIDE DEF S
  <2> QED
    BY <1>1, <2>1, <2>2, FailRowsPlain
<1>5. ASSUME ServerCrash PROVE Plain
  BY <1>2, <1>5 DEF ServerCrash
<1> QED
  BY <1>3, <1>4, <1>5 DEF Processes

LEMMA NextRetry == QueueInv /\ RetryInv /\ [Next]_vars => RetryInv'
<1> SUFFICES ASSUME QueueInv, RetryInv, [Next]_vars PROVE RetryInv'
  OBVIOUS
<1>1. CASE UNCHANGED vars
  <2>1. task' = task /\ job' = job
    BY <1>1 DEF vars
  <2>2. Plain
    BY <2>1, SameRowsLine, SameJobs DEF Plain
  <2> QED
    BY <2>2, PlainKeeps
<1>2. CASE Next
  <2>1. Plain \/ Retried
    BY <1>2, UsersLine, ClaimingLine, FinalizingLine, RunningLine, FollowUpsLine,
       ClockLine, SweepingLine, ProcessesLine DEF Next
  <2> QED
    BY <2>1, PlainKeeps, RetryKeeps DEF Retried
<1> QED
  BY <1>1, <1>2

LEMMA InitRetry == Init => RetryInv
<1> SUFFICES ASSUME Init PROVE RetryInv
  OBVIOUS
<1>1. \A i \in Id : task[i].parent = 0 /\ task[i].prio = task[i].work.prio
  <2> DEFINE w == CHOOSE w \in Work : TRUE
             row == New(w)
  <2>1. w \in Work
    BY QueueAssumption DEF QueueAssumption
  <2>2. row.parent = 0 /\ row.work = w /\ row.prio = w.prio /\ row \in Row
    BY <2>1, NewRow DEF New
  <2>3. Absent = [row EXCEPT !.status = "absent"]
    BY DEF Absent
  <2> HIDE DEF w, row
  <2>4. Absent.parent = 0 /\ Absent.prio = Absent.work.prio
    BY <2>2, <2>3 DEF Row
  <2> QED
    BY <2>4 DEF Init
<1>2. job = {}
  BY DEF Init
<1> QED
  BY <1>1, <1>2 DEF RetryInv, RetriedOnce, JobsInv, ParentsInv, PrioInv

LEMMA RetryInvariant == Spec => []RetryInv
<1>1. Init => RetryInv
  BY InitRetry
<1>2. QueueInv /\ RetryInv /\ [Next]_vars => RetryInv'
  BY NextRetry
<1> QED
  BY <1>1, <1>2, QueueInvariant, PTL DEF Spec

\* No failed row has two retries, and none exceeds its budget, whether the daemon's
\* report, a sweep or a recovery saw it fail and in whatever order they ran.
THEOREM OneRetryEach == Spec => []RetriedOnce
<1>1. RetryInv => RetriedOnce
  BY DEF RetryInv
<1> QED
  BY <1>1, RetryInvariant, PTL
-----------------------------------------------------------------------------
(* The order of chat turns                                                 *)

\* A claim takes the head of the agent's queue, and the retry is ahead of it.
LEMMA ClaimOrder ==
  ASSUME QueueInv, RetryInv, NEW a \in Agent, task' = Dispatch(Chosen(a)),
         NEW i \in Id, NEW j \in Id,
         Is(i, {"queued"}), task'[i].status = "dispatched", task[i].work.kind = "chat",
         Is(j, {"queued"}), task[j].work = task[i].work, task[j].parent # 0
  PROVE  task[i].parent # 0
<1>1. TypeOK /\ task[i] \in Row /\ task[j] \in Row
  BY DEF QueueInv, TypeOK
<1>2. i \in Chosen(a)
  <2>1. Chosen(a) \in SUBSET Id
    BY <1>1, ChosenOne
  <2>2. i \notin Chosen(a) => task'[i] = task[i]
    BY <1>1, <2>1, DispatchRows
  <2> QED
    BY <2>2 DEF Is
<1>3. i \in Head(a)
  BY <1>2 DEF Chosen
<1>4. ~Blocked(i) /\ task[i].work.agent = a /\ \A k \in Claimable(a) : Before(i, k)
  BY <1>3 DEF Head, Claimable
<1>5. j \in Claimable(a)
  BY <1>4 DEF Claimable, Blocked
<1>6. Before(i, j)
  BY <1>4, <1>5
<1>7. task[j].prio >= 3 /\ task[j].prio \in Nat /\ task[i].prio \in Nat
  BY <1>1 DEF RetryInv, PrioInv, Row
<1>8. task[i].prio >= 3
  BY <1>6, <1>7 DEF Before
<1>9. task[i].work \in Work /\ task[i].work.prio < 3
  BY <1>1, ChatPriority DEF Row
<1>10. task[i].parent = 0 => task[i].prio < 3
  BY <1>9 DEF RetryInv, PrioInv
<1> QED
  BY <1>7, <1>8, <1>10

LEMMA DispatchSteps ==
  ASSUME QueueInv, [Next]_vars, NEW i \in Id, Is(i, {"queued"}),
         task'[i].status = "dispatched"
  PROVE  \E a \in Agent : task' = Dispatch(Chosen(a))
<1>1. ~Is(i, Active) /\ Is(i, Active)'
  BY DEF Is, Active
<1> QED
  BY <1>1, ActiveSteps

\* A turn that failed and is queued again is claimed before every turn the user
\* sent meanwhile.
THEOREM RetriesFirst == Spec => RetryGoesFirst
<1>1. ASSUME QueueInv, RetryInv, [Next]_vars, NEW i \in Id, NEW j \in Id,
             Is(i, {"queued"}), task'[i].status = "dispatched", task[i].work.kind = "chat",
             Is(j, {"queued"}), task[j].work = task[i].work, task[j].parent # 0
      PROVE  task[i].parent # 0
  BY <1>1, DispatchSteps, ClaimOrder
<1>2. QueueInv /\ RetryInv /\ [Next]_vars =>
        [\A i, j \in Id :
           /\ Is(i, {"queued"}) /\ task'[i].status = "dispatched" /\ task[i].work.kind = "chat"
           /\ Is(j, {"queued"}) /\ task[j].work = task[i].work /\ task[j].parent # 0
           => task[i].parent # 0]_vars
  BY <1>1
<1> QED
  BY <1>2, QueueInvariant, RetryInvariant, PTL DEF Spec, RetryGoesFirst
=============================================================================
