------------------------- MODULE CronSchedulerProofs -------------------------
(***************************************************************************)
(* What holds of the scheduler for any job, servers, scopes and faults.    *)
(* Only a claim gives out a token and only a claim starts a handler; every *)
(* other step keeps the tokens and attempts of the rows and ends handlers  *)
(* at most.  What such a step preserves is proved once.                    *)
(***************************************************************************)
EXTENDS CronScheduler, FiniteSetTheorems, TLAPS

-----------------------------------------------------------------------------
(* Types                                                                   *)

LEMMA PlanFacts == 0 \in Plan /\ Plan \subseteq Nat
  BY SchedulerAssumption DEF SchedulerAssumption, Plan, Time

LEMMA IdleType ==
  ASSUME NEW wake \in Nat
  PROVE  Idle(wake) \in Manager /\ Idle(wake).at = "idle" /\ Idle(wake).todo = {}
<1>1. (CHOOSE s \in Scope : TRUE) \in Scope
  BY SchedulerAssumption DEF SchedulerAssumption
<1> QED
  BY <1>1, PlanFacts DEF Idle, Manager, Place

LEMMA ResumeType ==
  ASSUME NEW m \in Manager
  PROVE  /\ Resume(m) \in Manager
         /\ Resume(m).at \in {"claiming", "planning", "idle"}
         /\ Resume(m).at = "claiming" =>
              Resume(m).now = m.now /\ Resume(m).todo = m.todo /\ Resume(m).scopes = m.scopes
         /\ Resume(m).at = "planning" =>
              /\ m.todo = {}
              /\ Resume(m).now = m.now /\ Resume(m).todo = m.todo /\ Resume(m).scopes = m.scopes
         /\ Resume(m).at = "idle" => Resume(m).todo = {}
<1>1. m.wake \in Nat
  BY DEF Manager
<1>2. CASE m.todo # {}
  <2>1. Resume(m) = [m EXCEPT !.at = "claiming"]
    BY <1>2 DEF Resume
  <2> QED
    BY <2>1 DEF Manager, Place
<1>3. CASE m.todo = {} /\ m.scopes # {}
  <2>1. Resume(m) = [m EXCEPT !.at = "planning"]
    BY <1>3 DEF Resume
  <2> QED
    BY <1>3, <2>1 DEF Manager, Place
<1>4. CASE m.todo = {} /\ m.scopes = {}
  <2>1. Resume(m) = Idle(m.wake)
    BY <1>4 DEF Resume
  <2> QED
    BY <1>1, <2>1, IdleType
<1> QED
  BY <1>2, <1>3, <1>4

LEMMA SetManager ==
  ASSUME TypeOK, NEW r \in Runner, NEW m \in Manager, mgr' = [mgr EXCEPT ![r] = m]
  PROVE  /\ mgr' \in [Runner -> Manager]
         /\ mgr'[r] = m
         /\ \A q \in Runner \ {r} : mgr'[q] = mgr[q]
  BY DEF TypeOK

LEMMA SetRow ==
  ASSUME TypeOK, NEW s \in Scope, NEW p \in Plan, NEW x \in Row,
         row' = [row EXCEPT ![s][p] = x]
  PROVE  /\ row' \in [Scope -> [Plan -> Row]]
         /\ row'[s][p] = x
         /\ \A t \in Scope, q \in Plan : t # s \/ q # p => row'[t][q] = row[t][q]
  BY DEF TypeOK

LEMMA OneRow ==
  ASSUME TypeOK, NEW s \in Scope, NEW p \in Plan PROVE row[s][p] \in Row
  BY DEF TypeOK

LEMMA OneManager ==
  ASSUME TypeOK, NEW r \in Runner
  PROVE  /\ mgr[r] \in Manager
         /\ mgr[r].scope \in Scope /\ mgr[r].plan \in Plan
         /\ mgr[r].todo \in SUBSET Plan /\ mgr[r].scopes \in SUBSET Scope
         /\ mgr[r].now \in Nat /\ mgr[r].attempt \in Nat /\ mgr[r].token \in Nat
         /\ mgr[r].since \in Nat /\ mgr[r].beat \in Nat /\ mgr[r].wake \in Nat
<1>1. mgr[r] \in Manager
  BY DEF TypeOK
<1> QED
  BY <1>1 DEF Manager

-----------------------------------------------------------------------------
(* Steps that give out no lease                                            *)

RowKept(x, y) ==
  /\ y.token = x.token /\ y.attempt = x.attempt
  /\ y.status = "absent" <=> x.status = "absent"
  /\ Final(x) => y.status = x.status

SameClaim(m, n) ==
  /\ m.at = "running"
  /\ n.scope = m.scope /\ n.plan = m.plan /\ n.attempt = m.attempt /\ n.token = m.token

KeepsLeases ==
  /\ TypeOK'
  /\ \A s \in Scope, p \in Plan : RowKept(row[s][p], row'[s][p])
  /\ \A r \in Runner : mgr'[r].at = "running" => SameClaim(mgr[r], mgr'[r])

LEMMA RowsUnchanged ==
  ASSUME row' = row PROVE \A s \in Scope, p \in Plan : RowKept(row[s][p], row'[s][p])
  BY DEF RowKept

LEMMA ClaimsKept ==
  ASSUME TypeOK, NEW r \in Runner, NEW m \in Manager, mgr' = [mgr EXCEPT ![r] = m],
         m.at = "running" => SameClaim(mgr[r], m)
  PROVE  \A q \in Runner : mgr'[q].at = "running" => SameClaim(mgr[q], mgr'[q])
<1> TAKE q \in Runner
<1>1. CASE q = r
  BY <1>1, SetManager
<1>2. CASE q # r
  BY <1>2, SetManager DEF SameClaim
<1> QED
  BY <1>1, <1>2

LEMMA QuietStep ==
  ASSUME TypeOK, NEW r \in Runner, NEW m \in Manager, mgr' = [mgr EXCEPT ![r] = m],
         m.at = "running" => SameClaim(mgr[r], m),
         clock' = clock, faults' \in Nat, row' \in [Scope -> [Plan -> Row]],
         \A s \in Scope, p \in Plan : RowKept(row[s][p], row'[s][p])
  PROVE  KeepsLeases
<1>1. TypeOK'
  BY SetManager DEF TypeOK
<1> QED
  BY <1>1, ClaimsKept DEF KeepsLeases

\* A manager moves on and leaves the rows alone.
LEMMA QuietManager ==
  ASSUME TypeOK, NEW r \in Runner, NEW m \in Manager, mgr' = [mgr EXCEPT ![r] = m],
         m.at # "running", UNCHANGED <<clock, row>>, faults' \in Nat
  PROVE  KeepsLeases
<1>1. row' \in [Scope -> [Plan -> Row]]
  BY DEF TypeOK
<1> QED
  BY <1>1, RowsUnchanged, QuietStep

LEMMA Typed == LeaseInv => TypeOK /\ clock \in Nat /\ faults \in Nat
  BY DEF LeaseInv, TypeOK

LEMMA AdvanceQuiet == ASSUME LeaseInv, Advance PROVE KeepsLeases
<1>1. TypeOK'
  BY DEF Advance, LeaseInv, TypeOK
<1> QED
  BY <1>1, RowsUnchanged DEF Advance, KeepsLeases, SameClaim

LEMMA StutterQuiet == ASSUME LeaseInv, UNCHANGED cronVars PROVE KeepsLeases
<1>1. TypeOK'
  BY DEF cronVars, LeaseInv, TypeOK
<1> QED
  BY <1>1, RowsUnchanged DEF cronVars, KeepsLeases, SameClaim

LEMMA TickQuiet == ASSUME LeaseInv, NEW r \in Runner, Tick(r) PROVE KeepsLeases
<1> DEFINE m == [mgr[r] EXCEPT !.at = "ticked", !.now = clock, !.scopes = Scope,
                              !.wake = clock + TickInterval]
<1>1. mgr[r] \in Manager /\ clock + TickInterval \in Nat
  BY Typed, OneManager, SchedulerAssumption DEF SchedulerAssumption
<1>2. m \in Manager /\ m.at = "ticked"
  BY <1>1, Typed DEF Manager, Place
<1>3. mgr' = [mgr EXCEPT ![r] = m] /\ UNCHANGED <<clock, row, faults>>
  BY DEF Tick
<1> HIDE DEF m
<1> QED
  BY <1>2, <1>3, Typed, QuietManager

LEMMA SweepQuiet == ASSUME LeaseInv, NEW r \in Runner, Sweep(r) PROVE KeepsLeases
<1> DEFINE m == [mgr[r] EXCEPT !.at = "planning"]
<1>1. m \in Manager /\ m.at = "planning"
  BY Typed, OneManager DEF Manager, Place
<1>2. mgr' = [mgr EXCEPT ![r] = m] /\ UNCHANGED <<clock, faults>>
  BY DEF Sweep
<1>3. \A x \in Row : MarkStale(x, mgr[r].now) \in Row /\ RowKept(x, MarkStale(x, mgr[r].now))
  BY DEF MarkStale, Stale, Row, RowKept, Final
<1>4. \A s \in Scope, p \in Plan : row'[s][p] = MarkStale(row[s][p], mgr[r].now)
  BY DEF Sweep
<1>5. row' \in [Scope -> [Plan -> Row]]
  BY <1>3, Typed DEF Sweep, TypeOK
<1>6. \A s \in Scope, p \in Plan : RowKept(row[s][p], row'[s][p])
  BY <1>3, <1>4, Typed, OneRow
<1> HIDE DEF m
<1> QED
  BY <1>1, <1>2, <1>5, <1>6, Typed, QuietStep

LEMMA PlannedType ==
  ASSUME NEW m \in Manager, NEW s \in Scope
  PROVE  /\ Planned(m, s) \in Manager
         /\ Planned(m, s).now = m.now
         /\ Planned(m, s).scopes = m.scopes \ {s}
         /\ Planned(m, s).todo = PlansForTick(s, m.now)
<1>1. PlansForTick(s, m.now) \in SUBSET Plan
  BY DEF PlansForTick
<1> QED
  BY <1>1 DEF Planned, Manager

LEMMA PlanScopeQuiet ==
  ASSUME LeaseInv, NEW r \in Runner, NEW s \in Scope, PlanScope(r, s) PROVE KeepsLeases
<1>1. Planned(mgr[r], s) \in Manager
  BY Typed, OneManager, PlannedType
<1>2. mgr' = [mgr EXCEPT ![r] = Resume(Planned(mgr[r], s))] /\ UNCHANGED <<clock, row, faults>>
  BY DEF PlanScope
<1> QED
  BY <1>1, <1>2, Typed, ResumeType, QuietManager

LEMMA HeartbeatQuiet == ASSUME LeaseInv, NEW r \in Runner, Heartbeat(r) PROVE KeepsLeases
<1> DEFINE m == [mgr[r] EXCEPT !.beat = clock]
           s == mgr[r].scope
           p == mgr[r].plan
           x == [row[s][p] EXCEPT !.stale = clock + StaleTimeout]
<1>1. s \in Scope /\ p \in Plan /\ mgr[r] \in Manager
  BY Typed, OneManager
<1>2. m \in Manager /\ SameClaim(mgr[r], m)
  BY <1>1, Typed DEF Manager, SameClaim, Heartbeat, Holds
<1>3. row[s][p] \in Row /\ clock + StaleTimeout \in Nat
  BY <1>1, Typed, OneRow, SchedulerAssumption DEF SchedulerAssumption
<1>4. x \in Row /\ RowKept(row[s][p], x)
  BY <1>3 DEF Row, RowKept
<1>5. /\ row' = [row EXCEPT ![s][p] = x]
      /\ mgr' = [mgr EXCEPT ![r] = m] /\ UNCHANGED <<clock, faults>>
  BY DEF Heartbeat
<1> HIDE DEF m, s, p, x
<1>6. row' \in [Scope -> [Plan -> Row]]
  BY <1>1, <1>4, <1>5, Typed, SetRow
<1>7. \A t \in Scope, q \in Plan : RowKept(row[t][q], row'[t][q])
  BY <1>1, <1>4, <1>5, Typed, SetRow DEF RowKept
<1> QED
  BY <1>2, <1>5, <1>6, <1>7, Typed, QuietStep

LEMMA OutcomeType ==
  ASSUME NEW x \in Row, NEW m \in Manager, NEW ok \in BOOLEAN, clock \in Nat
  PROVE  /\ Outcome(x, m, ok) \in Row
         /\ Owns(m, x) => RowKept(x, Outcome(x, m, ok))
<1>1. (IF m.attempt < MaxAttempts THEN clock + RetryBackoff ELSE 0) \in Nat
  BY SchedulerAssumption DEF SchedulerAssumption
<1>2. Outcome(x, m, ok) \in Row
  BY <1>1 DEF Row, Outcome
<1> QED
  BY <1>2 DEF Row, RowKept, Outcome, Owns, Final

LEMMA FinishQuiet ==
  ASSUME LeaseInv, NEW r \in Runner, NEW ok \in BOOLEAN, Finish(r, ok) PROVE KeepsLeases
<1> DEFINE s == mgr[r].scope
           p == mgr[r].plan
           x == Outcome(row[s][p], mgr[r], ok)
<1>1. s \in Scope /\ p \in Plan /\ mgr[r] \in Manager /\ row[s][p] \in Row
  BY Typed, OneManager, OneRow
<1>2. /\ mgr' = [mgr EXCEPT ![r] = Resume(mgr[r])]
      /\ clock' = clock /\ faults' \in Nat
  BY Typed DEF Finish, Fault
<1>3. x \in Row
  BY <1>1, Typed, OutcomeType
<1>4. CASE Owns(mgr[r], row[s][p])
  <2>1. row' = [row EXCEPT ![s][p] = x]
    BY <1>4 DEF Finish, Lease
  <2>2. RowKept(row[s][p], x)
    BY <1>1, <1>4, Typed, OutcomeType
  <2> HIDE DEF s, p, x
  <2>3. row' \in [Scope -> [Plan -> Row]]
    BY <1>1, <1>3, <2>1, Typed, SetRow
  <2>4. \A t \in Scope, q \in Plan : RowKept(row[t][q], row'[t][q])
    BY <1>1, <1>3, <2>1, <2>2, Typed, SetRow DEF RowKept
  <2> QED
    BY <1>1, <1>2, <2>3, <2>4, Typed, ResumeType, QuietStep
<1>5. CASE ~Owns(mgr[r], row[s][p])
  <2>1. row' = row
    BY <1>5 DEF Finish, Lease
  <2> QED
    BY <1>1, <1>2, <2>1, Typed, ResumeType, QuietManager
<1> QED
  BY <1>4, <1>5

LEMMA CrashQuiet == ASSUME LeaseInv, NEW r \in Runner, Crash(r) PROVE KeepsLeases
<1>1. /\ mgr' = [mgr EXCEPT ![r] = Idle(clock)]
      /\ UNCHANGED <<clock, row>> /\ faults' \in Nat
  BY Typed DEF Crash, Fault
<1>2. Idle(clock) \in Manager /\ Idle(clock).at # "running"
  BY Typed, IdleType
<1> QED
  BY <1>1, <1>2, Typed, QuietManager

\* A claim that finds its plan taken.
LEMMA PassOverQuiet ==
  ASSUME LeaseInv, NEW r \in Runner, NEW s \in Scope, NEW p \in Plan, Claim(r, s, p),
         ~Claimable(row[s][p], mgr[r].now)
  PROVE  KeepsLeases
<1> DEFINE m == [mgr[r] EXCEPT !.todo = mgr[r].todo \ {p}]
<1>1. m \in Manager
  BY Typed, OneManager DEF Manager
<1>2. mgr' = [mgr EXCEPT ![r] = Resume(m)] /\ UNCHANGED <<clock, row, faults>>
  BY DEF Claim
<1> HIDE DEF m
<1> QED
  BY <1>1, <1>2, Typed, ResumeType, QuietManager

-----------------------------------------------------------------------------
(* The claim                                                               *)

\* A claim that succeeds: what it writes.
TakesOver(r, s, p) ==
  LET x == row[s][p]
      y == Claimed(x, mgr[r].now)
      m == mgr'[r]
  IN  /\ TypeOK'
      /\ Claimable(x, mgr[r].now)
      /\ mgr[r].at = "claiming" /\ s = mgr[r].scope /\ p \in mgr[r].todo
      /\ row'[s][p] = y
      /\ \A t \in Scope, q \in Plan : t # s \/ q # p => row'[t][q] = row[t][q]
      /\ m.at = "running" /\ m.scope = s /\ m.plan = p
      /\ m.attempt = y.attempt /\ m.token = y.token
      /\ m.since = clock /\ m.beat = clock
      /\ m.now = mgr[r].now /\ m.scopes = mgr[r].scopes /\ m.todo = mgr[r].todo \ {p}
      /\ \A q \in Runner \ {r} : mgr'[q] = mgr[q]
      /\ clock' = clock

LEMMA ClaimTakesOver ==
  ASSUME LeaseInv, NEW r \in Runner, NEW s \in Scope, NEW p \in Plan, Claim(r, s, p),
         Claimable(row[s][p], mgr[r].now)
  PROVE  TakesOver(r, s, p)
<1> DEFINE y == Claimed(row[s][p], mgr[r].now)
           rest == [mgr[r] EXCEPT !.todo = mgr[r].todo \ {p}]
           m == [rest EXCEPT !.at = "running", !.plan = p, !.attempt = y.attempt,
                             !.token = y.token, !.since = clock, !.beat = clock]
<1>1. /\ mgr[r].at = "claiming" /\ s = mgr[r].scope /\ p \in mgr[r].todo
      /\ row' = [row EXCEPT ![s][p] = y] /\ mgr' = [mgr EXCEPT ![r] = m]
      /\ UNCHANGED <<clock, faults>>
  BY DEF Claim
<1>2. row[s][p] \in Row /\ mgr[r].now \in Nat /\ mgr[r] \in Manager
  BY Typed, OneRow, OneManager
<1>3. y \in Row
  <2>1. mgr[r].now + StaleTimeout \in Nat
    BY <1>2, SchedulerAssumption DEF SchedulerAssumption
  <2> QED
    BY <1>2, <2>1 DEF Claimed, Row
<1>4. rest \in Manager /\ y.attempt \in Nat /\ y.token \in Nat
  BY <1>2, <1>3 DEF Manager, Row
<1>5. /\ m \in Manager
      /\ m.at = "running" /\ m.scope = s /\ m.plan = p
      /\ m.attempt = y.attempt /\ m.token = y.token /\ m.since = clock /\ m.beat = clock
      /\ m.now = mgr[r].now /\ m.scopes = mgr[r].scopes /\ m.todo = mgr[r].todo \ {p}
  <2> HIDE DEF y
  <2> QED
    BY <1>1, <1>2, <1>4, Typed DEF Manager, Place
<1> HIDE DEF m, rest, y
<1>6. /\ row' \in [Scope -> [Plan -> Row]] /\ row'[s][p] = y
      /\ \A t \in Scope, q \in Plan : t # s \/ q # p => row'[t][q] = row[t][q]
  <2>1. row' = [row EXCEPT ![s][p] = y]
    BY <1>1
  <2> QED
    BY <1>3, <2>1, Typed, SetRow
<1>7. /\ mgr' \in [Runner -> Manager] /\ mgr'[r] = m
      /\ \A q \in Runner \ {r} : mgr'[q] = mgr[q]
  BY <1>1, <1>5, Typed, SetManager
<1>8. TypeOK'
  BY <1>1, <1>6, <1>7, Typed DEF TypeOK
<1> QED
  BY <1>1, <1>5, <1>6, <1>7, <1>8 DEF TakesOver, y

\* Every step is quiet or a claim that succeeds.
LEMMA Steps ==
  ASSUME LeaseInv, [Next]_cronVars
  PROVE  KeepsLeases \/ \E r \in Runner, s \in Scope, p \in Plan : TakesOver(r, s, p)
<1>1. ASSUME NEW r \in Runner, Step(r)
      PROVE  KeepsLeases \/ \E s \in Scope, p \in Plan : TakesOver(r, s, p)
  <2>1. CASE Tick(r) \/ Sweep(r) \/ \E s \in Scope : PlanScope(r, s)
    BY <2>1, TickQuiet, SweepQuiet, PlanScopeQuiet
  <2>2. CASE \E s \in Scope, p \in Plan : Claim(r, s, p)
    BY <2>2, PassOverQuiet, ClaimTakesOver
  <2>3. CASE \E ok \in BOOLEAN : Finish(r, ok)
    BY <2>3, FinishQuiet
  <2> QED
    BY <1>1, <2>1, <2>2, <2>3 DEF Step
<1> QED
  BY <1>1, AdvanceQuiet, StutterQuiet, HeartbeatQuiet, CrashQuiet DEF Next

-----------------------------------------------------------------------------
(* Leases                                                                  *)

\* A handler's token and attempt against those of the row and of the other
\* handlers of the execution.
HandlerLease(r) ==
  /\ mgr[r].token > 0
  /\ mgr[r].token <= Lease(r).token
  /\ mgr[r].attempt <= Lease(r).attempt
  /\ mgr[r].token = Lease(r).token => mgr[r].attempt = Lease(r).attempt
  /\ \A q \in Runner \ {r} : mgr[q].at = "running" /\ Same(r, q) =>
       mgr[q].token # mgr[r].token /\ mgr[q].attempt # mgr[r].attempt
RowLease(x) == x.attempt <= MaxAttempts /\ (x.status = "absent" <=> x.attempt = 0)

LEMMA LeaseParts ==
  LeaseInv <=> /\ TypeOK
               /\ \A s \in Scope, p \in Plan : RowLease(row[s][p])
               /\ \A r \in Runner : mgr[r].at = "running" => HandlerLease(r)
  BY DEF LeaseInv, RowLease, HandlerLease

LEMMA QuietLease == ASSUME LeaseInv, KeepsLeases PROVE LeaseInv'
<1>1. \A s \in Scope, p \in Plan : RowLease(row'[s][p])
  BY LeaseParts DEF KeepsLeases, RowKept, RowLease
<1>2. ASSUME NEW r \in Runner, mgr'[r].at = "running" PROVE HandlerLease(r)'
  <2>1. SameClaim(mgr[r], mgr'[r]) /\ mgr[r].at = "running"
    BY <1>2 DEF KeepsLeases, SameClaim
  <2>2. Lease(r)'.token = Lease(r).token /\ Lease(r)'.attempt = Lease(r).attempt
    <3>1. mgr[r].scope \in Scope /\ mgr[r].plan \in Plan
      BY Typed, OneManager
    <3> QED
      BY <2>1, <3>1 DEF KeepsLeases, RowKept, SameClaim, Lease
  <2>3. HandlerLease(r)
    BY <2>1, LeaseParts
  <2>4. ASSUME NEW q \in Runner \ {r}, mgr'[q].at = "running", Same(r, q)'
        PROVE  mgr'[q].token # mgr'[r].token /\ mgr'[q].attempt # mgr'[r].attempt
    <3>1. SameClaim(mgr[q], mgr'[q]) /\ mgr[q].at = "running"
      BY <2>4 DEF KeepsLeases, SameClaim
    <3>2. Same(r, q)
      BY <2>1, <2>4, <3>1 DEF Same, SameClaim
    <3> QED
      BY <2>1, <2>3, <3>1, <3>2 DEF SameClaim, HandlerLease
  <2> QED
    BY <2>1, <2>2, <2>3, <2>4 DEF HandlerLease, SameClaim
<1> QED
  BY <1>1, <1>2, LeaseParts DEF KeepsLeases, LeaseInv, RowLease, HandlerLease

LEMMA ClaimLease ==
  ASSUME LeaseInv, NEW r \in Runner, NEW s \in Scope, NEW p \in Plan, TakesOver(r, s, p)
  PROVE  LeaseInv'
<1> DEFINE x == row[s][p]
<1>1. x \in Row /\ RowLease(x) /\ x.attempt \in Nat /\ x.token \in Nat
  BY Typed, OneRow, LeaseParts DEF Row
<1>2. /\ row'[s][p].status = "RUNNING"
      /\ row'[s][p].attempt = x.attempt + 1 /\ row'[s][p].token = x.token + 1
  BY DEF TakesOver, Claimed
<1>3. x.attempt < MaxAttempts
  BY <1>1, SchedulerAssumption DEF SchedulerAssumption, TakesOver, Claimable, RowLease
<1>4. \A t \in Scope, q \in Plan : RowLease(row'[t][q])
  <2> TAKE t \in Scope, q \in Plan
  <2>1. CASE t = s /\ q = p
    BY <1>1, <1>2, <1>3, <2>1, SchedulerAssumption DEF SchedulerAssumption, RowLease
  <2>2. CASE t # s \/ q # p
    BY <2>2, LeaseParts DEF TakesOver
  <2> QED
    BY <2>1, <2>2
<1>5. /\ mgr'[r].token = x.token + 1 /\ mgr'[r].attempt = x.attempt + 1
      /\ mgr'[r].scope = s /\ mgr'[r].plan = p /\ Lease(r)' = row'[s][p]
  BY DEF TakesOver, Claimed, Lease
<1>6. ASSUME NEW q \in Runner \ {r}, mgr'[q].at = "running"
      PROVE  /\ mgr[q].at = "running" /\ mgr'[q] = mgr[q] /\ HandlerLease(q)
             /\ mgr[q].token \in Nat /\ mgr[q].attempt \in Nat
             /\ mgr[q].scope \in Scope /\ mgr[q].plan \in Plan
             /\ Same(r, q)' => mgr[q].token < x.token + 1 /\ mgr[q].attempt < x.attempt + 1
  <2>1. /\ mgr[q].at = "running" /\ mgr'[q] = mgr[q] /\ HandlerLease(q)
        /\ mgr[q].token \in Nat /\ mgr[q].attempt \in Nat
        /\ mgr[q].scope \in Scope /\ mgr[q].plan \in Plan
    BY <1>6, Typed, OneManager, LeaseParts DEF TakesOver
  <2>2. Same(r, q)' => Lease(q) = x
    BY <1>5, <2>1 DEF Same, Lease
  <2> QED
    BY <1>1, <2>1, <2>2 DEF HandlerLease
<1>7. HandlerLease(r)'
  BY <1>1, <1>2, <1>5, <1>6 DEF HandlerLease
<1>8. ASSUME NEW q \in Runner \ {r}, mgr'[q].at = "running" PROVE HandlerLease(q)'
  <2>1. /\ mgr[q].at = "running" /\ mgr'[q] = mgr[q] /\ HandlerLease(q)
        /\ mgr[q].token \in Nat /\ mgr[q].attempt \in Nat
        /\ mgr[q].scope \in Scope /\ mgr[q].plan \in Plan
    BY <1>6, <1>8
  <2>2. /\ mgr[q].token <= Lease(q)'.token /\ mgr[q].attempt <= Lease(q)'.attempt
        /\ mgr[q].token = Lease(q)'.token => mgr[q].attempt = Lease(q)'.attempt
    <3>1. CASE Same(r, q)'
      <4>1. Lease(q)' = row'[s][p]
        BY <1>5, <3>1 DEF Same, Lease
      <4> QED
        BY <1>1, <1>2, <1>6, <1>8, <3>1, <4>1
    <3>2. CASE ~Same(r, q)'
      <4>1. Lease(q)' = Lease(q)
        BY <1>5, <2>1, <3>2 DEF Same, Lease, TakesOver
      <4> QED
        BY <2>1, <4>1 DEF HandlerLease
    <3> QED
      BY <3>1, <3>2
  <2>3. ASSUME NEW o \in Runner \ {q}, mgr'[o].at = "running", Same(q, o)'
        PROVE  mgr'[o].token # mgr'[q].token /\ mgr'[o].attempt # mgr'[q].attempt
    <3>1. CASE o = r
      <4>1. Same(r, q)'
        BY <2>3, <3>1 DEF Same
      <4> QED
        BY <1>1, <1>5, <1>6, <1>8, <3>1, <4>1
    <3>2. CASE o # r
      BY <2>1, <2>3, <3>2 DEF TakesOver, HandlerLease, Same
    <3> QED
      BY <3>1, <3>2
  <2> QED
    BY <2>1, <2>2, <2>3 DEF HandlerLease
<1> QED
  BY <1>4, <1>7, <1>8, LeaseParts DEF TakesOver, LeaseInv, RowLease, HandlerLease

LEMMA InitLease == Init => LeaseInv
<1> SUFFICES ASSUME Init PROVE LeaseInv
  OBVIOUS
<1>1. Absent \in Row
  BY DEF Absent, Row
<1>2. TypeOK
  BY <1>1, IdleType DEF Init, TypeOK
<1>3. \A r \in Runner : mgr[r].at # "running"
  BY IdleType DEF Init
<1> QED
  BY <1>2, <1>3, SchedulerAssumption DEF SchedulerAssumption, Init, Absent, LeaseInv

LEMMA NextLease == LeaseInv /\ [Next]_cronVars => LeaseInv'
  BY Steps, QuietLease, ClaimLease

\* Tokens tell the claims of an execution apart and attempts stay within
\* bounds, for any number of servers, crashes and takeovers.
THEOREM LeaseInvariant == Spec => []LeaseInv
<1> QED
  BY InitLease, NextLease, PTL DEF Spec

LEMMA OneHolderOfLease == LeaseInv => OneHolder
  BY DEF LeaseInv, OneHolder, Holds, Owns, Lease, Same

\* At most one server holds the lease of an execution, so that at most one
\* handler's outcome is ever written for a claim.
THEOREM LeaseIsExclusive == Spec => []OneHolder
<1> QED
  BY LeaseInvariant, OneHolderOfLease, PTL

\* An execution that succeeded, or failed with its attempts used up, stays as
\* it is.
THEOREM FinalForGood == Spec => FinalStays
<1>1. ASSUME LeaseInv, [Next]_cronVars, NEW s \in Scope, NEW p \in Plan, Final(row[s][p])
      PROVE  row'[s][p].status = row[s][p].status /\ row'[s][p].attempt = row[s][p].attempt
  <2>1. CASE KeepsLeases
    BY <1>1, <2>1 DEF KeepsLeases, RowKept
  <2>2. ASSUME NEW r \in Runner, NEW t \in Scope, NEW q \in Plan, TakesOver(r, t, q)
        PROVE  row'[s][p] = row[s][p]
    <3>1. ~Final(row[t][q])
      <4>1. row[t][q] \in Row
        BY <1>1, Typed, OneRow
      <4> QED
        BY <2>2, <4>1, SchedulerAssumption
        DEF SchedulerAssumption, TakesOver, Claimable, Stale, Final, Row
    <3> QED
      BY <1>1, <2>2, <3>1 DEF TakesOver
  <2> QED
    BY <1>1, <2>1, <2>2, Steps
<1>2. LeaseInv /\ [Next]_cronVars =>
        [\A s \in Scope, p \in Plan :
           LET x == row[s][p] IN
           Final(x) => row'[s][p].status = x.status /\ row'[s][p].attempt = x.attempt]_cronVars
  BY <1>1
<1> QED
  BY <1>2, LeaseInvariant, PTL DEF Spec, FinalStays


-----------------------------------------------------------------------------
(* When a lease may be lost                                                *)

\* The times of a handler.  While it holds its lease the row says when that
\* ends; when it has lost it, the lease had ended.
Times(r) ==
  LET m == mgr[r] IN
  /\ m.now <= clock
  /\ m.at = "running" =>
       /\ m.since <= m.beat /\ m.beat <= clock
       /\ Holds(r) =>
            /\ Lease(r).stale = LeaseEnd(m)
            /\ Prompt => clock <= m.beat + HeartbeatInterval
       /\ ~Holds(r) => LeaseEnd(m) < clock /\ (Prompt => ClaimedLate(m))

TimesInv == LeaseInv /\ \A r \in Runner : Times(r)

LEMMA TimeTypes ==
  ASSUME TypeOK, NEW r \in Runner
  PROVE  /\ clock \in Nat /\ HeartbeatInterval \in Nat /\ StaleTimeout \in Nat
         /\ HeartbeatInterval < StaleTimeout
         /\ mgr[r].now \in Nat /\ mgr[r].since \in Nat /\ mgr[r].beat \in Nat
         /\ LeaseEnd(mgr[r]) \in Nat
         /\ mgr[r].scope \in Scope /\ mgr[r].plan \in Plan /\ Lease(r) \in Row
<1>1. /\ clock \in Nat /\ HeartbeatInterval \in Nat /\ StaleTimeout \in Nat
      /\ HeartbeatInterval < StaleTimeout
  BY SchedulerAssumption DEF TypeOK, SchedulerAssumption
<1>2. /\ mgr[r].now \in Nat /\ mgr[r].since \in Nat /\ mgr[r].beat \in Nat
      /\ mgr[r].scope \in Scope /\ mgr[r].plan \in Plan
  BY OneManager
<1> QED
  BY <1>1, <1>2, OneRow DEF LeaseEnd, Lease

\* A manager without a handler.
LEMMA AtRest ==
  ASSUME NEW r \in Runner, mgr'[r].at # "running", mgr'[r].now <= clock'
  PROVE  Times(r)'
  BY DEF Times

\* A handler of another manager: its row is as before, or it had lost its
\* lease before, or it loses one that has ended.
LEMMA Bystander ==
  ASSUME TypeOK, NEW q \in Runner, Times(q), mgr'[q] = mgr[q], clock' = clock,
         mgr[q].at = "running" =>
           \/ Lease(q)' = Lease(q)
           \/ ~Holds(q) /\ ~Holds(q)'
           \/ ~Holds(q)' /\ Lease(q).stale < clock
  PROVE  Times(q)'
<1>1. /\ clock \in Nat /\ HeartbeatInterval \in Nat /\ StaleTimeout \in Nat
      /\ HeartbeatInterval < StaleTimeout
      /\ mgr[q].now \in Nat /\ mgr[q].since \in Nat /\ mgr[q].beat \in Nat
  BY TimeTypes
<1>2. CASE mgr[q].at # "running"
  BY <1>2, AtRest DEF Times
<1>3. CASE mgr[q].at = "running" /\ Lease(q)' = Lease(q)
  BY <1>3 DEF Times, Holds, Owns, LeaseEnd, ClaimedLate
<1>4. CASE mgr[q].at = "running" /\ ~Holds(q) /\ ~Holds(q)'
  BY <1>4 DEF Times, LeaseEnd, ClaimedLate
<1>5. CASE mgr[q].at = "running" /\ Holds(q) /\ ~Holds(q)' /\ Lease(q).stale < clock
  <2>1. LeaseEnd(mgr[q]) < clock
    BY <1>5 DEF Times
  <2>2. ASSUME Prompt PROVE ClaimedLate(mgr[q])
    <3>1. /\ clock <= mgr[q].beat + HeartbeatInterval
          /\ mgr[q].since <= mgr[q].beat
      BY <1>5, <2>2 DEF Times
    <3> QED
      BY <1>1, <2>1, <3>1 DEF LeaseEnd, ClaimedLate
  <2> QED
    BY <1>5, <2>1, <2>2 DEF Times, LeaseEnd, ClaimedLate
<1> QED
  BY <1>2, <1>3, <1>4, <1>5

\* A step of r after which it runs no handler, and which leaves the rows alone.
LEMMA RestTimes ==
  ASSUME TimesInv, NEW r \in Runner, NEW m \in Manager, mgr' = [mgr EXCEPT ![r] = m],
         m.at # "running", m.now <= clock, UNCHANGED <<clock, row>>
  PROVE  \A q \in Runner : Times(q)'
<1>1. TypeOK /\ mgr'[r] = m /\ \A q \in Runner \ {r} : mgr'[q] = mgr[q]
  BY Typed, SetManager DEF TimesInv
<1>2. Times(r)'
  BY <1>1, AtRest
<1>3. ASSUME NEW q \in Runner \ {r} PROVE Times(q)'
  <2>1. Lease(q)' = Lease(q) /\ Times(q)
    BY <1>1 DEF Lease, TimesInv
  <2> QED
    BY <1>1, <2>1, Bystander
<1> QED
  BY <1>2, <1>3

LEMMA AdvanceTimes == ASSUME TimesInv, Advance PROVE \A r \in Runner : Times(r)'
<1> TAKE r \in Runner
<1>1. /\ mgr' = mgr /\ row' = row /\ clock' = clock + 1 /\ TypeOK
      /\ Times(r) /\ (Prompt => InTime(r))
  BY Typed DEF Advance, TimesInv
<1>2. /\ clock \in Nat /\ HeartbeatInterval \in Nat /\ LeaseEnd(mgr[r]) \in Nat
      /\ mgr[r].now \in Nat /\ mgr[r].since \in Nat /\ mgr[r].beat \in Nat
  BY <1>1, TimeTypes
<1>3. CASE mgr[r].at # "running"
  BY <1>1, <1>2, <1>3 DEF Times
<1>4. CASE Holds(r)
  <2>1. Holds(r)' /\ Lease(r)' = Lease(r) /\ LeaseEnd(mgr[r])' = LeaseEnd(mgr[r])
    BY <1>1, <1>4 DEF Holds, Owns, Lease, LeaseEnd
  <2>2. Prompt => clock' <= mgr[r].beat + HeartbeatInterval
    BY <1>1, <1>2, <1>4 DEF InTime, Holds
  <2> QED
    BY <1>1, <1>2, <1>4, <2>1, <2>2 DEF Times
<1>5. CASE mgr[r].at = "running" /\ ~Holds(r)
  <2>1. ~Holds(r)' /\ LeaseEnd(mgr[r])' = LeaseEnd(mgr[r]) /\ ClaimedLate(mgr[r])' = ClaimedLate(mgr[r])
    BY <1>1, <1>5 DEF Holds, Owns, Lease, LeaseEnd, ClaimedLate
  <2> QED
    BY <1>1, <1>2, <1>5, <2>1 DEF Times
<1> QED
  BY <1>3, <1>4, <1>5

LEMMA TickTimes ==
  ASSUME TimesInv, NEW r \in Runner, Tick(r) PROVE \A q \in Runner : Times(q)'
<1> DEFINE m == [mgr[r] EXCEPT !.at = "ticked", !.now = clock, !.scopes = Scope,
                              !.wake = clock + TickInterval]
<1>1. clock \in Nat /\ mgr[r] \in Manager /\ clock + TickInterval \in Nat
  BY Typed, OneManager, SchedulerAssumption DEF TimesInv, SchedulerAssumption
<1>2. m \in Manager /\ m.at = "ticked" /\ m.now = clock
  BY <1>1 DEF Manager, Place
<1>3. mgr' = [mgr EXCEPT ![r] = m] /\ UNCHANGED <<clock, row>>
  BY DEF Tick
<1> HIDE DEF m
<1>4. m.now <= clock /\ m.at # "running"
  BY <1>1, <1>2
<1> QED
  BY <1>2, <1>3, <1>4, RestTimes

LEMMA SweepTimes ==
  ASSUME TimesInv, NEW r \in Runner, Sweep(r) PROVE \A q \in Runner : Times(q)'
<1> DEFINE m == [mgr[r] EXCEPT !.at = "planning"]
<1>1. TypeOK /\ clock \in Nat /\ mgr[r] \in Manager /\ Times(r) /\ mgr[r].now \in Nat
  BY Typed, OneManager DEF TimesInv
<1>2. m \in Manager /\ m.at = "planning" /\ m.now = mgr[r].now
  BY <1>1 DEF Manager, Place
<1>3. mgr' = [mgr EXCEPT ![r] = m] /\ clock' = clock
  BY DEF Sweep
<1> HIDE DEF m
<1>4. mgr'[r] = m /\ \A q \in Runner \ {r} : mgr'[q] = mgr[q]
  BY <1>1, <1>2, <1>3, SetManager
<1>5. mgr[r].now <= clock
  BY <1>1 DEF Times
<1>6. Times(r)'
  BY <1>2, <1>3, <1>4, <1>5, AtRest
<1>7. ASSUME NEW q \in Runner \ {r} PROVE Times(q)'
  <2>1. mgr[q].scope \in Scope /\ mgr[q].plan \in Plan /\ Lease(q) \in Row /\ Times(q)
    BY <1>1, TimeTypes DEF TimesInv
  <2>2. Lease(q)' = MarkStale(Lease(q), mgr[r].now)
    BY <1>4, <2>1 DEF Sweep, Lease
  <2>3. CASE Stale(Lease(q), mgr[r].now)
    <3>1. Lease(q)'.status = "FAILED" /\ Lease(q).stale < clock
      BY <1>1, <1>5, <2>1, <2>2, <2>3 DEF MarkStale, Stale, Row
    <3> QED
      BY <1>1, <1>3, <1>4, <2>1, <3>1, Bystander DEF Holds, Owns
  <2>4. CASE ~Stale(Lease(q), mgr[r].now)
    BY <1>1, <1>3, <1>4, <2>1, <2>2, <2>4, Bystander DEF MarkStale
  <2> QED
    BY <2>3, <2>4
<1> QED
  BY <1>6, <1>7

\* The manager of r goes on with its tick and leaves the rows alone.
LEMMA ResumeTimes ==
  ASSUME TimesInv, NEW r \in Runner, NEW n \in Manager, mgr' = [mgr EXCEPT ![r] = Resume(n)],
         n.now = mgr[r].now, UNCHANGED <<clock, row>>
  PROVE  \A q \in Runner : Times(q)'
<1>1. TypeOK /\ clock \in Nat /\ Times(r) /\ n.wake \in Nat
  BY Typed DEF TimesInv, Manager
<1>2. Resume(n) \in Manager /\ Resume(n).at \in {"claiming", "planning", "idle"}
  BY ResumeType
<1>3. Resume(n).now \in {n.now, 0}
  BY <1>1 DEF Resume, Idle, Manager
<1>4. Resume(n).now <= clock
  BY <1>1, <1>3 DEF Times
<1> QED
  BY <1>2, <1>4, RestTimes

LEMMA PlanScopeTimes ==
  ASSUME TimesInv, NEW r \in Runner, NEW s \in Scope, PlanScope(r, s)
  PROVE  \A q \in Runner : Times(q)'
<1>1. mgr[r] \in Manager /\ mgr[r].now \in Nat
  BY Typed, OneManager DEF TimesInv
<1>2. Planned(mgr[r], s) \in Manager /\ Planned(mgr[r], s).now = mgr[r].now
  BY <1>1, PlannedType
<1> QED
  BY <1>2, ResumeTimes DEF PlanScope

LEMMA PassOverTimes ==
  ASSUME TimesInv, NEW r \in Runner, NEW s \in Scope, NEW p \in Plan, Claim(r, s, p),
         ~Claimable(row[s][p], mgr[r].now)
  PROVE  \A q \in Runner : Times(q)'
<1> DEFINE n == [mgr[r] EXCEPT !.todo = mgr[r].todo \ {p}]
<1>1. mgr[r] \in Manager
  BY Typed, OneManager DEF TimesInv
<1>2. n \in Manager /\ n.now = mgr[r].now
  BY <1>1 DEF Manager
<1>3. mgr' = [mgr EXCEPT ![r] = Resume(n)] /\ UNCHANGED <<clock, row>>
  BY DEF Claim
<1> HIDE DEF n
<1> QED
  BY <1>2, <1>3, ResumeTimes

LEMMA TakeOverTimes ==
  ASSUME TimesInv, NEW r \in Runner, NEW s \in Scope, NEW p \in Plan, TakesOver(r, s, p)
  PROVE  \A q \in Runner : Times(q)'
<1>1. /\ TypeOK /\ LeaseInv /\ mgr[r].now \in Nat /\ row[s][p] \in Row /\ Times(r) /\ clock \in Nat
      /\ HeartbeatInterval \in Nat
  BY Typed, OneManager, OneRow, SchedulerAssumption DEF TimesInv, SchedulerAssumption
<1>2. /\ mgr'[r].at = "running" /\ mgr'[r].scope = s /\ mgr'[r].plan = p /\ clock' = clock
      /\ mgr'[r].since = clock /\ mgr'[r].beat = clock /\ mgr'[r].now = mgr[r].now
      /\ mgr'[r].token = row[s][p].token + 1
      /\ row'[s][p] = Claimed(row[s][p], mgr[r].now)
  BY DEF TakesOver, Claimed
<1>3. mgr[r].now <= clock
  BY <1>1 DEF Times
<1>4. Times(r)'
  <2>1. Holds(r)' /\ Lease(r)'.stale = mgr[r].now + StaleTimeout
    BY <1>2 DEF Holds, Owns, Lease, Claimed
  <2>2. LeaseEnd(mgr[r])' = mgr[r].now + StaleTimeout
    BY <1>1, <1>2 DEF LeaseEnd
  <2>3. clock' <= mgr'[r].beat + HeartbeatInterval
    BY <1>1, <1>2
  <2> QED
    BY <1>1, <1>2, <1>3, <2>1, <2>2, <2>3 DEF Times
<1>5. ASSUME NEW q \in Runner \ {r} PROVE Times(q)'
  <2>1. /\ mgr'[q] = mgr[q] /\ Times(q) /\ Lease(q) \in Row
        /\ mgr[q].scope \in Scope /\ mgr[q].plan \in Plan
    BY <1>1, TimeTypes DEF TakesOver, TimesInv
  <2>2. CASE mgr[q].scope # s \/ mgr[q].plan # p
    <3>1. Lease(q)' = Lease(q)
      BY <2>1, <2>2 DEF TakesOver, Lease
    <3> QED
      BY <1>1, <1>2, <2>1, <3>1, Bystander
  <2>3. CASE mgr[q].scope = s /\ mgr[q].plan = p /\ mgr[q].at = "running"
    <3>1. Lease(q) = row[s][p] /\ Lease(q)'.token = row[s][p].token + 1
      BY <1>2, <2>1, <2>3 DEF Lease, Claimed
    <3>2. mgr[q].token <= Lease(q).token /\ mgr[q].token \in Nat
      BY <1>1, <2>3, OneManager, LeaseParts DEF HandlerLease
    <3>3. ~Holds(q)'
      BY <1>1, <2>1, <3>1, <3>2 DEF Holds, Owns, Row
    <3>4. Holds(q) => Lease(q).stale < clock
      BY <1>1, <1>3, <2>1, <3>1 DEF TakesOver, Claimable, Stale, Holds, Owns, Row
    <3> QED
      BY <1>1, <1>2, <2>1, <3>3, <3>4, Bystander
  <2>4. CASE mgr[q].at # "running"
    BY <1>1, <1>2, <2>1, <2>4, Bystander
  <2> QED
    BY <2>2, <2>3, <2>4
<1> QED
  BY <1>4, <1>5

\* A write to the lease r holds touches no lease that another handler holds.
LEMMA OthersTimes ==
  ASSUME TimesInv, NEW r \in Runner, Holds(r), NEW x \in Row, x.token = Lease(r).token,
         row' = [row EXCEPT ![mgr[r].scope][mgr[r].plan] = x], clock' = clock,
         NEW q \in Runner \ {r}, mgr'[q] = mgr[q]
  PROVE  Times(q)'
<1>1. /\ TypeOK /\ Times(q) /\ mgr[q].scope \in Scope /\ mgr[q].plan \in Plan
      /\ mgr[r].scope \in Scope /\ mgr[r].plan \in Plan
  BY Typed, OneManager DEF TimesInv
<1>2. CASE ~Same(r, q)
  <2>1. Lease(q)' = Lease(q)
    BY <1>1, <1>2, SetRow DEF Same, Lease
  <2> QED
    BY <1>1, <2>1, Bystander
<1>3. CASE Same(r, q) /\ mgr[q].at = "running"
  <2>1. ~Holds(q)
    BY <1>3, OneHolderOfLease DEF OneHolder, TimesInv
  <2>2. mgr[q].token # mgr[r].token
    BY <1>3, LeaseParts DEF HandlerLease, TimesInv, Holds
  <2>3. Lease(q)' = x
    <3>1. row'[mgr[r].scope][mgr[r].plan] = x
      BY <1>1, SetRow
    <3> QED
      BY <1>3, <3>1 DEF Same, Lease
  <2>4. ~Holds(q)'
    BY <2>2, <2>3 DEF Holds, Owns
  <2> QED
    BY <1>1, <2>1, <2>4, Bystander
<1>4. CASE mgr[q].at # "running"
  BY <1>1, <1>4, Bystander
<1> QED
  BY <1>2, <1>3, <1>4

LEMMA HeartbeatTimes ==
  ASSUME TimesInv, NEW r \in Runner, Heartbeat(r) PROVE \A q \in Runner : Times(q)'
<1> DEFINE m == [mgr[r] EXCEPT !.beat = clock]
           x == [row[mgr[r].scope][mgr[r].plan] EXCEPT !.stale = clock + StaleTimeout]
<1>1. /\ TypeOK /\ clock \in Nat /\ mgr[r] \in Manager /\ Times(r) /\ Holds(r)
      /\ mgr[r].scope \in Scope /\ mgr[r].plan \in Plan /\ Lease(r) \in Row
      /\ HeartbeatInterval \in Nat /\ StaleTimeout \in Nat
      /\ mgr[r].since \in Nat /\ mgr[r].beat \in Nat /\ mgr[r].now \in Nat
  BY Typed, OneManager, TimeTypes DEF TimesInv, Heartbeat
<1>2. /\ m \in Manager /\ m.at = "running" /\ m.now = mgr[r].now /\ m.since = mgr[r].since
      /\ m.scope = mgr[r].scope /\ m.plan = mgr[r].plan /\ m.token = mgr[r].token /\ m.beat = clock
  BY <1>1 DEF Manager, Holds
<1>3. /\ x \in Row /\ x.status = Lease(r).status /\ x.token = Lease(r).token
      /\ x.stale = clock + StaleTimeout
  <2>1. clock + StaleTimeout \in Nat
    BY <1>1
  <2> QED
    BY <1>1, <2>1 DEF Row, Lease
<1>4. /\ mgr' = [mgr EXCEPT ![r] = m] /\ clock' = clock /\ mgr[r].beat < clock
      /\ row' = [row EXCEPT ![mgr[r].scope][mgr[r].plan] = x]
  BY DEF Heartbeat
<1> HIDE DEF m, x
<1>5. /\ mgr'[r] = m /\ \A q \in Runner \ {r} : mgr'[q] = mgr[q]
      /\ row'[mgr[r].scope][mgr[r].plan] = x
  <2>1. mgr'[r] = m /\ \A q \in Runner \ {r} : mgr'[q] = mgr[q]
    BY <1>1, <1>2, <1>4, SetManager
  <2>2. row'[mgr[r].scope][mgr[r].plan] = x
    BY <1>1, <1>3, <1>4, SetRow
  <2> QED
    BY <2>1, <2>2
<1>6. Times(r)'
  <2>1. Lease(r)' = x /\ Holds(r)'
    BY <1>1, <1>2, <1>3, <1>5 DEF Lease, Holds, Owns
  <2>2. m.since <= clock /\ m.now <= clock /\ m.since < clock
    BY <1>1, <1>2, <1>4 DEF Times, Holds
  <2>3. LeaseEnd(m) = clock + StaleTimeout
    BY <1>1, <1>2, <2>2 DEF LeaseEnd
  <2>4. LeaseEnd(mgr[r])' = clock + StaleTimeout
    BY <1>5, <2>3 DEF LeaseEnd
  <2>5. clock <= clock + HeartbeatInterval /\ clock <= clock
    BY <1>1
  <2> QED
    BY <1>2, <1>3, <1>4, <1>5, <2>1, <2>2, <2>4, <2>5 DEF Times
<1>7. \A q \in Runner \ {r} : Times(q)'
  BY <1>1, <1>3, <1>4, <1>5, OthersTimes
<1> QED
  BY <1>6, <1>7

LEMMA FinishTimes ==
  ASSUME TimesInv, NEW r \in Runner, NEW ok \in BOOLEAN, Finish(r, ok)
  PROVE  \A q \in Runner : Times(q)'
<1> DEFINE x == Outcome(Lease(r), mgr[r], ok)
<1>1. /\ TypeOK /\ clock \in Nat /\ mgr[r] \in Manager /\ Times(r)
      /\ mgr[r].scope \in Scope /\ mgr[r].plan \in Plan /\ Lease(r) \in Row
  BY Typed, OneManager, TimeTypes DEF TimesInv
<1>2. mgr' = [mgr EXCEPT ![r] = Resume(mgr[r])] /\ clock' = clock /\ mgr[r].at = "running"
  BY DEF Finish
<1>3. CASE ~Holds(r)
  <2>1. row' = row
    BY <1>2, <1>3 DEF Finish, Holds
  <2> QED
    BY <1>1, <1>2, <2>1, ResumeTimes
<1>4. CASE Holds(r)
  <2>1. row' = [row EXCEPT ![mgr[r].scope][mgr[r].plan] = x]
    BY <1>1, <1>4 DEF Finish, Holds, Lease
  <2>2. x \in Row /\ x.token = Lease(r).token
    BY <1>1, <1>4, OutcomeType DEF RowKept, Holds
  <2>3. Resume(mgr[r]) \in Manager /\ Resume(mgr[r]).at \in {"claiming", "planning", "idle"}
    BY <1>1, ResumeType
  <2>4. mgr'[r] = Resume(mgr[r]) /\ \A q \in Runner \ {r} : mgr'[q] = mgr[q]
    BY <1>1, <1>2, <2>3, SetManager
  <2>5. Resume(mgr[r]).now \in {mgr[r].now, 0}
    BY <1>1 DEF Resume, Idle, Manager
  <2>6. Times(r)'
    BY <1>1, <1>2, <2>3, <2>4, <2>5, AtRest DEF Times
  <2> HIDE DEF x
  <2>7. \A q \in Runner \ {r} : Times(q)'
    BY <1>2, <1>4, <2>1, <2>2, <2>4, OthersTimes
  <2> QED
    BY <2>6, <2>7
<1> QED
  BY <1>3, <1>4

LEMMA CrashTimes ==
  ASSUME TimesInv, NEW r \in Runner, Crash(r) PROVE \A q \in Runner : Times(q)'
<1>1. clock \in Nat
  BY Typed DEF TimesInv
<1>2. Idle(clock) \in Manager /\ Idle(clock).at = "idle" /\ Idle(clock).now <= clock
  BY <1>1, IdleType DEF Idle
<1> QED
  BY <1>2, RestTimes DEF Crash

LEMMA InitTimes == Init => TimesInv
<1> SUFFICES ASSUME Init PROVE TimesInv
  OBVIOUS
<1>1. \A r \in Runner : mgr[r].at = "idle" /\ mgr[r].now = 0 /\ clock = 0
  BY DEF Init, Idle
<1> QED
  BY <1>1, InitLease DEF TimesInv, Times

LEMMA NextTimes == TimesInv /\ [Next]_cronVars => TimesInv'
<1> SUFFICES ASSUME TimesInv, [Next]_cronVars PROVE \A r \in Runner : Times(r)'
  BY NextLease DEF TimesInv
<1>1. LeaseInv /\ TypeOK
  BY Typed DEF TimesInv
<1>2. CASE UNCHANGED cronVars
  BY <1>1, <1>2, Bystander DEF cronVars, Lease, TimesInv
<1>3. ASSUME NEW r \in Runner, NEW s \in Scope, NEW p \in Plan, Claim(r, s, p)
      PROVE  \A q \in Runner : Times(q)'
  BY <1>1, <1>3, ClaimTakesOver, TakeOverTimes, PassOverTimes
<1>4. ASSUME NEW r \in Runner, Step(r) PROVE \A q \in Runner : Times(q)'
  BY <1>3, <1>4, TickTimes, SweepTimes, PlanScopeTimes, FinishTimes DEF Step
<1> QED
  BY <1>2, <1>4, AdvanceTimes, HeartbeatTimes, CrashTimes DEF Next

\* No handler is swept or overtaken before the end of the lease it wrote last,
\* with any number of servers, crashes and takeovers; and if heartbeats fire in
\* time, none but one that was claimed late in its tick.
THEOREM LeasesRespected == Spec => []LeaseRespected
<1>1. TimesInv => LeaseRespected
  BY DEF TimesInv, Times, LeaseRespected
<1> QED
  BY <1>1, InitTimes, NextTimes, PTL DEF Spec
=============================================================================
