--------------------------- MODULE CronPlanProofs ---------------------------
(***************************************************************************)
(* What every_plan leaves out: nothing, as long as it is within the        *)
(* window.  A manager works off a list of plans it made some time ago,     *)
(* while others plan, claim and finish.  What makes that safe is a relation *)
(* of each list to the claimed plans, which every claim keeps: from any     *)
(* claimed plan on, a list has no hole that is not claimed or too old.     *)
(***************************************************************************)
EXTENDS CronSchedulerProofs

-----------------------------------------------------------------------------
(* The grid of plans                                                       *)

LEMMA TimesMonotone ==
  ASSUME NEW a \in Nat, NEW b \in Nat, NEW c \in Nat, a <= b PROVE a * c <= b * c
  OBVIOUS

LEMMA GridStep ==
  ASSUME NEW p \in Nat, NEW q \in Nat, p % Cadence = 0, q % Cadence = 0, p < q
  PROVE  \E k \in Nat : k >= 1 /\ q = p + k * Cadence
<1>1. Cadence \in Nat /\ Cadence > 0
  BY SchedulerAssumption DEF SchedulerAssumption
<1> DEFINE i == p \div Cadence
           j == q \div Cadence
<1>2. i \in Nat /\ j \in Nat /\ p = i * Cadence /\ q = j * Cadence
  BY <1>1
<1> HIDE DEF i, j
<1>3. j > i
  <2>1. SUFFICES ASSUME j <= i PROVE FALSE
    BY <1>2
  <2>2. j * Cadence <= i * Cadence
    BY <1>1, <1>2, <2>1, TimesMonotone
  <2> QED
    BY <1>1, <1>2, <2>2
<1>4. q = p + (j - i) * Cadence
  BY <1>1, <1>2
<1> QED
  BY <1>2, <1>3, <1>4

LEMMA GridNext ==
  ASSUME NEW p \in Nat, NEW q \in Nat, p % Cadence = 0, q % Cadence = 0, p < q
  PROVE  p + Cadence <= q
<1>1. PICK k \in Nat : k >= 1 /\ q = p + k * Cadence
  BY GridStep
<1>2. Cadence \in Nat
  BY SchedulerAssumption DEF SchedulerAssumption
<1>3. 1 * Cadence <= k * Cadence
  BY <1>1, <1>2, TimesMonotone
<1> QED
  BY <1>1, <1>2, <1>3

LEMMA Multiple ==
  ASSUME NEW p \in Nat, p % Cadence = 0
  PROVE  (p + Cadence) % Cadence = 0
<1> DEFINE i == p \div Cadence
<1>1. Cadence \in Nat \ {0}
  BY SchedulerAssumption DEF SchedulerAssumption
<1>2. i \in Nat /\ p = i * Cadence
  BY <1>1
<1> HIDE DEF i
<1>3. \A k \in Nat : (k * Cadence) % Cadence = 0
  BY <1>1
<1>4. i + 1 \in Nat /\ p + Cadence = (i + 1) * Cadence
  BY <1>1, <1>2
<1> QED
  BY <1>3, <1>4

LEMMA Floor ==
  ASSUME NEW t \in Nat
  PROVE  /\ FloorPlan(t) \in Nat /\ FloorPlan(t) % Cadence = 0
         /\ FloorPlan(t) <= t /\ t < FloorPlan(t) + Cadence
<1>1. Cadence \in Nat \ {0}
  BY SchedulerAssumption DEF SchedulerAssumption
<1>2. t % Cadence \in 0..(Cadence - 1) /\ t = Cadence * (t \div Cadence) + (t % Cadence)
      /\ t \div Cadence \in Nat
  BY <1>1
<1>3. FloorPlan(t) = (t \div Cadence) * Cadence
  BY <1>1, <1>2 DEF FloorPlan
<1>4. ((t \div Cadence) * Cadence) % Cadence = 0
  <2> DEFINE k == t \div Cadence
  <2>1. k \in Nat
    BY <1>2
  <2> HIDE DEF k
  <2>2. (k * Cadence) % Cadence = 0
    BY <1>1, <2>1
  <2> QED
    BY <2>2 DEF k
<1> QED
  BY <1>1, <1>2, <1>3, <1>4 DEF FloorPlan

\* The list holds every plan of the grid between its first and any of its own.
LEMMA NoHoles ==
  ASSUME NEW start \in Nat, start % Cadence = 0, NEW latest \in Nat,
         NEW p \in PlansFrom(start, latest), NEW t \in Plan, start <= t, t < p
  PROVE  t \in PlansFrom(start, latest) /\ start <= p /\ p <= latest
<1>1. Cadence \in Nat \ {0} /\ MaxPlansPerTick \in Nat \ {0}
  BY SchedulerAssumption DEF SchedulerAssumption
<1>2. PICK k \in 0..(MaxPlansPerTick - 1) : p = start + k * Cadence /\ p <= latest
  BY DEF PlansFrom
<1>3. t \in Nat /\ t % Cadence = 0
  BY PlanFacts DEF Plan
<1>4. CASE t = start
  <2>1. t = start + 0 * Cadence /\ 0 \in 0..(MaxPlansPerTick - 1)
    BY <1>1, <1>4
  <2>2. k * Cadence \in Nat
    BY <1>1, <1>2
  <2> QED
    BY <1>2, <1>3, <2>1, <2>2 DEF PlansFrom
<1>5. CASE t > start
  <2>1. PICK j \in Nat : j >= 1 /\ t = start + j * Cadence
    BY <1>3, <1>5, GridStep
  <2>2. j < k
    <3>1. SUFFICES ASSUME k <= j PROVE FALSE
      BY <1>2, <2>1
    <3>2. k * Cadence <= j * Cadence
      BY <1>1, <1>2, <2>1, <3>1, TimesMonotone
    <3>3. k * Cadence \in Nat /\ j * Cadence \in Nat
      BY <1>1, <1>2, <2>1
    <3> QED
      BY <1>2, <2>1, <3>2, <3>3
  <2>3. k * Cadence \in Nat
    BY <1>1, <1>2
  <2> QED
    BY <1>1, <1>2, <1>3, <2>1, <2>2, <2>3 DEF PlansFrom
<1> QED
  BY <1>3, <1>4, <1>5

LEMMA FromStart ==
  ASSUME NEW start \in Nat, NEW latest \in Nat, NEW p \in PlansFrom(start, latest)
  PROVE  start <= p /\ p <= latest /\ p \in Nat
<1>1. PICK k \in 0..(MaxPlansPerTick - 1) : p = start + k * Cadence /\ p <= latest
  BY DEF PlansFrom
<1>2. Cadence \in Nat /\ MaxPlansPerTick \in Nat \ {0}
  BY SchedulerAssumption DEF SchedulerAssumption
<1>3. k * Cadence \in Nat
  BY <1>1, <1>2
<1> QED
  BY <1>1, <1>3

-----------------------------------------------------------------------------
(* The invariant                                                           *)

Known == UNION {Rows(s) : s \in Scope}
GoneBy(t, now) == t + CatchUpWindow < now

\* The claimed plans R: between two of them only what has left the window is
\* missing; and there is a latest one.
Calendar(R, now) ==
  /\ \A p, q \in R : \A t \in Plan : p < t /\ t < q => t \in R \/ GoneBy(t, now)
  /\ R # {} => \E p \in R : \A q \in R : q <= p

\* A list T against the claimed plans R.  The last conjunct keeps a claim from
\* opening a hole below the first claimed plan, the first one makes all who
\* plan an empty scope plan the same execution.
Outlook(T, R, now) ==
  /\ R = {} => T \subseteq {FloorPlan(now - ScheduleDelay)}
  /\ \A p \in T, q \in R, t \in Plan : q < t /\ t < p => t \in R \cup T \/ GoneBy(t, now)
  /\ R # {} => \A p \in T : \E q \in R : q <= p

Follows(m, R, now) ==
  /\ m.now <= now
  /\ m.at \in {"idle", "ticked", "planning"} => m.todo = {}
  /\ m.at = "running" => m.plan \in R
  /\ R = {} /\ m.at # "idle" => m.now = now
  /\ Outlook(m.todo, R, now)

PlanInv ==
  /\ LeaseInv /\ clock \in Time
  /\ Calendar(Known, clock)
  /\ \A r \in Runner : Follows(mgr[r], Known, clock)

OneScope == \A s, t \in Scope : s = t

LEMMA KnownRows ==
  ASSUME OneScope, NEW s \in Scope PROVE Known = Rows(s)
  BY DEF OneScope, Known

LEMMA KnownPlans == Known \in SUBSET Plan
  BY DEF Known, Rows

LEMMA TimeFacts == \A t \in Time : t \in Nat
  BY DEF Time

\* Where EveryPlan starts: the oldest time of the window, the first plan in it.
Oldest(now, latest) == IF CatchUpWindow = 0 THEN latest ELSE Before(now, CatchUpWindow)
RoundUp(t) == IF FloorPlan(t) < t THEN FloorPlan(t) + Cadence ELSE FloorPlan(t)
FirstPlan(start, oldest) == IF start < oldest THEN RoundUp(oldest) ELSE start

LEMMA EveryPlanParts ==
  ASSUME NEW s \in Scope, NEW now, NEW latest
  PROVE  \E start : /\ start = IF Rows(s) = {} THEN latest
                               ELSE IF RetryEligible(s, now) THEN LatestPlan(s)
                               ELSE LatestPlan(s) + Cadence
                    /\ EveryPlan(s, now, latest)
                         = PlansFrom(FirstPlan(start, Oldest(now, latest)), latest)
  BY DEF EveryPlan, FirstPlan, RoundUp, Oldest

LEMMA OldestType ==
  ASSUME NEW now \in Nat, NEW latest \in Nat PROVE Oldest(now, latest) \in Nat
  BY SchedulerAssumption DEF SchedulerAssumption, Oldest, Before

LEMMA RoundUpFacts ==
  ASSUME NEW t \in Nat
  PROVE  /\ RoundUp(t) \in Nat /\ RoundUp(t) % Cadence = 0 /\ RoundUp(t) >= t
         /\ \A q \in Plan : q < RoundUp(t) => q < t
<1>1. Cadence \in Nat \ {0} /\ Plan \subseteq Nat
  BY SchedulerAssumption, PlanFacts DEF SchedulerAssumption
<1>2. /\ FloorPlan(t) \in Nat /\ FloorPlan(t) % Cadence = 0
      /\ FloorPlan(t) <= t /\ t < FloorPlan(t) + Cadence
  BY Floor
<1>3. RoundUp(t) \in Nat /\ RoundUp(t) % Cadence = 0 /\ RoundUp(t) >= t
  BY <1>1, <1>2, Multiple DEF RoundUp
<1>4. ASSUME NEW q \in Plan, q < RoundUp(t), t <= q PROVE FALSE
  <2>1. q \in Nat /\ q % Cadence = 0
    BY <1>1 DEF Plan
  <2>2. RoundUp(t) = FloorPlan(t) + Cadence /\ FloorPlan(t) < t
    BY <1>2, <1>4, <2>1 DEF RoundUp
  <2>3. FloorPlan(t) + Cadence <= q
    BY <1>2, <1>4, <2>1, <2>2, GridNext
  <2> QED
    BY <1>1, <1>2, <1>4, <2>1, <2>2, <2>3
<1> QED
  BY <1>1, <1>3, <1>4

\* A list made from the latest claimed plan on, at a time now, keeps to the
\* calendar at any later time.
LEMMA PlanFromLatest ==
  ASSUME NEW R \in SUBSET Plan, NEW now \in Nat, NEW time \in Nat, now <= time,
         Calendar(R, time),
         NEW L \in R, \A q \in R : q <= L,
         NEW start \in {L, L + Cadence}, NEW latest \in Nat, latest <= now
  PROVE  Outlook(Plan \cap PlansFrom(FirstPlan(start, Oldest(now, latest)), latest), R, time)
<1> DEFINE oldest == Oldest(now, latest)
           first == FirstPlan(start, oldest)
           T == Plan \cap PlansFrom(first, latest)
<1>1. /\ Cadence \in Nat \ {0} /\ CatchUpWindow \in Nat
      /\ L \in Nat /\ L % Cadence = 0 /\ start \in Nat /\ R # {}
  BY SchedulerAssumption, PlanFacts DEF SchedulerAssumption, Plan
<1>2. start % Cadence = 0
  BY <1>1, Multiple
<1>3. oldest \in Nat
  BY OldestType
<1>4. /\ RoundUp(oldest) \in Nat /\ RoundUp(oldest) % Cadence = 0 /\ RoundUp(oldest) >= oldest
      /\ \A q \in Plan : q < RoundUp(oldest) => q < oldest
  <2> HIDE DEF oldest
  <2> QED
    BY <1>3, RoundUpFacts
<1>5. /\ first \in Nat /\ first % Cadence = 0 /\ first >= start /\ first >= L
      /\ first # start => first = RoundUp(oldest)
  BY <1>1, <1>2, <1>3, <1>4 DEF FirstPlan
<1> HIDE DEF oldest, first
<1>6. \A p \in T : p \in Nat /\ first <= p /\ p <= latest /\ L <= p
  BY <1>1, <1>5, FromStart
<1>7. ASSUME NEW p \in T, NEW q \in R, NEW t \in Plan, q < t, t < p
      PROVE  t \in R \cup T \/ GoneBy(t, time)
  <2>1. t \in Nat /\ t % Cadence = 0 /\ p \in PlansFrom(first, latest) /\ p \in Nat
    BY <1>6, PlanFacts DEF Plan
  <2>2. CASE t <= L
    BY <1>1, <1>7, <2>1, <2>2 DEF Calendar
  <2>3. CASE t > L /\ t >= first
    <3>1. t \in PlansFrom(first, latest)
      BY <1>5, <1>7, <2>1, <2>3, NoHoles
    <3> QED
      BY <1>7, <3>1
  <2>4. CASE t > L /\ t < first
    <3>1. L + Cadence <= t
      BY <1>1, <2>1, <2>4, GridNext
    <3>2. start <= t
      BY <1>1, <2>1, <2>4, <3>1
    <3>3. first = RoundUp(oldest)
      BY <1>1, <1>5, <2>1, <2>4, <3>2
    <3>4. t < oldest
      BY <1>4, <2>4, <3>3
    <3> QED
      BY <1>1, <1>3, <1>7, <2>1, <3>4, FromStart DEF GoneBy, Before, Oldest, oldest
  <2> QED
    BY <1>1, <1>5, <2>1, <2>2, <2>3, <2>4
<1>8. \A p \in T : \E q \in R : q <= p
  BY <1>6
<1>9. Outlook(T, R, time)
  BY <1>1, <1>7, <1>8 DEF Outlook
<1> QED
  BY <1>9 DEF first, oldest

\* A manager plans within the window, and the first plan if there is none.
LEMMA TickOutlook ==
  ASSUME Mode = "every_plan", OneScope, NEW s \in Scope,
         NEW now \in Nat, NEW time \in Nat, now <= time,
         Calendar(Known, time), Known = {} => now = time
  PROVE  Outlook(PlansForTick(s, now), Known, time)
<1> DEFINE latest == FloorPlan(now - ScheduleDelay)
           oldest == Oldest(now, latest)
           T == PlansForTick(s, now)
<1>1. /\ Cadence \in Nat \ {0} /\ ScheduleDelay \in Nat
      /\ Known \in SUBSET Plan /\ Plan \subseteq Nat /\ Known = Rows(s)
  BY SchedulerAssumption, PlanFacts, KnownPlans, KnownRows DEF SchedulerAssumption
<1>2. CASE now < ScheduleDelay
  <2>1. T = {}
    BY <1>2 DEF PlansForTick
  <2> QED
    BY <2>1 DEF Outlook
<1>3. CASE now >= ScheduleDelay
  <2>1. latest \in Nat /\ latest <= now
    <3>1. now - ScheduleDelay \in Nat /\ now - ScheduleDelay <= now
      BY <1>1, <1>3
    <3>2. latest <= now - ScheduleDelay
      BY <3>1, Floor
    <3> QED
      BY <1>1, <3>1, <3>2, Floor
  <2>2. T = Plan \cap EveryPlan(s, now, latest)
    BY <1>1, <1>3 DEF PlansForTick
  <2>3. PICK start : /\ start = IF Known = {} THEN latest
                                ELSE IF RetryEligible(s, now) THEN LatestPlan(s)
                                ELSE LatestPlan(s) + Cadence
                     /\ T = Plan \cap PlansFrom(FirstPlan(start, oldest), latest)
    BY <1>1, <2>2, EveryPlanParts
  <2>4. oldest \in Nat
    BY <2>1, OldestType
  <2> HIDE DEF T, latest, oldest
  <2>5. CASE Known = {}
    <3>1. start = latest /\ now = time
      BY <2>3, <2>5
    <3>2. FirstPlan(start, oldest) \in Nat /\ FirstPlan(start, oldest) >= latest
      BY <2>1, <2>4, <3>1, RoundUpFacts DEF FirstPlan
    <3>3. \A p \in T : p = latest
      BY <2>1, <2>3, <3>2, FromStart
    <3>4. Outlook(T, Known, time)
      BY <2>5, <3>1, <3>3 DEF Outlook, latest
    <3> QED
      BY <3>4 DEF T
  <2>6. CASE Known # {}
    <3>1. PICK L \in Known : \A q \in Known : q <= L
      BY <2>6 DEF Calendar
    <3>2. LatestPlan(s) = L
      <4>1. LatestPlan(s) \in Known /\ \A q \in Known : q <= LatestPlan(s)
        BY <1>1, <3>1 DEF LatestPlan
      <4>2. LatestPlan(s) <= L /\ L <= LatestPlan(s) /\ LatestPlan(s) \in Nat /\ L \in Nat
        BY <1>1, <3>1, <4>1
      <4> QED
        BY <4>2
    <3>3. start \in {L, L + Cadence}
      BY <2>3, <2>6, <3>2
    <3>4. Outlook(T, Known, time)
      BY <1>1, <2>1, <2>3, <3>1, <3>3, PlanFromLatest DEF oldest
    <3> QED
      BY <3>4 DEF T
  <2> QED
    BY <2>5, <2>6
<1> QED
  BY <1>1, <1>2, <1>3

-----------------------------------------------------------------------------
(* What a claim does to the calendar and to the lists                      *)

LEMMA ClaimCalendar ==
  ASSUME NEW R \in SUBSET Plan, NEW T \in SUBSET Plan, NEW now \in Nat, NEW p \in T,
         \A q \in T : p <= q, Calendar(R, now), Outlook(T, R, now)
  PROVE  Calendar(R \cup {p}, now)
<1>1. Plan \subseteq Nat /\ p \in Nat /\ \A q \in R : q \in Nat
  BY PlanFacts
<1>2. ASSUME NEW a \in R \cup {p}, NEW b \in R \cup {p}, NEW t \in Plan, a < t, t < b
      PROVE  t \in R \/ GoneBy(t, now)
  <2>1. t \in Nat /\ a \in Nat /\ b \in Nat
    BY <1>1, <1>2
  <2>2. CASE a \in R /\ b \in R
    BY <1>2, <2>2 DEF Calendar
  <2>3. CASE a \in R /\ b = p
    <3>1. t \in R \cup T \/ GoneBy(t, now)
      BY <1>2, <2>3 DEF Outlook
    <3>2. t \notin T
      BY <1>1, <1>2, <2>1, <2>3
    <3> QED
      BY <3>1, <3>2
  <2>4. CASE a = p /\ b \in R
    <3>1. PICK q \in R : q <= p
      BY <2>4 DEF Outlook
    <3>2. q < t
      BY <1>1, <1>2, <2>1, <2>4, <3>1
    <3> QED
      BY <1>2, <2>4, <3>1, <3>2 DEF Calendar
  <2> QED
    BY <1>1, <1>2, <2>1, <2>2, <2>3, <2>4
<1>3. \E a \in R \cup {p} : \A q \in R \cup {p} : q <= a
  <2>1. CASE R = {}
    BY <1>1, <2>1
  <2>2. CASE R # {}
    <3>1. PICK a \in R : \A q \in R : q <= a
      BY <2>2 DEF Calendar
    <3>2. CASE p <= a
      BY <3>1, <3>2
    <3>3. CASE a < p
      BY <1>1, <3>1, <3>3
    <3> QED
      BY <1>1, <3>1, <3>2, <3>3
  <2> QED
    BY <2>1, <2>2
<1> QED
  BY <1>2, <1>3 DEF Calendar

LEMMA ClaimOutlook ==
  ASSUME NEW R \in SUBSET Plan, NEW T \in SUBSET Plan, NEW U \in SUBSET Plan,
         NEW now \in Nat, NEW p \in T, Outlook(T, R, now), Outlook(U, R, now)
  PROVE  Outlook(U, R \cup {p}, now)
<1>1. Plan \subseteq Nat /\ p \in Nat /\ \A q \in R \cup U : q \in Nat
  BY PlanFacts
<1>2. CASE R = {}
  <2>1. \A u \in U : u = p
    BY <1>2 DEF Outlook
  <2> QED
    BY <1>1, <1>2, <2>1 DEF Outlook
<1>3. CASE R # {}
  <2>1. PICK a \in R : a <= p
    BY <1>3 DEF Outlook
  <2>2. ASSUME NEW u \in U, NEW q \in R \cup {p}, NEW t \in Plan, q < t, t < u
        PROVE  t \in (R \cup {p}) \cup U \/ GoneBy(t, now)
    <3>1. CASE q \in R
      BY <2>2, <3>1 DEF Outlook
    <3>2. CASE q = p
      <4>1. a < t
        BY <1>1, <2>1, <2>2, <3>2
      <4> QED
        BY <2>1, <2>2, <4>1 DEF Outlook
    <3> QED
      BY <2>2, <3>1, <3>2
  <2>3. \A u \in U : \E q \in R \cup {p} : q <= u
    BY <1>3 DEF Outlook
  <2> QED
    BY <2>2, <2>3 DEF Outlook
<1> QED
  BY <1>2, <1>3

\* A claimed plan leaves the list.
LEMMA OutlookPast ==
  ASSUME NEW R, NEW T, NEW now, NEW p \in R, Outlook(T, R, now)
  PROVE  Outlook(T \ {p}, R, now)
  BY DEF Outlook

LEMMA OutlookEmpty == \A R, now : Outlook({}, R, now)
  BY DEF Outlook

-----------------------------------------------------------------------------
(* The steps of a manager                                                  *)

LEMMA OutlookLater ==
  ASSUME NEW R, NEW T, NEW now \in Nat, Outlook(T, R, now), R # {} \/ T = {}
  PROVE  Outlook(T, R, now + 1)
<1>1. \A t \in Plan : GoneBy(t, now) => GoneBy(t, now + 1)
  BY PlanFacts, SchedulerAssumption DEF SchedulerAssumption, GoneBy
<1> QED
  BY <1>1 DEF Outlook

LEMMA CalendarLater ==
  ASSUME NEW R, NEW now \in Nat, Calendar(R, now) PROVE Calendar(R, now + 1)
<1>1. \A t \in Plan : GoneBy(t, now) => GoneBy(t, now + 1)
  BY PlanFacts, SchedulerAssumption DEF SchedulerAssumption, GoneBy
<1> QED
  BY <1>1 DEF Calendar

LEMMA FollowsIdle ==
  ASSUME NEW R, NEW now \in Nat, NEW wake PROVE Follows(Idle(wake), R, now)
  BY OutlookEmpty DEF Follows, Idle

LEMMA FollowsResume ==
  ASSUME NEW R, NEW now \in Nat, NEW m \in Manager,
         m.now <= now, R = {} => m.now = now, Outlook(m.todo, R, now)
  PROVE  Follows(Resume(m), R, now)
<1>1. CASE Resume(m).at = "idle"
  <2>1. Resume(m) = Idle(m.wake)
    <3>1. [m EXCEPT !.at = "claiming"].at = "claiming" /\ [m EXCEPT !.at = "planning"].at = "planning"
      BY DEF Manager
    <3> QED
      BY <1>1, <3>1 DEF Resume
  <2> QED
    BY <2>1, FollowsIdle
<1>2. CASE Resume(m).at # "idle"
  BY <1>2, ResumeType DEF Follows
<1> QED
  BY <1>1, <1>2

LEMMA RowsKept == KeepsLeases => Known' = Known
  BY DEF KeepsLeases, RowKept, Known, Rows

\* A step of manager r that claims nothing.
LEMMA QuietPlans ==
  ASSUME PlanInv, LeaseInv', KeepsLeases, clock' = clock, NEW r \in Runner,
         \A q \in Runner \ {r} : mgr'[q] = mgr[q],
         NEW m, mgr'[r] = m, Follows(m, Known, clock)
  PROVE  PlanInv'
<1>1. Known' = Known
  BY RowsKept
<1>2. \A q \in Runner : Follows(mgr'[q], Known', clock')
  BY <1>1 DEF PlanInv
<1>3. Calendar(Known', clock') /\ clock' \in Time
  BY <1>1 DEF PlanInv
<1> QED
  BY <1>2, <1>3 DEF PlanInv

LEMMA PlanParts ==
  PlanInv => /\ LeaseInv /\ TypeOK /\ clock \in Time /\ clock \in Nat
             /\ Calendar(Known, clock) /\ Known \in SUBSET Plan
             /\ \A r \in Runner : Follows(mgr[r], Known, clock) /\ Outlook(mgr[r].todo, Known, clock)
  BY Typed, KnownPlans DEF PlanInv, Follows

LEMMA TickPlans == ASSUME PlanInv, LeaseInv', NEW r \in Runner, Tick(r) PROVE PlanInv'
<1> DEFINE m == [mgr[r] EXCEPT !.at = "ticked", !.now = clock, !.scopes = Scope,
                              !.wake = clock + TickInterval]
<1>1. TypeOK /\ LeaseInv /\ mgr[r] \in Manager /\ clock \in Nat /\ Follows(mgr[r], Known, clock)
  BY PlanParts, OneManager
<1>2. mgr' = [mgr EXCEPT ![r] = m] /\ clock' = clock /\ KeepsLeases /\ mgr[r].at = "idle"
  BY <1>1, TickQuiet DEF Tick
<1>3. m.todo = {} /\ m.at = "ticked" /\ m.now = clock
  BY <1>1, <1>2 DEF Manager, Follows
<1>4. mgr'[r] = m /\ \A q \in Runner \ {r} : mgr'[q] = mgr[q]
  BY <1>1, <1>2 DEF TypeOK
<1> HIDE DEF m
<1>5. Follows(m, Known, clock)
  BY <1>1, <1>3, OutlookEmpty DEF Follows
<1> QED
  BY <1>2, <1>4, <1>5, QuietPlans

LEMMA SweepPlans == ASSUME PlanInv, LeaseInv', NEW r \in Runner, Sweep(r) PROVE PlanInv'
<1> DEFINE m == [mgr[r] EXCEPT !.at = "planning"]
<1>1. TypeOK /\ LeaseInv /\ mgr[r] \in Manager /\ clock \in Nat /\ Follows(mgr[r], Known, clock)
  BY PlanParts, OneManager
<1>2. mgr' = [mgr EXCEPT ![r] = m] /\ clock' = clock /\ KeepsLeases /\ mgr[r].at = "ticked"
  BY <1>1, SweepQuiet DEF Sweep
<1>3. m.todo = {} /\ m.at = "planning" /\ m.now = mgr[r].now
  BY <1>1, <1>2 DEF Manager, Follows
<1>4. mgr'[r] = m /\ \A q \in Runner \ {r} : mgr'[q] = mgr[q]
  BY <1>1, <1>2 DEF TypeOK
<1> HIDE DEF m
<1>5. Follows(m, Known, clock)
  BY <1>1, <1>2, <1>3, OutlookEmpty DEF Follows
<1> QED
  BY <1>2, <1>4, <1>5, QuietPlans

LEMMA PlanScopePlans ==
  ASSUME Mode = "every_plan", OneScope, PlanInv, LeaseInv', NEW r \in Runner, NEW s \in Scope,
         PlanScope(r, s)
  PROVE  PlanInv'
<1> DEFINE m == Planned(mgr[r], s)
<1>1. /\ TypeOK /\ LeaseInv /\ mgr[r] \in Manager /\ mgr[r].now \in Nat /\ clock \in Nat
      /\ Follows(mgr[r], Known, clock) /\ Calendar(Known, clock)
  BY PlanParts, OneManager
<1>2. /\ mgr' = [mgr EXCEPT ![r] = Resume(m)] /\ clock' = clock /\ KeepsLeases
      /\ mgr[r].at = "planning"
  BY <1>1, PlanScopeQuiet DEF PlanScope
<1>3. m \in Manager /\ m.now = mgr[r].now /\ m.todo = PlansForTick(s, mgr[r].now)
  BY <1>1, PlannedType
<1>4. m.now <= clock /\ (Known = {} => m.now = clock)
  BY <1>1, <1>2, <1>3 DEF Follows
<1> HIDE DEF m
<1>5. Outlook(m.todo, Known, clock)
  BY <1>1, <1>3, <1>4, TickOutlook
<1>6. Follows(Resume(m), Known, clock)
  BY <1>1, <1>3, <1>4, <1>5, FollowsResume
<1>7. mgr'[r] = Resume(m) /\ \A q \in Runner \ {r} : mgr'[q] = mgr[q]
  BY <1>1, <1>2 DEF TypeOK
<1> QED
  BY <1>2, <1>6, <1>7, QuietPlans

LEMMA PassOverPlans ==
  ASSUME PlanInv, LeaseInv', NEW r \in Runner, NEW s \in Scope, NEW p \in Plan, Claim(r, s, p),
         ~Claimable(row[s][p], mgr[r].now)
  PROVE  PlanInv'
<1> DEFINE m == [mgr[r] EXCEPT !.todo = mgr[r].todo \ {p}]
<1>1. /\ TypeOK /\ LeaseInv /\ mgr[r] \in Manager /\ clock \in Nat
      /\ Follows(mgr[r], Known, clock) /\ Outlook(mgr[r].todo, Known, clock)
  BY PlanParts, OneManager
<1>2. /\ mgr' = [mgr EXCEPT ![r] = Resume(m)] /\ clock' = clock /\ KeepsLeases
      /\ mgr[r].at = "claiming"
  BY <1>1, PassOverQuiet DEF Claim
<1>3. p \in Known
  BY DEF Claimable, Known, Rows
<1>4. /\ m \in Manager /\ m.todo = mgr[r].todo \ {p} /\ m.now <= clock
      /\ Known = {} => m.now = clock
  BY <1>1, <1>2 DEF Manager, Follows
<1> HIDE DEF m
<1>5. Outlook(m.todo, Known, clock)
  BY <1>1, <1>3, <1>4, OutlookPast
<1>6. Follows(Resume(m), Known, clock)
  BY <1>1, <1>4, <1>5, FollowsResume
<1>7. mgr'[r] = Resume(m) /\ \A q \in Runner \ {r} : mgr'[q] = mgr[q]
  BY <1>1, <1>2 DEF TypeOK
<1> QED
  BY <1>2, <1>6, <1>7, QuietPlans

LEMMA HeartbeatPlans ==
  ASSUME PlanInv, LeaseInv', NEW r \in Runner, Heartbeat(r) PROVE PlanInv'
<1> DEFINE m == [mgr[r] EXCEPT !.beat = clock]
<1>1. TypeOK /\ LeaseInv /\ mgr[r] \in Manager /\ clock \in Nat /\ Follows(mgr[r], Known, clock)
  BY PlanParts, OneManager
<1>2. mgr' = [mgr EXCEPT ![r] = m] /\ clock' = clock /\ KeepsLeases
  BY <1>1, HeartbeatQuiet DEF Heartbeat
<1>3. m.todo = mgr[r].todo /\ m.at = mgr[r].at /\ m.now = mgr[r].now /\ m.plan = mgr[r].plan
  BY <1>1 DEF Manager
<1>4. mgr'[r] = m /\ \A q \in Runner \ {r} : mgr'[q] = mgr[q]
  BY <1>1, <1>2 DEF TypeOK
<1> HIDE DEF m
<1>5. Follows(m, Known, clock)
  BY <1>1, <1>3 DEF Follows
<1> QED
  BY <1>2, <1>4, <1>5, QuietPlans

LEMMA FinishPlans ==
  ASSUME PlanInv, LeaseInv', NEW r \in Runner, NEW ok \in BOOLEAN, Finish(r, ok)
  PROVE  PlanInv'
<1>1. /\ TypeOK /\ LeaseInv /\ mgr[r] \in Manager /\ clock \in Nat
      /\ Follows(mgr[r], Known, clock) /\ Outlook(mgr[r].todo, Known, clock)
  BY PlanParts, OneManager
<1>2. /\ mgr' = [mgr EXCEPT ![r] = Resume(mgr[r])] /\ clock' = clock /\ KeepsLeases
      /\ mgr[r].at = "running"
  BY <1>1, FinishQuiet DEF Finish
<1>3. mgr[r].now <= clock /\ Known # {}
  BY <1>1, <1>2 DEF Follows
<1>4. Follows(Resume(mgr[r]), Known, clock)
  BY <1>1, <1>3, FollowsResume
<1>5. mgr'[r] = Resume(mgr[r]) /\ \A q \in Runner \ {r} : mgr'[q] = mgr[q]
  BY <1>1, <1>2 DEF TypeOK
<1> QED
  BY <1>2, <1>4, <1>5, QuietPlans

LEMMA CrashPlans == ASSUME PlanInv, LeaseInv', NEW r \in Runner, Crash(r) PROVE PlanInv'
<1>1. TypeOK /\ LeaseInv /\ clock \in Nat
  BY PlanParts
<1>2. mgr' = [mgr EXCEPT ![r] = Idle(clock)] /\ clock' = clock /\ KeepsLeases
  BY <1>1, CrashQuiet DEF Crash
<1>3. Follows(Idle(clock), Known, clock)
  BY <1>1, FollowsIdle
<1>4. mgr'[r] = Idle(clock) /\ \A q \in Runner \ {r} : mgr'[q] = mgr[q]
  BY <1>1, <1>2 DEF TypeOK
<1> QED
  BY <1>2, <1>3, <1>4, QuietPlans

\* Time passes only when nobody is about to plan or claim an empty scope.
LEMMA AdvancePlans == ASSUME Prompt, PlanInv, LeaseInv', Advance PROVE PlanInv'
<1>1. /\ TypeOK /\ LeaseInv /\ clock \in Nat /\ Calendar(Known, clock)
      /\ clock' = clock + 1 /\ clock' \in Time /\ mgr' = mgr /\ row' = row
  BY PlanParts, SchedulerAssumption DEF Advance, Time, SchedulerAssumption
<1>2. Known' = Known
  BY <1>1 DEF Known, Rows
<1>3. Calendar(Known, clock + 1)
  BY <1>1, CalendarLater
<1>4. ASSUME NEW r \in Runner PROVE Follows(mgr[r], Known, clock + 1)
  <2>1. /\ Follows(mgr[r], Known, clock) /\ Outlook(mgr[r].todo, Known, clock)
        /\ InTime(r) /\ mgr[r].now \in Nat
    BY <1>1, PlanParts, OneManager DEF Advance
  <2>2. mgr[r].at \in {"idle", "running"}
    BY <2>1 DEF InTime
  <2>3. Known = {} => mgr[r].at = "idle" /\ mgr[r].todo = {}
    BY <2>1, <2>2 DEF Follows
  <2>4. Outlook(mgr[r].todo, Known, clock + 1)
    BY <1>1, <2>1, <2>3, OutlookLater
  <2> QED
    BY <1>1, <2>1, <2>3, <2>4 DEF Follows
<1>5. Calendar(Known, clock)' /\ \A r \in Runner : Follows(mgr[r], Known, clock)'
  BY <1>1, <1>2, <1>3, <1>4
<1> QED
  BY <1>1, <1>5 DEF PlanInv

\* A claim of the oldest plan of a list adds it to the claimed plans.
LEMMA TakeOverPlans ==
  ASSUME OneScope, PlanInv, LeaseInv', NEW r \in Runner, NEW s \in Scope, NEW p \in Plan,
         TakesOver(r, s, p), \A q \in mgr[r].todo : p <= q
  PROVE  PlanInv'
<1> DEFINE T == mgr[r].todo
           R == Known
<1>1. /\ TypeOK /\ LeaseInv /\ clock \in Nat /\ clock \in Time /\ R \in SUBSET Plan /\ T \in SUBSET Plan
      /\ Calendar(R, clock) /\ Follows(mgr[r], R, clock) /\ Outlook(T, R, clock)
  BY PlanParts, OneManager
<1>2. /\ mgr[r].at = "claiming" /\ p \in T /\ clock' = clock
      /\ mgr'[r].at = "running" /\ mgr'[r].plan = p /\ mgr'[r].now = mgr[r].now
      /\ mgr'[r].todo = T \ {p}
      /\ \A q \in Runner \ {r} : mgr'[q] = mgr[q]
  BY DEF TakesOver
<1>3. Known' = R \cup {p}
  <2>1. /\ row'[s][p].status # "absent"
        /\ \A q \in Plan \ {p} : row'[s][q] = row[s][q]
    BY DEF TakesOver, Claimed
  <2>2. Known = {q \in Plan : row[s][q].status # "absent"}
    BY KnownRows DEF Rows
  <2>3. Known' = {q \in Plan : row'[s][q].status # "absent"}
    BY DEF Known, Rows, OneScope
  <2> QED
    BY <2>1, <2>2, <2>3
<1>4. Calendar(R \cup {p}, clock)
  <2> HIDE DEF R, T
  <2> QED
    BY <1>1, <1>2, ClaimCalendar DEF T
<1>5. ASSUME NEW q \in Runner \ {r} PROVE Follows(mgr[q], R \cup {p}, clock)
  <2>1. Follows(mgr[q], R, clock) /\ Outlook(mgr[q].todo, R, clock) /\ mgr[q].todo \in SUBSET Plan
    BY <1>1, PlanParts, OneManager
  <2> HIDE DEF R, T
  <2>2. Outlook(mgr[q].todo, R \cup {p}, clock)
    BY <1>1, <1>2, <2>1, ClaimOutlook
  <2> QED
    BY <2>1, <2>2 DEF Follows
<1>6. Follows(mgr'[r], R \cup {p}, clock)
  <2>1. Outlook(T, R \cup {p}, clock)
    <3> HIDE DEF R, T
    <3> QED
      BY <1>1, <1>2, ClaimOutlook
  <2>2. Outlook(T \ {p}, R \cup {p}, clock)
    BY <2>1, OutlookPast
  <2>3. mgr[r].now <= clock
    BY <1>1 DEF Follows
  <2> HIDE DEF R, T
  <2> QED
    BY <1>2, <2>2, <2>3 DEF Follows
<1> HIDE DEF R, T
<1>7. /\ Calendar(Known', clock')
      /\ \A q \in Runner : Follows(mgr'[q], Known', clock')
  BY <1>2, <1>3, <1>4, <1>5, <1>6
<1>8. clock' \in Time
  BY <1>1, <1>2
<1> QED
  BY <1>7, <1>8 DEF PlanInv

-----------------------------------------------------------------------------
(* The theorem                                                             *)

LEMMA InitPlans == Init => PlanInv
<1> SUFFICES ASSUME Init PROVE PlanInv
  OBVIOUS
<1>1. LeaseInv
  BY InitLease
<1>2. Known = {}
  BY PlanFacts DEF Init, Known, Rows, Absent
<1>3. clock \in Time /\ clock \in Nat
  BY SchedulerAssumption DEF Init, Time, SchedulerAssumption
<1>4. \A r \in Runner : Follows(mgr[r], Known, clock)
  BY <1>3, FollowsIdle DEF Init
<1> QED
  BY <1>1, <1>2, <1>3, <1>4 DEF PlanInv, Calendar

LEMMA NextPlans ==
  ASSUME Prompt, Mode = "every_plan", OneScope, PlanInv, [Next]_cronVars
  PROVE  PlanInv'
<1>1. LeaseInv /\ LeaseInv'
  BY NextLease DEF PlanInv
<1>2. ASSUME NEW r \in Runner, Step(r) PROVE PlanInv'
  <2>1. CASE Tick(r) \/ Sweep(r) \/ \E s \in Scope : PlanScope(r, s)
    BY <1>1, <2>1, TickPlans, SweepPlans, PlanScopePlans
  <2>2. ASSUME NEW s \in Scope, NEW p \in Plan, Claim(r, s, p) PROVE PlanInv'
    <3>1. CASE ~Claimable(row[s][p], mgr[r].now)
      BY <1>1, <2>2, <3>1, PassOverPlans
    <3>2. CASE Claimable(row[s][p], mgr[r].now)
      <4>1. TakesOver(r, s, p)
        BY <1>1, <2>2, <3>2, ClaimTakesOver
      <4>2. \A q \in mgr[r].todo : p <= q
        BY <2>2 DEF Claim
      <4> QED
        BY <1>1, <4>1, <4>2, TakeOverPlans
    <3> QED
      BY <3>1, <3>2
  <2>3. CASE \E ok \in BOOLEAN : Finish(r, ok)
    BY <1>1, <2>3, FinishPlans
  <2> QED
    BY <1>2, <2>1, <2>2, <2>3 DEF Step
<1>3. CASE UNCHANGED cronVars
  <2>1. Known' = Known /\ clock' = clock /\ mgr' = mgr
    BY <1>3 DEF cronVars, Known, Rows
  <2> QED
    BY <1>1, <2>1 DEF PlanInv
<1> QED
  BY <1>1, <1>2, <1>3, AdvancePlans, HeartbeatPlans, CrashPlans DEF Next

LEMMA PlansNoGap == ASSUME OneScope, PlanInv PROVE NoGap
  BY KnownRows DEF PlanInv, Calendar, GoneBy, NoGap

\* For a job of one scope whose managers are prompt, whatever the cadence, the
\* window, the delay and the number of plans of a tick, however many servers
\* plan, claim, crash and take over: between two claimed plans nothing was left
\* out that had not left the catch-up window.
THEOREM NothingLeftOut ==
  Prompt /\ Mode = "every_plan" /\ OneScope /\ Spec => []NoGap
<1> SUFFICES ASSUME Prompt, Mode = "every_plan", OneScope PROVE Spec => []NoGap
  OBVIOUS
<1>1. Init => PlanInv
  BY InitPlans
<1>2. PlanInv /\ [Next]_cronVars => PlanInv'
  BY NextPlans
<1>3. PlanInv => NoGap
  BY PlansNoGap
<1> QED
  BY <1>1, <1>2, <1>3, PTL DEF Spec
=============================================================================
