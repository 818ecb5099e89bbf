-------------------------- MODULE Automation_proofs --------------------------
(* For any schedules, limits, number of crashes and length of time: types  *)
(* are kept, what is switched off is not due, and the schedule never       *)
(* begins two runs for one moment.                                         *)
EXTENDS Automation, TLAPS

-----------------------------------------------------------------------------
AutoType ==
    [plan : Plans, enabled : BOOLEAN, nextRunAt : Nat, lastTriggerAt : Nat,
     lastRunAt : Nat, runCount : 0..MaxRuns, failures : 0..FailureLimit]

\* A moment that has been run is not due again: it is still the claimed one,
\* or the schedule is past it.
NotAgain(a, f) == a.nextRunAt \in f => a.lastTriggerAt = a.nextRunAt

\* An interval counts from the last run, which moves only when a run ends.  If
\* it leads to a moment that has been run, then it leads nowhere else.
IntervalOK(a, f) ==
    a.plan.kind = "interval" /\ a.lastRunAt # 0 /\ a.lastRunAt + Every \in f =>
        a.lastTriggerAt = a.lastRunAt + Every /\ a.nextRunAt \in {0, a.lastRunAt + Every}

\* A calendar never looks back.
CalendarOK(a, f) ==
    a.plan.kind = "calendar" =>
        \A m \in f : m <= a.lastTriggerAt /\ (a.nextRunAt # 0 => m <= a.nextRunAt)

OnceOK(a, f) ==
    a.plan.kind = "once" =>
        /\ a.nextRunAt \in {0, OnceAt} /\ f \subseteq {OnceAt}
        /\ f # {} => a.lastTriggerAt = OnceAt

\* An automation a whose moments f have been run, at time t.
Good(a, f, t) ==
    /\ a \in AutoType
    /\ a.lastRunAt <= t
    /\ ~a.enabled => a.nextRunAt = 0
    /\ NotAgain(a, f) /\ IntervalOK(a, f) /\ CalendarOK(a, f) /\ OnceOK(a, f)

\* Moments that have been run are over.
Past(f, t) == \A m \in f : m \in Nat /\ 0 < m /\ m <= t

IInv ==
    /\ AutomationTypeOK
    /\ Good(auto, fired, now)
    /\ Past(fired, now)
    /\ \A r \in runs : Past(fired, r.begun)

-----------------------------------------------------------------------------
(* Schedules. *)

\* The next time of day, week or month is still to come.
LEMMA NextOnCalendarLater ==
    ASSUME NEW t \in Nat
    PROVE  NextOnCalendar(t) \in Nat /\ NextOnCalendar(t) > t
<1> DEFINE d == t \div Every
<1>1. Every \in Nat \ {0}
  BY TimeAssumption DEF TimeAssumption
<1>2. d \in Nat /\ d * Every <= t /\ t < (d + 1) * Every
  BY <1>1
<1>3. (d + 1) * Every \in Nat
  BY <1>1, <1>2
<1> QED
  BY <1>2, <1>3 DEF NextOnCalendar

\* What computeNextRunAt answers.
LEMMA Computed ==
    ASSUME NEW a \in AutoType, NEW t \in Nat
    PROVE  LET n == ComputeNextRunAt(a, t) IN
           /\ n \in Nat
           /\ ~a.enabled => n = 0
           /\ a.plan.kind = "interval" =>
                n \in {0, (IF a.lastRunAt = 0 THEN t ELSE a.lastRunAt) + Every}
           /\ a.plan.kind = "calendar" => n = 0 \/ n > t
           /\ a.plan.kind = "once" => n \in {0, OnceAt}
<1>1. /\ a.plan \in Plans /\ a.plan.kind \in {"interval", "calendar", "once"}
      /\ a.lastRunAt \in Nat /\ a.enabled \in BOOLEAN
  BY PlanAssumption DEF PlanAssumption, AutoType, Kind
<1>2. Every \in Nat /\ OnceAt \in Nat
  BY TimeAssumption DEF TimeAssumption
<1>3. NextOnCalendar(t) \in Nat /\ NextOnCalendar(t) > t
  BY NextOnCalendarLater
<1> HIDE DEF AutoType
<1> QED
  BY <1>1, <1>2, <1>3 DEF ComputeNextRunAt

\* What must hold of an automation for its schedule to be worked out anew.
Base(a, f) ==
    /\ a \in AutoType
    /\ a.lastRunAt <= now
    /\ a.plan.kind = "interval" /\ a.lastRunAt # 0 /\ a.lastRunAt + Every \in f
         => a.lastTriggerAt = a.lastRunAt + Every
    /\ a.plan.kind = "calendar" => \A m \in f : m <= a.lastTriggerAt
    /\ a.plan.kind = "once" => f \subseteq {OnceAt} /\ (f # {} => a.lastTriggerAt = OnceAt)

\* Working out the next moment anew makes an automation good.
LEMMA RescheduledGood ==
    ASSUME NEW a, NEW f, now \in Nat, Base(a, f), Past(f, now)
    PROVE  Good(Rescheduled(a), f, now)
<1> DEFINE n == ComputeNextRunAt(a, now)
           b == Rescheduled(a)
<1>1. a \in AutoType /\ n \in Nat
  BY Computed DEF Base
<1>2. /\ b \in AutoType /\ b.nextRunAt = n
      /\ b.plan = a.plan /\ b.enabled = a.enabled /\ b.lastRunAt = a.lastRunAt
      /\ b.lastTriggerAt = a.lastTriggerAt
  BY <1>1 DEF Rescheduled, AutoType
<1>3. /\ ~a.enabled => n = 0
      /\ a.plan.kind = "interval" =>
           n \in {0, (IF a.lastRunAt = 0 THEN now ELSE a.lastRunAt) + Every}
      /\ a.plan.kind = "calendar" => n = 0 \/ n > now
      /\ a.plan.kind = "once" => n \in {0, OnceAt}
  BY <1>1, Computed
<1>4. /\ a.plan.kind \in {"interval", "calendar", "once"}
      /\ a.lastRunAt \in Nat /\ a.lastTriggerAt \in Nat
  BY <1>1, PlanAssumption DEF PlanAssumption, AutoType, Kind
<1>5. Every \in Nat /\ Every > 0 /\ OnceAt \in Nat
  BY TimeAssumption DEF TimeAssumption
<1> HIDE DEF n, b
<1>6. NotAgain(b, f)
  BY <1>2, <1>3, <1>4, <1>5 DEF NotAgain, Base, Past
<1>7. IntervalOK(b, f)
  BY <1>2, <1>3, <1>4, <1>5 DEF IntervalOK, Base, Past
<1>8. CalendarOK(b, f)
  BY <1>1, <1>2, <1>3, <1>4 DEF CalendarOK, Base, Past
<1>9. OnceOK(b, f)
  BY <1>2, <1>3 DEF OnceOK, Base
<1> QED
  BY <1>2, <1>3, <1>6, <1>7, <1>8, <1>9 DEF Good, Base, b

\* A good automation may be rescheduled.
LEMMA GoodIsBase ==
    ASSUME NEW a, NEW f, Good(a, f, now)
    PROVE  Base(a, f)
BY DEF Good, Base, IntervalOK, CalendarOK, OnceOK

\* A skipped moment counts as claimed, and the schedule is worked out anew.
LEMMA SkippedIsRescheduled ==
    ASSUME NEW a \in AutoType, a.enabled, now \in Nat
    PROVE  Skipped(a) = Rescheduled(Claimed(a))
<1> DEFINE e == [a EXCEPT !.enabled = TRUE, !.lastRunAt = IF @ = 0 THEN now ELSE @]
           c == Claimed(a)
<1>1. /\ e.enabled /\ e.plan = a.plan /\ e.runCount = a.runCount
      /\ e.lastRunAt = IF a.lastRunAt = 0 THEN now ELSE a.lastRunAt
  BY DEF AutoType
<1>2. /\ c.enabled = a.enabled /\ c.plan = a.plan /\ c.runCount = a.runCount
      /\ c.lastRunAt = a.lastRunAt
  BY DEF AutoType, Claimed
<1> HIDE DEF e, c
<1>3. ComputeNextRunAt(e, now) = ComputeNextRunAt(c, now)
  <2>1. e.enabled = c.enabled /\ e.plan = c.plan /\ e.runCount = c.runCount
    BY <1>1, <1>2
  <2>2. (IF e.lastRunAt = 0 THEN now ELSE e.lastRunAt)
          = IF c.lastRunAt = 0 THEN now ELSE c.lastRunAt
    BY <1>1, <1>2
  <2>3. CASE e.plan.kind = "interval"
    BY <2>1, <2>2, <2>3 DEF ComputeNextRunAt
  <2>4. CASE e.plan.kind = "calendar"
    BY <2>1, <2>4 DEF ComputeNextRunAt
  <2>5. CASE e.plan.kind = "once"
    BY <2>1, <2>5 DEF ComputeNextRunAt
  <2>6. e.plan.kind \in {"interval", "calendar", "once"}
    BY <1>1, PlanAssumption DEF PlanAssumption, AutoType, Kind
  <2> QED
    BY <2>3, <2>4, <2>5, <2>6
<1> QED
  BY <1>3 DEF Skipped, NextRun, Rescheduled, e, c

\* Claiming a moment that is due keeps an automation good, run or skipped.
LEMMA ClaimedGood ==
    ASSUME NEW a, NEW f, now \in Nat, Past(f, now), Good(a, f, now),
           a.nextRunAt > 0, a.nextRunAt <= now,
           NEW g, g = f \/ g = f \cup {a.nextRunAt}
    PROVE  Good(Claimed(a), g, now) /\ Past(g, now)
<1> DEFINE c == Claimed(a)
<1>1. /\ c \in AutoType /\ a \in AutoType /\ c.lastTriggerAt = a.nextRunAt
      /\ c.plan = a.plan /\ c.enabled = a.enabled /\ c.lastRunAt = a.lastRunAt
      /\ c.nextRunAt = a.nextRunAt
      /\ a.nextRunAt \in Nat /\ a.lastRunAt \in Nat
  BY DEF Claimed, Good, AutoType
<1>2. Every \in Nat /\ Every > 0 /\ OnceAt \in Nat
  BY TimeAssumption DEF TimeAssumption
<1> HIDE DEF c
<1>3. NotAgain(c, g)
  BY <1>1 DEF NotAgain
<1>4. IntervalOK(c, g)
  BY <1>1, <1>2 DEF IntervalOK, Good
<1>5. CalendarOK(c, g)
  BY <1>1 DEF CalendarOK, Good, Past
<1>6. OnceOK(c, g)
  BY <1>1 DEF OnceOK, Good
<1> QED
  BY <1>1, <1>3, <1>4, <1>5, <1>6 DEF Good, Past, c

\* Skipping a moment that is due keeps an automation good.
LEMMA SkippedGood ==
    ASSUME NEW a, NEW f, now \in Nat, Past(f, now), Good(a, f, now), Due(a)
    PROVE  Good(Skipped(a), f, now)
<1>1. Good(Claimed(a), f, now)
  BY ClaimedGood DEF Due
<1>2. Good(Rescheduled(Claimed(a)), f, now)
  BY <1>1, GoodIsBase, RescheduledGood
<1> QED
  BY <1>2, SkippedIsRescheduled DEF Good, Due

\* What the start makes of an automation is good.
LEMMA RecoveredGood ==
    ASSUME now \in Nat, Past(fired, now), Good(auto, fired, now)
    PROVE  Good(Recovered(auto), fired, now)
<1> DEFINE a == auto
<1>1. CASE ~Due(a)
  BY <1>1 DEF Recovered
<1>2. CASE Due(a) /\ IsReport(a) /\ ~Unclaimed(a)
  <2> DEFINE n == IF now > a.nextRunAt THEN now ELSE a.nextRunAt + 1
             b == [a EXCEPT !.nextRunAt = n]
  <2>1. /\ a \in AutoType /\ a.nextRunAt \in Nat /\ a.plan.kind = "calendar" /\ a.enabled
        /\ a.lastTriggerAt = a.nextRunAt /\ a.nextRunAt # 0
    BY <1>2 DEF Due, IsReport, Unclaimed, Good, AutoType
  <2>2. n \in Nat /\ n > a.lastTriggerAt
    BY <2>1
  <2>3. /\ b \in AutoType /\ b.nextRunAt = n /\ b.lastTriggerAt = a.lastTriggerAt
        /\ b.plan = a.plan /\ b.enabled = a.enabled /\ b.lastRunAt = a.lastRunAt
    BY <2>1, <2>2 DEF AutoType
  <2>4. Recovered(a) = b
    BY <1>2 DEF Recovered
  <2>5. \A m \in fired : m \in Nat /\ m < n /\ m <= b.lastTriggerAt
    BY <2>1, <2>2, <2>3 DEF Good, CalendarOK, Past
  <2> HIDE DEF n, b
  <2>6. /\ NotAgain(b, fired) /\ CalendarOK(b, fired)
        /\ IntervalOK(b, fired) /\ OnceOK(b, fired)
    <3>1. NotAgain(b, fired)
      BY <2>2, <2>3, <2>5 DEF NotAgain
    <3>2. CalendarOK(b, fired)
      BY <2>2, <2>3, <2>5 DEF CalendarOK
    <3>3. IntervalOK(b, fired) /\ OnceOK(b, fired)
      BY <2>1, <2>3 DEF IntervalOK, OnceOK
    <3> QED
      BY <3>1, <3>2, <3>3
  <2>7. Good(b, fired, now)
    BY <2>1, <2>3, <2>6 DEF Good
  <2> QED
    BY <2>4, <2>7
<1>3. CASE Due(a) /\ ~IsReport(a) /\ Unclaimed(a) /\ a.plan.kind = "once"
  <2> DEFINE c == Claimed(a)
             b == [c EXCEPT !.enabled = FALSE, !.nextRunAt = 0]
  <2>1. Good(c, fired, now)
    BY <1>3, ClaimedGood DEF Due
  <2>2. /\ b \in AutoType /\ b.nextRunAt = 0 /\ b.lastTriggerAt = c.lastTriggerAt
        /\ b.plan = c.plan /\ b.lastRunAt = c.lastRunAt /\ ~b.enabled /\ c.plan.kind = "once"
    BY <1>3, <2>1 DEF Good, AutoType, Claimed
  <2>3. Recovered(a) = b
    BY <1>3 DEF Recovered
  <2> HIDE DEF b, c
  <2> QED
    BY <2>1, <2>2, <2>3 DEF Good, NotAgain, IntervalOK, CalendarOK, OnceOK, Past
<1>4. CASE Due(a) /\ ~IsReport(a) /\ Unclaimed(a) /\ a.plan.kind # "once"
  BY <1>4, SkippedGood DEF Recovered
<1>5. CASE Due(a) /\ (IF IsReport(a) THEN Unclaimed(a) ELSE ~Unclaimed(a))
  BY <1>5 DEF Recovered
<1> QED
  BY <1>1, <1>2, <1>3, <1>4, <1>5

-----------------------------------------------------------------------------
(* The invariant. *)

\* What process does with a good automation keeps the invariant.
LEMMA ProcessedKeeps ==
    ASSUME IInv, NEW a, Good(a, fired, now), Processed(a),
           UNCHANGED <<deleted, now, crashes>>, up' \in BOOLEAN
    PROVE  IInv'
<1>1. /\ now \in Nat /\ now \in Time /\ Past(fired, now) /\ MaxTime \in Nat
      /\ runs \subseteq [how : {"scheduled", "manual"}, at : Time, begun : Time]
      /\ deleted \in BOOLEAN /\ crashes \in 0..MaxCrashes /\ fired \subseteq Time
      /\ \A r, q \in runs : r = q /\ r.begun <= now
      /\ \A r \in runs : Past(fired, r.begun)
  BY TimeAssumption DEF TimeAssumption, IInv, AutomationTypeOK, Time
<1>2. CASE UNCHANGED <<runs, fired>>
  <2>1. auto' = a \/ (Due(a) /\ auto' = Skipped(a))
    <3>1. CASE ~Due(a) \/ ~Unclaimed(a)
      BY <3>1 DEF Processed
    <3>2. CASE Due(a) /\ Unclaimed(a) /\ (Expired(a) \/ runs # {})
      BY <3>2 DEF Processed
    <3>3. CASE Due(a) /\ Unclaimed(a) /\ ~(Expired(a) \/ runs # {})
      <4>1. runs = {} /\ runs' # {}
        BY <3>3 DEF Processed
      <4> QED
        BY <1>2, <4>1
    <3> QED
      BY <3>1, <3>2, <3>3
  <2>2. Good(auto', fired, now)
    BY <1>1, <2>1, SkippedGood
  <2> QED
    BY <1>1, <1>2, <2>2 DEF IInv, AutomationTypeOK, Good, AutoType
<1>3. CASE ~UNCHANGED <<runs, fired>>
  <2> DEFINE r == [how |-> "scheduled", at |-> a.nextRunAt, begun |-> now]
  <2>1. /\ Due(a) /\ auto' = Claimed(a) /\ runs' = {r}
        /\ fired' = fired \cup {a.nextRunAt}
    BY <1>3 DEF Processed
  <2>2. a.nextRunAt \in Nat /\ a.nextRunAt > 0 /\ a.nextRunAt <= now
    BY <2>1 DEF Due, Good, AutoType
  <2>3. Good(auto', fired', now) /\ Past(fired', now)
    BY <1>1, <2>1, <2>2, ClaimedGood
  <2>4. a.nextRunAt \in Time /\ r \in [how : {"scheduled", "manual"}, at : Time, begun : Time]
    BY <1>1, <2>2 DEF Time
  <2>5. r.begun = now
    OBVIOUS
  <2> HIDE DEF r
  <2>6. auto' \in AutoType
    BY <2>3 DEF Good
  <2>7. AutomationTypeOK'
    <3>1. runs' \subseteq [how : {"scheduled", "manual"}, at : Time, begun : Time]
      BY <2>1, <2>4
    <3>2. \A q, x \in runs' : q = x /\ q.begun <= now'
      BY <1>1, <2>1, <2>5
    <3>3. /\ fired' \subseteq Time /\ now' \in Time
          /\ crashes' \in 0..MaxCrashes /\ deleted' \in BOOLEAN
      BY <1>1, <2>1, <2>4
    <3> QED
      BY <2>6, <3>1, <3>2, <3>3 DEF AutomationTypeOK, AutoType
  <2> QED
    BY <1>1, <2>1, <2>3, <2>5, <2>7 DEF IInv
<1> QED
  BY <1>2, <1>3

\* A new record of the automation, which may lack the runs it had, keeps the
\* invariant.
LEMMA ChangeKeeps ==
    ASSUME IInv, Good(auto', fired, now),
           runs' \subseteq runs, UNCHANGED <<fired, now, deleted, crashes>>, up' \in BOOLEAN
    PROVE  IInv'
<1>1. auto' \in AutoType
  BY DEF Good
<1>2. AutomationTypeOK'
  BY <1>1 DEF IInv, AutomationTypeOK, AutoType
<1>3. Past(fired', now') /\ \A r \in runs' : Past(fired', r.begun)
  BY DEF IInv
<1> QED
  BY <1>2, <1>3 DEF IInv

\* recordRunOutcome leaves the automation good.
LEMMA OutcomeGood ==
    ASSUME IInv, NEW r \in runs, NEW ok \in BOOLEAN
    PROVE  Good(Outcome(auto, r, ok), fired, now)
<1> DEFINE a == auto
           n == UpTo(MaxRuns, a.runCount + 1)
           k == IF ok THEN 0 ELSE UpTo(FailureLimit, a.failures + 1)
           b == [a EXCEPT !.lastRunAt = r.begun, !.runCount = n, !.failures = k]
           c == [b EXCEPT !.enabled = FALSE, !.nextRunAt = 0]
<1>1. /\ a \in AutoType /\ now \in Nat /\ Past(fired, now) /\ Past(fired, r.begun)
      /\ r.begun \in Nat /\ r.begun <= now /\ Good(a, fired, now)
      /\ MaxRuns \in Nat /\ FailureLimit \in Nat \ {0} /\ Every \in Nat \ {0}
  BY TimeAssumption DEF TimeAssumption, IInv, AutomationTypeOK, Time, Good
<1>2. n \in 0..MaxRuns
  BY <1>1 DEF UpTo, AutoType
<1>3. k \in 0..FailureLimit
  BY <1>1 DEF UpTo, AutoType
<1>5. Outcome(a, r, ok) \in {b, c, Rescheduled(b)}
  BY DEF Outcome
<1> HIDE DEF n, k
<1>4. /\ b \in AutoType /\ b.lastRunAt = r.begun /\ b.plan = a.plan /\ b.enabled = a.enabled
      /\ b.lastTriggerAt = a.lastTriggerAt /\ b.nextRunAt = a.nextRunAt
  BY <1>1, <1>2, <1>3 DEF AutoType
<1>6. /\ c \in AutoType /\ c.lastRunAt = r.begun /\ c.plan = a.plan /\ ~c.enabled
      /\ c.lastTriggerAt = a.lastTriggerAt /\ c.nextRunAt = 0
  BY <1>4 DEF AutoType
<1> HIDE DEF a, b, c
<1>7. \A m \in fired : m \in Nat /\ 0 < m /\ m <= r.begun /\ m # r.begun + Every
  BY <1>1 DEF Past
<1>8. Good(b, fired, now)
  BY <1>1, <1>4, <1>7 DEF Good, NotAgain, IntervalOK, CalendarOK, OnceOK
<1>9. Good(c, fired, now)
  BY <1>1, <1>6, <1>7 DEF Good, NotAgain, IntervalOK, CalendarOK, OnceOK
<1>10. Good(Rescheduled(b), fired, now)
  BY <1>1, <1>8, GoodIsBase, RescheduledGood
<1> QED
  BY <1>5, <1>8, <1>9, <1>10 DEF a

\* The invariant holds in every reachable state.
THEOREM Invariance == Spec => []IInv
<1>1. Init => IInv
  <2> SUFFICES ASSUME Init PROVE IInv
    OBVIOUS
  <2> PICK p \in Plans :
        auto = Rescheduled([plan |-> p, enabled |-> TRUE, nextRunAt |-> 0, lastTriggerAt |-> 0,
                            lastRunAt |-> 0, runCount |-> 0, failures |-> 0])
    BY DEF Init
  <2> DEFINE b == [plan |-> p, enabled |-> TRUE, nextRunAt |-> 0, lastTriggerAt |-> 0,
                   lastRunAt |-> 0, runCount |-> 0, failures |-> 0]
  <2>1. /\ now = 1 /\ runs = {} /\ fired = {} /\ crashes = 0 /\ up = TRUE /\ deleted = FALSE
        /\ MaxTime \in Nat \ {0} /\ MaxRuns \in Nat /\ FailureLimit \in Nat /\ MaxCrashes \in Nat
    BY TimeAssumption DEF TimeAssumption, Init
  <2>2. b \in AutoType
    BY <2>1 DEF AutoType
  <2>3. Base(b, {}) /\ Past({}, now)
    BY <2>1, <2>2 DEF Base, Past
  <2>4. Good(auto, fired, now)
    BY <2>1, <2>3, RescheduledGood
  <2>5. auto \in AutoType
    BY <2>4 DEF Good
  <2>6. AutomationTypeOK
    <3>1. now \in Time /\ crashes \in 0..MaxCrashes
      BY <2>1 DEF Time
    <3> QED
      BY <2>1, <2>5, <3>1 DEF AutomationTypeOK, AutoType
  <2>7. Past(fired, now)
    BY <2>1 DEF Past
  <2> QED
    BY <2>1, <2>4, <2>6, <2>7 DEF IInv
<1>2. IInv /\ [Next]_vars => IInv'
  <2> SUFFICES ASSUME IInv, [Next]_vars PROVE IInv'
    OBVIOUS
  <2>0. /\ now \in Nat /\ Past(fired, now) /\ Good(auto, fired, now) /\ auto \in AutoType
        /\ up \in BOOLEAN
    BY DEF IInv, AutomationTypeOK, Time, Good
  <2>1. CASE Tick
    BY <2>0, <2>1, ProcessedKeeps DEF Tick
  <2>2. CASE Restart
    BY <2>0, <2>2, RecoveredGood, ProcessedKeeps DEF Restart
  <2>3. ASSUME NEW r \in runs, NEW ok \in BOOLEAN, RunEnds(r, ok) PROVE IInv'
    <3>1. Good(auto', fired, now)
      BY <2>0, <2>3, OutcomeGood DEF RunEnds
    <3> QED
      BY <2>0, <2>3, <3>1, ChangeKeeps DEF RunEnds
  <2>4. CASE Toggle
    <3> DEFINE b == [auto EXCEPT !.enabled = ~@]
    <3>1. /\ b \in AutoType /\ b.plan = auto.plan /\ b.lastRunAt = auto.lastRunAt
          /\ b.lastTriggerAt = auto.lastTriggerAt
      BY <2>0 DEF AutoType
    <3>2. auto' = Rescheduled(b)
      BY <2>4 DEF Toggle
    <3> HIDE DEF b
    <3>3. Base(b, fired)
      BY <2>0, <3>1, GoodIsBase DEF Base
    <3>4. Good(auto', fired, now)
      BY <2>0, <3>2, <3>3, RescheduledGood
    <3> QED
      BY <2>0, <2>4, <3>4, ChangeKeeps DEF Toggle
  <2>5. CASE Delete
    BY <2>0, <2>5 DEF Delete, IInv, AutomationTypeOK
  <2>6. CASE RunNow
    <3> DEFINE r == [how |-> "manual", at |-> now, begun |-> now]
    <3>1. runs' = {r} /\ UNCHANGED <<auto, deleted, now, up, fired, crashes>>
      BY <2>6 DEF RunNow
    <3>2. r \in [how : {"scheduled", "manual"}, at : Time, begun : Time] /\ r.begun = now
      BY DEF IInv, AutomationTypeOK
    <3> HIDE DEF r
    <3> QED
      BY <2>0, <3>1, <3>2 DEF IInv, AutomationTypeOK
  <2>7. ASSUME NEW p \in Plans, ChangePlan(p) PROVE IInv'
    <3> DEFINE b == [auto EXCEPT !.plan = p]
    <3>1. b \in AutoType /\ b.lastRunAt = auto.lastRunAt
      BY <2>0 DEF AutoType
    <3>2. /\ auto' = Rescheduled(b) /\ fired' = {}
          /\ UNCHANGED <<deleted, runs, now, up, crashes>>
      BY <2>7 DEF ChangePlan
    <3> HIDE DEF b
    <3>3. Base(b, {}) /\ Past({}, now)
      BY <2>0, <3>1 DEF Base, Past, Good
    <3>4. Good(auto', {}, now)
      BY <2>0, <3>2, <3>3, RescheduledGood
    <3> QED
      BY <3>2, <3>4 DEF IInv, AutomationTypeOK, Good, AutoType, Past
  <2>8. CASE Pass
    <3>1. now' = now + 1 /\ now' \in Time /\ UNCHANGED <<auto, deleted, runs, up, fired, crashes>>
      BY <2>8, TimeAssumption DEF TimeAssumption, Pass, IInv, AutomationTypeOK, Time
    <3>2. Good(auto', fired', now') /\ Past(fired', now')
      BY <2>0, <3>1 DEF Good, Past, AutoType
    <3>3. \A r \in runs : r.begun \in Nat /\ r.begun <= now'
      BY <2>0, <3>1 DEF IInv, AutomationTypeOK, Time
    <3> QED
      BY <3>1, <3>2, <3>3 DEF IInv, AutomationTypeOK
  <2>9. CASE Crash \/ CrashAfterClaim
    <3>1. /\ runs' = {} /\ up' = FALSE /\ crashes' \in 0..MaxCrashes
          /\ UNCHANGED <<deleted, now, fired>>
      BY <2>9, TimeAssumption DEF TimeAssumption, Crash, CrashAfterClaim, Dies, IInv, AutomationTypeOK
    <3>2. Good(auto', fired, now)
      <4>1. CASE Crash
        BY <2>0, <4>1 DEF Crash
      <4>2. CASE CrashAfterClaim
        BY <2>0, <4>2, ClaimedGood DEF CrashAfterClaim, Due
      <4> QED
        BY <2>9, <4>1, <4>2
    <3> QED
      BY <2>0, <3>1, <3>2 DEF IInv, AutomationTypeOK, Good, AutoType
  <2>10. CASE UNCHANGED vars
    BY <2>10 DEF vars, IInv, AutomationTypeOK
  <2> QED
    BY <2>1, <2>2, <2>3, <2>4, <2>5, <2>6, <2>7, <2>8, <2>9, <2>10 DEF Next, Ends, Users
<1> QED
  BY <1>1, <1>2, PTL DEF Spec

-----------------------------------------------------------------------------
\* The record of an automation keeps its type and there is at most one run of
\* it (the scheduler's running set), for any schedules, limits and crashes.
THEOREM TypeCorrect == Spec => []AutomationTypeOK
BY Invariance, PTL DEF IInv

\* Whatever a run that ends, a skip or a recovery writes, an automation that
\* is switched off is not due (recordRunOutcome, recordSkipped).
THEOREM StaysOff == Spec => []OffStaysOff
<1>1. IInv => OffStaysOff
  BY DEF IInv, Good, OffStaysOff
<1> QED
  BY <1>1, Invariance, PTL

\* No moment of a schedule is run twice, whatever ends, dies and starts again
\* in between (claimAutomationTrigger).
THEOREM AtMostOnce == Spec => FiredOnce
<1> DEFINE Once == \A r \in runs' : r.how = "scheduled" /\ r \notin runs => r.at \notin fired
<1>1. IInv /\ [Next]_vars => [Once]_vars
  <2> SUFFICES ASSUME IInv, Next PROVE Once
    BY DEF vars
  <2>0. /\ now \in Nat /\ Past(fired, now) /\ Good(auto, fired, now)
    BY DEF IInv, AutomationTypeOK, Time
  <2>1. ASSUME NEW a, Good(a, fired, now), Processed(a) PROVE Once
    <3>1. CASE runs' = runs
      BY <3>1
    <3>2. CASE runs' # runs
      <4>1. /\ Unclaimed(a)
            /\ runs' = {[how |-> "scheduled", at |-> a.nextRunAt, begun |-> now]}
        BY <2>1, <3>2 DEF Processed
      <4>2. a.nextRunAt \notin fired
        BY <2>1, <4>1 DEF Unclaimed, Good, NotAgain
      <4> QED
        BY <4>1, <4>2
    <3> QED
      BY <3>1, <3>2
  <2>2. CASE Tick
    BY <2>0, <2>1, <2>2 DEF Tick
  <2>3. CASE Restart
    BY <2>0, <2>1, <2>3, RecoveredGood DEF Restart
  <2>4. CASE RunNow
    BY <2>4 DEF RunNow
  <2>5. CASE Ends \/ Toggle \/ Delete \/ Pass \/ Crash \/ CrashAfterClaim
             \/ \E p \in Plans : ChangePlan(p)
    <3>1. runs' \subseteq runs
      BY <2>5 DEF Ends, RunEnds, Toggle, Delete, Pass, Crash, CrashAfterClaim, Dies, ChangePlan
    <3> QED
      BY <3>1
  <2> QED
    BY <2>2, <2>3, <2>4, <2>5 DEF Next, Users
<1> QED
  BY <1>1, Invariance, PTL DEF Spec, FiredOnce
=============================================================================
