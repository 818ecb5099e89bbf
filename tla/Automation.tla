----------------------------- MODULE Automation -----------------------------
(***************************************************************************)
(* One automation (a prompt that runs on a schedule): its record in        *)
(* automations.json (automation-manager.ts), the scheduler that looks at   *)
(* it every 30 seconds (automation-scheduler.ts) and the clock arithmetic  *)
(* of computeNextRunAt (shared/src/utils/automation-schedule.ts).          *)
(*                                                                         *)
(* Automations share nothing but the file, which is read and written       *)
(* within one synchronous call, so one stands for all.  Time is counted in *)
(* ticks of the scheduler, 0 is no time at all.  A run that has begun      *)
(* (the promise of runAutomation) may end or fail at any time; meanwhile   *)
(* ticks, users and crashes go on.  Names, sessions, the history of runs   *)
(* and the audit events are left out.                                      *)
(***************************************************************************)
EXTENDS Integers

CONSTANTS
    Plans,         \* the schedules: [kind, wps]; wps marks the daily WPS report
    Every,         \* the interval, and the length of a day
    OnceAt,        \* when a one-time automation is to run
    MaxRuns,       \* maxRuns, 0 if not given
    FailureLimit,  \* how many failures in a row switch it off (5 in the code)
    MaxTime,       \* bound: the last moment
    MaxCrashes     \* bound: how often the process dies

Kind == {"interval", "calendar", "once"}
Time == 1..MaxTime

ASSUME PlanAssumption == Plans \subseteq [kind : Kind, wps : BOOLEAN]
ASSUME TimeAssumption ==
    /\ Every \in Nat \ {0} /\ OnceAt \in Nat \ {0}
    /\ MaxRuns \in Nat /\ FailureLimit \in Nat \ {0}
    /\ MaxTime \in Nat \ {0} /\ MaxCrashes \in Nat

VARIABLES
    auto,     \* the stored automation
    deleted,  \* it has been deleted
    runs,     \* the runs that have begun: how, for which moment, when
    now,      \* the clock
    up,       \* the process is running
    fired,    \* history: the moments for which the schedule has begun a run
    crashes   \* how often the process died

vars == <<auto, deleted, runs, now, up, fired, crashes>>

-----------------------------------------------------------------------------
(* Schedules. *)

\* The next time of day, week or month: strictly later than t.
NextOnCalendar(t) == ((t \div Every) + 1) * Every

ComputeNextRunAt(a, t) ==
    IF ~a.enabled \/ (MaxRuns # 0 /\ a.runCount >= MaxRuns) THEN 0
    ELSE CASE a.plan.kind = "interval" -> (IF a.lastRunAt = 0 THEN t ELSE a.lastRunAt) + Every
           [] a.plan.kind = "calendar" -> NextOnCalendar(t)
           [] a.plan.kind = "once"     -> OnceAt

\* AutomationScheduler.nextRun, the moment that follows one that is skipped.
NextRun(a, t) ==
    ComputeNextRunAt([a EXCEPT !.enabled = TRUE,
                               !.lastRunAt = IF @ = 0 THEN t ELSE @], t)

Rescheduled(a) == [a EXCEPT !.nextRunAt = ComputeNextRunAt(a, now)]

Init ==
    /\ now = 1
    /\ \E p \in Plans :
           auto = Rescheduled([plan |-> p, enabled |-> TRUE, nextRunAt |-> 0, lastTriggerAt |-> 0,
                               lastRunAt |-> 0, runCount |-> 0, failures |-> 0])
    /\ deleted = FALSE
    /\ runs = {}
    /\ up = TRUE
    /\ fired = {}
    /\ crashes = 0

-----------------------------------------------------------------------------
(* The scheduler. *)

Due(a)       == ~deleted /\ a.enabled /\ a.nextRunAt > 0 /\ a.nextRunAt <= now
Unclaimed(a) == a.lastTriggerAt # a.nextRunAt

\* Mutant of Claimed: the claim is not written.
ClaimedInMind(a) == a

\* claimAutomationTrigger.
Claimed(a) == [a EXCEPT !.lastTriggerAt = a.nextRunAt]

\* recordSkipped: the moment is passed over and the following one awaited.
Skipped(a) == [Claimed(a) EXCEPT !.nextRunAt = NextRun(a, now)]

IsReport(a) == a.plan.wps /\ a.plan.kind = "calendar"
Expired(a)  == a.nextRunAt < now - 1 /\ ~IsReport(a)

\* process, on automation a, until it awaits: a moment that is long past or
\* finds the automation still running is skipped, otherwise a run begins.
Processed(a) ==
    IF ~Due(a) \/ ~Unclaimed(a) THEN auto' = a /\ UNCHANGED <<runs, fired>>
    ELSE IF Expired(a) \/ runs # {} THEN auto' = Skipped(a) /\ UNCHANGED <<runs, fired>>
    ELSE /\ auto' = Claimed(a)
         /\ runs' = {[how |-> "scheduled", at |-> a.nextRunAt, begun |-> now]}
         /\ fired' = fired \cup {a.nextRunAt}

Tick ==
    /\ up /\ Due(auto) /\ Unclaimed(auto)
    /\ Processed(auto)
    /\ UNCHANGED <<deleted, now, up, crashes>>

\* Mutant of Recovered: a report whose run was cut short waits on.
RecoveredAsTheRest(a) == IF Due(a) /\ Unclaimed(a) /\ ~IsReport(a) THEN Skipped(a) ELSE a

\* recoverMissedRuns: what was missed is skipped, a one-time automation
\* switched off; a report is made up for, also one whose run was cut short.
Recovered(a) ==
    IF ~Due(a) THEN a
    ELSE IF IsReport(a)
    THEN IF Unclaimed(a) THEN a
         ELSE [a EXCEPT !.nextRunAt = IF now > @ THEN now ELSE @ + 1]
    ELSE IF ~Unclaimed(a) THEN a
    ELSE IF a.plan.kind = "once" THEN [Claimed(a) EXCEPT !.enabled = FALSE, !.nextRunAt = 0]
    ELSE Skipped(a)

\* start: first recoverMissedRuns, then a tick.
Restart ==
    /\ ~up /\ up' = TRUE
    /\ Processed(Recovered(auto))
    /\ UNCHANGED <<deleted, now, crashes>>

-----------------------------------------------------------------------------
(* Runs. *)

\* Mutant of RunNow: it does not ask whether the automation is running.
RunNowAnyway ==
    /\ up /\ ~deleted
    /\ runs' = runs \cup {[how |-> "manual", at |-> now, begun |-> now]}
    /\ UNCHANGED <<auto, deleted, now, up, fired, crashes>>

\* runNow.
RunNow ==
    /\ up /\ ~deleted /\ runs = {}
    /\ runs' = {[how |-> "manual", at |-> now, begun |-> now]}
    /\ UNCHANGED <<auto, deleted, now, up, fired, crashes>>

\* Counters that are only compared with a limit stop there.
UpTo(limit, n) == IF n > limit THEN limit ELSE n

\* Mutant of Outcome: the next moment is worked out from the automation as
\* it was when the run began.
OutcomeOfOld(a, r, ok) ==
    [a EXCEPT !.lastRunAt = r.begun, !.nextRunAt = NextRun([a EXCEPT !.lastRunAt = r.begun], now)]

\* recordRunOutcome on the record as it is now; a run by hand leaves the
\* schedule alone.
Outcome(a, r, ok) ==
    LET b == [a EXCEPT !.lastRunAt = r.begun,
                       !.runCount = UpTo(MaxRuns, @ + 1),
                       !.failures = IF ok THEN 0 ELSE UpTo(FailureLimit, @ + 1)]
        over == \/ a.plan.kind = "once" \/ (MaxRuns # 0 /\ b.runCount >= MaxRuns)
                \/ b.failures >= FailureLimit
    IN  IF r.how = "manual" THEN b
        ELSE IF over THEN [b EXCEPT !.enabled = FALSE, !.nextRunAt = 0]
        ELSE Rescheduled(b)

RunEnds(r, ok) ==
    /\ up /\ r \in runs
    /\ runs' = runs \ {r}
    /\ auto' = IF deleted THEN auto ELSE Outcome(auto, r, ok)
    /\ UNCHANGED <<deleted, now, up, fired, crashes>>

-----------------------------------------------------------------------------
(* Users, the clock and crashes. *)

\* toggleAutomation.
Toggle ==
    /\ up /\ ~deleted
    /\ auto' = Rescheduled([auto EXCEPT !.enabled = ~@])
    /\ UNCHANGED <<deleted, runs, now, up, fired, crashes>>

\* updateAutomation with another schedule, whose moments are new ones.
ChangePlan(p) ==
    /\ up /\ ~deleted /\ p # auto.plan
    /\ auto' = Rescheduled([auto EXCEPT !.plan = p])
    /\ fired' = {}
    /\ UNCHANGED <<deleted, runs, now, up, crashes>>

\* deleteAutomation; a run goes on to its end.
Delete ==
    /\ up /\ ~deleted /\ deleted' = TRUE
    /\ UNCHANGED <<auto, runs, now, up, fired, crashes>>

\* Time passes, also while the computer sleeps or the program is not running.
Pass ==
    /\ now < MaxTime /\ now' = now + 1
    /\ UNCHANGED <<auto, deleted, runs, up, fired, crashes>>

Dies == crashes < MaxCrashes /\ crashes' = crashes + 1 /\ up' = FALSE /\ runs' = {}

Crash == up /\ Dies /\ UNCHANGED <<auto, deleted, now, fired>>

\* In a tick or in recoverMissedRuns: the moment is claimed and nothing done.
CrashAfterClaim ==
    /\ Due(auto) /\ Unclaimed(auto) /\ (up \/ ~IsReport(auto))
    /\ Dies
    /\ auto' = Claimed(auto)
    /\ UNCHANGED <<deleted, now, fired>>

Ends == \E r \in runs, ok \in BOOLEAN : RunEnds(r, ok)
Users == Toggle \/ Delete \/ RunNow \/ \E p \in Plans : ChangePlan(p)

Next == Tick \/ Restart \/ Ends \/ Users \/ Pass \/ Crash \/ CrashAfterClaim

Spec == Init /\ [][Next]_vars

\* The timer of the scheduler fires, a run returns (its turn ends or times
\* out) and a process that has died is started again.
FairSpec == Spec /\ WF_vars(Tick) /\ WF_vars(Ends) /\ WF_vars(Restart)

-----------------------------------------------------------------------------
\* Types; there is at most one run, and it began no later than now.
AutomationTypeOK ==
    /\ auto \in [plan : Plans, enabled : BOOLEAN, nextRunAt : Nat, lastTriggerAt : Nat,
                 lastRunAt : Nat, runCount : 0..MaxRuns, failures : 0..FailureLimit]
    /\ deleted \in BOOLEAN /\ up \in BOOLEAN
    /\ runs \subseteq [how : {"scheduled", "manual"}, at : Time, begun : Time]
    /\ \A r, q \in runs : r = q /\ r.begun <= now
    /\ now \in Time /\ fired \subseteq Time /\ crashes \in 0..MaxCrashes

\* An automation that is switched off is not due at any time: a run that
\* ends, a moment that is skipped or a recovery does not undo what the user
\* did while it was under way (recordRunOutcome, recordSkipped).
OffStaysOff == ~auto.enabled => auto.nextRunAt = 0

\* The schedule begins no second run for the same moment, whatever ends, dies
\* and starts again in between (claimAutomationTrigger).
FiredOnce == [][\A r \in runs' : r.how = "scheduled" /\ r \notin runs => r.at \notin fired]_vars

\* A calendar schedule goes on: a moment that is due is run or skipped and
\* the next one awaited; for a WPS report also when the process died in the
\* middle of it (the comment in recoverMissedRuns).
CalendarGoesOn ==
    LET counts == auto.plan.kind = "calendar" /\ (auto.plan.wps \/ crashes = 0)
    IN  (Due(auto) /\ counts) ~> ~(Due(auto) /\ counts)

\* What a schedule with a skip policy promises: no automation is due for
\* ever because its moment was claimed and nothing is going to move it.
NeverStuck == up /\ runs = {} /\ Due(auto) => Unclaimed(auto)
=============================================================================
