------------------------- MODULE CollaborationRoom -------------------------
(***************************************************************************)
(* A local collaboration room: collaboration-room-service.ts with its      *)
(* scheduler (collaboration-room-scheduler.ts) and the records it keeps    *)
(* through collaboration-room-repository.ts.                               *)
(*                                                                         *)
(* disk is what the repository holds, mem what dies with the process: the  *)
(* scheduler's queue and slots, and the executors (executeRun) that wait   *)
(* for an agent's turn.  Every operation of the service is synchronous, so *)
(* each is one step; only the turns overlap.  An operation is composed of  *)
(* operators from states to states, s = [disk |-> .., mem |-> ..], in the  *)
(* order of the calls in the code.                                         *)
(*                                                                         *)
(* A run is named by its place in disk.run.  Its cause is what its         *)
(* idempotency key is made of.  Fences are left out: each change of status *)
(* raises the fence and no status returns to running, so an executor's     *)
(* compare-and-set on the fence succeeds just when the run is still        *)
(* running.  Texts, usage budgets, tasks, files and summaries are left     *)
(* out.                                                                    *)
(***************************************************************************)
EXTENDS Integers, FiniteSets, SequencesExt

CONSTANTS
    Member,        \* the members of the room
    Bots,          \* those that another user owns and may withdraw
    Leavers,       \* bound: those that may be removed
    Addressed,     \* the sequences of members a user's message may be addressed to
    Limits,        \* the values maxConcurrentRuns may be given
    MaxA2ADepth,   \* how deep questions may be nested
    MaxRuns,       \* bound: how many runs there are
    MaxRequests,   \* bound: how many envelopes and requests to the user
    MaxCrashes     \* bound: how often the process dies

ASSUME MemberAssumption ==
    Bots \subseteq Member /\ Leavers \subseteq Member
\* resolveTargetMembers names each member once.
ASSUME AddressAssumption ==
    Addressed \subseteq Seq(Member) /\ \A targets \in Addressed : IsInjective(targets)
ASSUME LimitAssumption == Limits \subseteq Nat \ {0}
ASSUME BoundAssumption == MaxA2ADepth \in Nat /\ MaxRuns \in Nat

VARIABLES
    disk,     \* room, member, run, mail, approval, said: the repository
    mem,      \* queue, slots, turns, aborted, inflight: the process
    up,       \* the process is running
    crashes   \* how often it died

vars == <<disk, mem, up, crashes>>

NoMemory == [queue |-> << >>, slots |-> {}, turns |-> {}, aborted |-> {}, inflight |-> {}]

Init ==
    /\ \E n \in Limits :
           disk = [room |-> [status |-> "active", max |-> n],
                   member |-> [m \in Member |-> [status |-> "idle", consent |-> TRUE]],
                   run |-> << >>, mail |-> << >>, approval |-> << >>, said |-> {}]
    /\ mem = NoMemory
    /\ up = TRUE
    /\ crashes = 0

Now == [disk |-> disk, mem |-> mem]
Then(s) == disk' = s.disk /\ mem' = s.mem /\ UNCHANGED <<up, crashes>>

Status(s, i) == s.disk.run[i].status
Seat(s, i)   == s.disk.run[i].member
Present(s, m) == s.disk.member[m].status # "removed"
Authorized(s, m) == Present(s, m) /\ s.disk.member[m].consent

SetStatus(s, i, status) == [s EXCEPT !.disk.run[i].status = status]
SetMember(s, m, status) == [s EXCEPT !.disk.member[m].status = status]

-----------------------------------------------------------------------------
(* The scheduler. *)

Busy(s, m)  == \E i \in s.mem.slots : Seat(s, i) = m
Waits(s, m) == \E k \in DOMAIN s.mem.queue : Seat(s, s.mem.queue[k]) = m

CanStart(s, i) ==
    /\ s.disk.room.status = "active"
    /\ Cardinality(s.mem.slots) < s.disk.room.max
    /\ ~Busy(s, Seat(s, i))

\* syncMemberStatus, after a run of m has left.
Sync(s, m) ==
    IF Busy(s, m) \/ ~Present(s, m) THEN s
    ELSE SetMember(s, m, IF Waits(s, m) THEN "queued" ELSE "idle")

\* The envelopes that brought the given runs, if their delivery is in before,
\* get the delivery after, one by one.
Marked(mail, runs, before, after) ==
    FoldLeftDomain(LAMBDA box, e : IF box[e].run \in runs /\ box[e].delivery \in before
                                   THEN [box EXCEPT ![e].delivery = after] ELSE box,
                   mail, mail)

\* markEnvelopeAccepted.
Accepted(mail, i) == Marked(mail, {i}, {"dispatched"}, "accepted")

\* The first part of executeRun.  It takes the slot; a member that has been
\* removed or withdrawn since fails at once and gives the slot back, and the
\* promise that start has got is put on file only then.
Begin(s, i) ==
    LET m == Seat(s, i)
        t == [s EXCEPT !.mem.queue = RemoveFirst(@, i), !.mem.inflight = @ \cup {i}]
    IN  IF Authorized(s, m)
        THEN [t EXCEPT !.disk.run[i].status = "running",
                       !.disk.member[m].status = "running",
                       !.disk.mail = Accepted(@, i),
                       !.mem.slots = @ \cup {i},
                       !.mem.turns = @ \cup {i}]
        ELSE Sync(SetStatus(t, i, "failed"), m)

\* drain: in the order of the queue, whatever can start does.
Try(s, i) == IF CanStart(s, i) THEN Begin(s, i) ELSE s
Drain(s)  == FoldLeft(Try, s, s.mem.queue)

\* enqueue.
Admit(s, i) == Drain([s EXCEPT !.mem.queue = Append(@, i)])

\* Mutant of Release: nobody looks at the queue.
ReleaseQuietly(s, i) == [s EXCEPT !.mem.slots = @ \ {i}]

Release(s, i) == Drain([s EXCEPT !.mem.slots = @ \ {i}])

-----------------------------------------------------------------------------
(* Runs. *)

NewRun(s, m, cause) ==
    [s EXCEPT !.disk.run = Append(@, [member |-> m, status |-> "queued", cause |-> cause])]

\* A new run is stored, queued, and its member shown as queued unless it runs.
Add(s, m, cause) ==
    LET n == Len(s.disk.run) + 1
        t == Admit(NewRun(s, m, cause), n)
    IN  IF Busy(t, m) THEN t ELSE SetMember(t, m, "queued")

RunsFor(s, cause) == {i \in DOMAIN s.disk.run : s.disk.run[i].cause = cause}

\* Mutant of Cancel: the queue still holds a run that was cancelled.
CancelInStore(s, i) ==
    IF Status(s, i) \notin {"queued", "running"} THEN s
    ELSE [SetStatus(s, i, "cancelled") EXCEPT !.mem.aborted = @ \cup ({i} \cap s.mem.turns)]

\* Mutant of Cancel: the slot of a running run is given back at once.
CancelReleasing(s, i) ==
    LET t == SetStatus(s, i, "cancelled")
    IN  IF Status(s, i) \notin {"queued", "running"} THEN s
        ELSE IF Contains(s.mem.queue, i)
        THEN Sync([t EXCEPT !.mem.queue = RemoveFirst(@, i)], Seat(s, i))
        ELSE Release([t EXCEPT !.mem.aborted = @ \cup ({i} \cap s.mem.turns)], i)

\* cancelRun.
Cancel(s, i) ==
    LET t == SetStatus(s, i, "cancelled")
    IN  IF Status(s, i) \notin {"queued", "running"} THEN s
        ELSE IF Contains(s.mem.queue, i)
        THEN Sync([t EXCEPT !.mem.queue = RemoveFirst(@, i)], Seat(s, i))
        ELSE [t EXCEPT !.mem.aborted = @ \cup ({i} \cap s.mem.turns)]

\* All runs of a member are cancelled that are not over.
CancelAllOf(s, m) ==
    FoldLeftDomain(LAMBDA t, i : IF Seat(t, i) = m THEN Cancel(t, i) ELSE t, s, s.disk.run)

\* Mutant of Park: the agent is not stopped.
ParkWorking(s, i, status) == Release(SetStatus(s, i, status), i)

\* A run that waits is settled for now, its agent stopped and its slot free.
Park(s, i, status) ==
    Release([SetStatus(s, i, status) EXCEPT !.mem.aborted = @ \cup {i}], i)

-----------------------------------------------------------------------------
(* What users do. *)

Active   == up /\ disk.room.status = "active"
Fits(n)  == Len(disk.run) + n <= MaxRuns
MayAsk   == Len(disk.mail) + Len(disk.approval) < MaxRequests
Fresh    == <<"user", Len(disk.run)>>

\* appendUserMessage and triggerRunForMessage; in a room that is not active
\* the message is only stored.
UserMessage(targets) ==
    /\ Active /\ Fits(Len(targets))
    /\ Then(FoldLeft(LAMBDA s, m : IF Authorized(Now, m) THEN Add(s, m, Fresh) ELSE s,
                     Now, targets))

\* updateRoom: an active room looks at its queue.
UpdateRoom(status, max) ==
    LET s == [Now EXCEPT !.disk.room = [status |-> status, max |-> max]]
    IN  /\ up /\ disk.room # [status |-> status, max |-> max]
        /\ Then(IF status = "active" THEN Drain(s) ELSE s)

CancelRun(i) ==
    /\ up /\ Status(Now, i) \in {"queued", "running"}
    /\ Then(Cancel(Now, i))

\* retryRun, possibly on another member.
RetryRun(i, m) ==
    /\ Active /\ Fits(1)
    /\ Status(Now, i) \in {"failed", "cancelled"} /\ Authorized(Now, m)
    /\ Then(Add(Now, m, <<"again", i>>))

\* confirmResumeBlockedRun: consent is left to the check at the start.
ConfirmResume(i) ==
    /\ Active /\ Fits(1)
    /\ Status(Now, i) = "blocked" /\ Present(Now, Seat(Now, i))
    /\ Then(Add(Now, Seat(Now, i), <<"again", i>>))

SetBotOwnerConsent(m, consent) ==
    LET s == [Now EXCEPT !.disk.member[m].consent = consent]
    IN  /\ up /\ m \in Bots /\ disk.member[m].consent # consent
        /\ Then(IF consent THEN s ELSE CancelAllOf(s, m))

RemoveMember(m) ==
    /\ up /\ m \in Leavers /\ disk.room.status # "archived" /\ Present(Now, m)
    /\ Then(SetMember(CancelAllOf(Now, m), m, "removed"))

-----------------------------------------------------------------------------
(* What agents do.  An agent whose signal is aborted calls no more tools. *)

Acting == mem.turns \ mem.aborted

\* runDepth: the deepest envelope that this very run has sent.
RunDepth(s, i) ==
    LET own == {e \in DOMAIN s.disk.mail : s.disk.mail[e].from = i}
    IN  IF own = {} THEN 0 ELSE Max({s.disk.mail[e].depth : e \in own})

Post(s, i, m, type) ==
    LET depth == RunDepth(s, i) + (IF type = "question" THEN 1 ELSE 0)
    IN  [s EXCEPT !.disk.mail =
            Append(@, [from |-> i, to |-> m, type |-> type, depth |-> depth,
                       state |-> "pending", delivery |-> "outbox", run |-> 0])]

\* Mutant of Dispatch: the key of an earlier delivery is not looked up.
DispatchAgain(s, e) ==
    LET n == Len(s.disk.run) + 1
    IN  [Add(s, s.disk.mail[e].to, <<"mail", e>>) EXCEPT
            !.disk.mail[e].delivery = "dispatched", !.disk.mail[e].run = n]

\* dispatchEnvelope: the receiver gets a run, unless an earlier delivery of
\* the envelope has made it; whether it is still a member is not asked.
Dispatch(s, e) ==
    LET old == RunsFor(s, <<"mail", e>>)
        n   == IF old = {} THEN Len(s.disk.run) + 1 ELSE Min(old)
        t   == IF old = {} THEN Add(s, s.disk.mail[e].to, <<"mail", e>>) ELSE s
    IN  [t EXCEPT !.disk.mail[e].delivery = "dispatched", !.disk.mail[e].run = n]

MayPost(i, m) ==
    /\ Active /\ i \in Acting /\ Status(Now, i) \in {"running", "awaiting_peer"}
    /\ m # Seat(Now, i)
    /\ RunDepth(Now, i) < MaxA2ADepth
    /\ MayAsk /\ Fits(1)

RoomSend(i, m) ==
    /\ MayPost(i, m)
    /\ Then(Dispatch(Post(Now, i, m, "message"), Len(disk.mail) + 1))

\* roomAsk and markRunAwaitingPeer.
RoomAsk(i, m) ==
    LET s == Dispatch(Post(Now, i, m, "question"), Len(disk.mail) + 1)
    IN  /\ MayPost(i, m)
        /\ Then(IF Status(s, i) # "running" THEN s
                ELSE Sync(Park(s, i, "awaiting_peer"), Seat(s, i)))

\* The first part of roomReply: the question is answered, and the asker done
\* if it is still to be woken.
Wakes(s, e) ==
    /\ s.disk.room.status = "active"
    /\ Status(s, s.disk.mail[e].from) = "awaiting_peer"
    /\ RunsFor(s, <<"reply", e>>) = {}
Answered(s, e) ==
    LET t == [s EXCEPT !.disk.mail[e].state = "answered"]
    IN  IF Wakes(s, e) THEN SetStatus(t, s.disk.mail[e].from, "done") ELSE t

MayReply(i, e) ==
    /\ up /\ i \in Acting /\ Fits(1)
    /\ disk.mail[e].type = "question" /\ disk.mail[e].state = "pending"
    /\ disk.mail[e].to = Seat(Now, i)

\* roomReply and enqueueAskerContinuation.
RoomReply(i, e) ==
    /\ MayReply(i, e)
    /\ Then(IF Wakes(Now, e)
            THEN Add(Answered(Now, e), Seat(Now, disk.mail[e].from), <<"reply", e>>)
            ELSE Answered(Now, e))

\* requestUserApproval.
RequestUserApproval(i) ==
    LET s == [Now EXCEPT !.disk.approval = Append(@, [run |-> i, status |-> "pending"])]
    IN  /\ up /\ i \in Acting /\ Status(Now, i) = "running"
        /\ MayAsk
        /\ Then(SetMember(Park(s, i, "awaiting_user"), Seat(s, i), "awaiting_user"))

Decided(s, k, decision) ==
    LET i == s.disk.approval[k].run
        t == [s EXCEPT !.disk.approval[k].status = decision]
    IN  IF Status(s, i) # "awaiting_user" THEN t
        ELSE SetStatus(t, i, IF decision = "denied" THEN "failed" ELSE "done")

\* resolveUserApproval.
ResolveUserApproval(k, decision) ==
    LET s == Decided(Now, k, decision)
        m == Seat(Now, disk.approval[k].run)
    IN  /\ up /\ disk.approval[k].status = "pending" /\ Fits(1)
        /\ Then(IF decision = "denied" \/ disk.room.status # "active" THEN Sync(s, m)
                ELSE Add(s, m, <<"approval", k>>))

\* Mutant of Settled: the answer of a turn is published whatever became of it.
SettledAnyhow(s, i, outcome) ==
    IF outcome = "error" THEN SetStatus(s, i, "failed")
    ELSE [SetStatus(s, i, "done") EXCEPT !.disk.said = @ \cup {i}]

\* What executeRun makes of the outcome: a run that is not running any more
\* keeps its status, and a member that was removed says nothing.
Settled(s, i, outcome) ==
    IF Status(s, i) # "running" THEN s
    ELSE IF outcome = "error" THEN SetStatus(s, i, "failed")
    ELSE IF ~Present(s, Seat(s, i)) THEN SetStatus(s, i, "cancelled")
    ELSE [SetStatus(s, i, "done") EXCEPT !.disk.said = @ \cup {i}]

\* The turn ends, and executeRun with it.
TurnReturns(i, outcome) ==
    LET s == [Settled(Now, i, outcome) EXCEPT
                 !.mem.turns = @ \ {i}, !.mem.aborted = @ \ {i}, !.mem.inflight = @ \ {i}]
    IN  /\ up /\ i \in mem.turns
        /\ Then(Sync(Release(s, i), Seat(s, i)))

-----------------------------------------------------------------------------
(* Crash and restart. *)

Die(d) ==
    /\ crashes < MaxCrashes
    /\ up' = FALSE /\ mem' = NoMemory /\ disk' = d
    /\ crashes' = crashes + 1

Crash == up /\ Die(disk)

\* In the middle of roomSend or roomAsk: the envelope is stored, and maybe
\* the run, queued or already started, and that it was dispatched, but not
\* that the asker waits.
CrashWhileSending(i, m, type) ==
    LET e == Len(disk.mail) + 1
        s == Post(Now, i, m, type)
    IN  /\ MayPost(i, m)
        /\ \/ Die(s.disk) \/ Die(NewRun(s, m, <<"mail", e>>).disk)
           \/ Die(Add(s, m, <<"mail", e>>).disk) \/ Die(Dispatch(s, e).disk)

\* The run waits for the user and the request to the user is not stored.
CrashBeforeRequest(i) ==
    up /\ i \in Acting /\ Status(Now, i) = "running" /\ Die(SetStatus(Now, i, "awaiting_user").disk)

\* Before the run of a continuation is stored: nothing makes up for it.
CrashBeforeReplyRun(i, e) == MayReply(i, e) /\ Die(Answered(Now, e).disk)
CrashBeforeApprovalRun(k, decision) ==
    up /\ disk.approval[k].status = "pending" /\ Die(Decided(Now, k, decision).disk)

\* Mutant of RecoverRun: a run found running is queued again, too.
RecoverByReplay(s, i) ==
    LET m == Seat(s, i)
    IN  IF Status(s, i) \in {"queued", "running"}
        THEN Sync(Admit(SetStatus(s, i, "queued"), i), m) ELSE s

\* A run found queued is queued again, if there is someone to work on it; one
\* found running is blocked, for nobody knows what it has done.
RecoverRun(s, i) ==
    LET m == Seat(s, i)
    IN  IF Status(s, i) = "queued" /\ s.disk.room.status # "archived" /\ Present(s, m)
        THEN Sync(Admit(s, i), m)
        ELSE IF Status(s, i) = "queued" THEN Sync(SetStatus(s, i, "failed"), m)
        ELSE IF Status(s, i) = "running" THEN Sync(SetStatus(s, i, "blocked"), m)
        ELSE s

BlockAwaiting(s, i) ==
    IF Status(s, i) = "awaiting_peer" THEN Sync(SetStatus(s, i, "blocked"), Seat(s, i)) ELSE s

\* The work of an envelope ended in the middle, with an unknown outcome.
OutcomeUnknown(s, runs) ==
    [s EXCEPT !.disk.mail = Marked(@, runs, {"dispatched", "accepted"}, "outcome_unknown")]

\* recoverInterruptedRuns, in its order.
RecoverInterruptedRuns ==
    LET interrupted == {i \in DOMAIN disk.run : Status(Now, i) = "running"}
        Outbox(e) == disk.mail[e].delivery = "outbox" /\ disk.mail[e].run = 0
        s1 == FoldLeftDomain(RecoverRun, Now, disk.run)
        s2 == FoldLeftDomain(BlockAwaiting, s1, disk.run)
        s3 == FoldLeftDomain(LAMBDA t, e : IF Outbox(e) THEN Dispatch(t, e) ELSE t,
                             OutcomeUnknown(s2, interrupted), disk.mail)
    IN  /\ ~up /\ up' = TRUE
        /\ disk' = s3.disk /\ mem' = s3.mem /\ UNCHANGED crashes

-----------------------------------------------------------------------------
UserNext ==
    \/ \E targets \in Addressed : UserMessage(targets)
    \/ \E status \in {"active", "paused", "archived"}, n \in Limits : UpdateRoom(status, n)
    \/ \E i \in DOMAIN disk.run :
           \/ CancelRun(i) \/ ConfirmResume(i)
           \/ \E m \in Member : RetryRun(i, m)
    \/ \E m \in Member : RemoveMember(m) \/ \E c \in BOOLEAN : SetBotOwnerConsent(m, c)
    \/ \E k \in DOMAIN disk.approval, d \in {"approved", "denied"} : ResolveUserApproval(k, d)

AgentNext ==
    \E i \in mem.turns :
        \/ \E m \in Member : RoomSend(i, m) \/ RoomAsk(i, m)
        \/ \E e \in DOMAIN disk.mail : RoomReply(i, e)
        \/ RequestUserApproval(i)
        \/ \E outcome \in {"text", "error"} : TurnReturns(i, outcome)

CrashNext ==
    \/ Crash
    \/ \E i \in mem.turns :
           \/ \E m \in Member, type \in {"message", "question"} : CrashWhileSending(i, m, type)
           \/ \E e \in DOMAIN disk.mail : CrashBeforeReplyRun(i, e)
           \/ CrashBeforeRequest(i)
    \/ \E k \in DOMAIN disk.approval, d \in {"approved", "denied"} : CrashBeforeApprovalRun(k, d)
    \/ RecoverInterruptedRuns

Next == UserNext \/ AgentNext \/ CrashNext

Spec == Init /\ [][Next]_vars

-----------------------------------------------------------------------------
RunStatus == {"queued", "running", "awaiting_peer", "awaiting_user", "blocked",
              "done", "failed", "cancelled"}
Runs == DOMAIN disk.run

\* Types, and what is in the queue: the runs stored as queued, each once.
RoomTypeOK ==
    /\ disk.room \in [status : {"active", "paused", "archived"}, max : Limits]
    /\ disk.member \in [Member -> [status : {"idle", "queued", "running", "awaiting_user", "removed"},
                                   consent : BOOLEAN]]
    /\ Len(disk.run) <= MaxRuns
    /\ \A i \in Runs : disk.run[i].member \in Member /\ disk.run[i].status \in RunStatus
    /\ IsInjective(mem.queue)
    /\ up => ToSet(mem.queue) = {i \in Runs : disk.run[i].status = "queued"}
    /\ mem.slots \cup mem.aborted \subseteq mem.turns
    /\ disk.said \subseteq Runs

\* A run is running just when it holds a slot and its executor is alive, and a
\* slot is held until the executor of a cancelled run has really ended:
\* cancelRun, the parking of a run and the end of an executor that no longer
\* owns its run must give each slot back once (collaboration-room-scheduler.ts
\* release).
SlotsMatchTurns ==
    up => mem.slots = {i \in Runs : disk.run[i].status = "running"}
                      \cup {i \in mem.turns : disk.run[i].status = "cancelled"}

\* No slot stays empty that a waiting run could take, whatever ended, was
\* cancelled, parked or changed (RoomScheduler.drain).
NoIdleSlot == \A k \in DOMAIN mem.queue : ~CanStart(Now, mem.queue[k])

\* A member works on one thing at a time, though the executor of a run that
\* was parked may still be ending (member-internal serial order).
OneTurnPerMember ==
    \A i, j \in mem.turns \ mem.aborted : i # j => disk.run[i].member # disk.run[j].member

\* What a turn says is published only if its run was still running and in its
\* slot, and a late executor, a cancellation or a restart does not rewrite a
\* run that was settled or blocked, nor queue again one that had begun
\* (executeRun's casThisRun, recoverInterruptedRuns).
SpeaksOnlyWhileRunning ==
    [][/\ \A i \in disk'.said \ disk.said : disk.run[i].status = "running" /\ i \in mem.slots
       /\ \A i \in Runs :
             /\ disk.run[i].status \in {"done", "failed", "cancelled", "blocked"}
                => disk'.run[i].status = disk.run[i].status
             /\ disk.run[i].status # "queued" => disk'.run[i].status # "queued"]_vars

\* Nothing is worked on twice: one envelope, answer or approval starts one
\* run, also if the process dies in the middle of it and delivers again.
OneRunPerCause ==
    \A i, j \in Runs : i # j /\ disk.run[i].cause = disk.run[j].cause
                       => disk.run[i].cause[1] \in {"user", "again"}
                          /\ (disk.run[i].cause[1] = "user" => disk.run[i].member # disk.run[j].member)

-----------------------------------------------------------------------------
(* What the documents say and the code does not do, see the README. *)

\* How many members a run's trigger has gone through.
ChainDepth ==
    LET depth[i \in Runs] ==
            LET c == disk.run[i].cause IN
            CASE c[1] = "mail" -> IF disk.mail[c[2]].type = "question"
                                  THEN depth[disk.mail[c[2]].from] + 1
                                  ELSE depth[disk.mail[c[2]].from]
              [] c[1] = "reply" -> depth[disk.mail[c[2]].from]
              [] c[1] = "approval" -> depth[disk.approval[c[2]].run]
              [] c[1] = "again" -> depth[c[2]]
              [] OTHER -> 0
    IN  depth

\* "Every trigger chain carries its depth, 4 by default".
ChainBounded == \A i \in Runs : ChainDepth[i] <= MaxA2ADepth

\* Only executions are on file as in flight, so that waiting for them ends.
InflightIsExecuting == mem.inflight \subseteq mem.turns

\* After a restart no member is shown running that is not.
NoFalseRunning ==
    up => \A m \in Member : disk.member[m].status = "running" => Busy(Now, m)

\* A member that was removed stays removed.
RemovedStays == [][\A m \in Member : ~Present(Now, m) => ~Present(Now, m)']_vars
=============================================================================
