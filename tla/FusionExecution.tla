-------------------------- MODULE FusionExecution --------------------------
(***************************************************************************)
(* How a Fusion room's actions become model turns, and what a restart      *)
(* makes of the turns that were cut off: the execution bridge              *)
(* (fusion-room-execution-bridge.ts), the outbox worker                    *)
(* (fusion-room-outbox-worker.ts), Host.recoverInterruptedRuns, and the    *)
(* runtime that starts them in order (fusion-room-runtime.ts), over the    *)
(* authority's runs, mailbox and approvals.                                *)
(*                                                                         *)
(* JavaScript runs a callback to its end before it starts another.  Such a *)
(* tick is a sequence of dispatches, each of which the Host persists, so   *)
(* the process may die between two of them.  "due" holds the calls the     *)
(* current tick has still to make; while it is not empty no other tick     *)
(* takes a step.  Every dispatch is saved: FusionHost says what happens    *)
(* when a save fails.  The provider behind adapter.runTurn is external: a  *)
(* turn uses tools and returns or throws whenever it likes.                *)
(***************************************************************************)
EXTENDS FusionMailbox

CONSTANT MaxCrashes   \* bound on how often the process dies

VARIABLES
    phase,      \* what the process does: serving, closing, or starting again
    due,        \* calls the current tick has still to make
    turn,       \* runs whose runTurn call has not settled
    source,     \* source[r]: the message run r works on (triggerMessageId)
    target,     \* target[m]: targetMemberIds of user message m, {} before it is sent
    confirmed,  \* runs and envelopes whose resumption a user has confirmed
    posted,     \* runs whose member message has been appended
    items,      \* continuations the worker has still to look at
    processed,  \* the worker's processedKeys
    stored,     \* processedKeys in the worker's state file
    crashes     \* how often the process has died

execVars == <<vars, mailVars, phase, due, turn, source, target, confirmed, posted,
              items, processed, stored, crashes>>
roomVars   == <<vars, mailVars>>
workerVars == <<items, processed, stored>>

\* A call of schedule: why, for what, and for which seat.  The run it starts
\* has it as key.
Job == ({"message"} \X Msg \X SeatId)
       \cup ({"mailbox", "redeliver"} \X Env \X SeatId)
       \cup ({"approval"} \X Approval \X SeatId)
       \cup ({"resume"} \X RunId \X SeatId)

\* The other dispatches a tick makes after its first.
Call == ({"park"} \X (Env \cup Approval) \X SeatId)
        \cup ({"finish"} \X RunId \X SeatId)

ASSUME JobAssumption == Job \subseteq StartKey
ASSUME CrashAssumption == MaxCrashes \in Nat
ASSUME IdAssumption == None \notin Msg /\ Env \cap (RunId \cup Approval) = {}
    \* a user message has an id, and no id is given twice (randomUUID)

For(why, what, s)  == <<why, what, s>>
Why(j)  == j[1]
What(j) == j[2]
To(j)   == j[3]
Pending(why, what) == \E s \in SeatId : For(why, what, s) \in due

Serving == phase \in {"up", "closing"}
Idle    == Serving /\ due = {}

\* handleAction does nothing once the bridge has been disposed of.
Handled(jobs) == IF phase = "closing" THEN {} ELSE jobs

-----------------------------------------------------------------------------
ExecInit ==
    /\ MailInit
    /\ phase = "up"
    /\ due = {} /\ turn = {} /\ confirmed = {} /\ posted = {}
    /\ source = [r \in RunId |-> None]
    /\ target = [m \in Msg |-> {}]
    /\ items = {} /\ processed = {} /\ stored = {}
    /\ crashes = 0

-----------------------------------------------------------------------------
(* What users do: HTTP actions, each followed by onAction. *)

PostMessage(u, m, seats) ==
    /\ Idle
    /\ ActiveRoom /\ Active(u)
    /\ target[m] = {} /\ seats # {} /\ \A s \in seats : Live(s)
    /\ target' = [target EXCEPT ![m] = seats]
    /\ due' = Handled({For("message", m, s) : s \in seats})
    /\ UNCHANGED <<roomVars, phase, turn, source, confirmed, posted, workerVars, crashes>>

\* The client repeats the call with its key and gets the message it made.
RepostMessage(u, m) ==
    /\ Idle
    /\ ActiveRoom /\ Active(u)
    /\ target[m] # {}
    /\ due' = Handled({For("message", m, s) : s \in target[m]})
    /\ UNCHANGED <<roomVars, phase, turn, source, target, confirmed, posted, workerVars, crashes>>

\* The decision, or the earlier one when the request is decided already.
Resolve(u, p, decision) ==
    /\ Idle
    /\ IF approval[p].status = "pending"
       THEN ResolveUserApproval(u, p, decision)
       ELSE /\ ActiveRoom /\ Active(u)
            /\ approval[p].status # "none"
            /\ UNCHANGED roomVars
    /\ due' = Handled({For("approval", p, run[approval[p].run].seat)})
    /\ UNCHANGED <<phase, turn, source, target, confirmed, posted, workerVars, crashes>>

ConfirmBlockedRun(u, r) ==
    /\ Idle
    /\ ActiveRoom /\ Active(u)
    /\ run[r].status = "blocked"
    /\ confirmed' = confirmed \cup {r}
    /\ due' = Handled({For("resume", r, run[r].seat)})
    /\ UNCHANGED <<roomVars, phase, turn, source, target, posted, workerVars, crashes>>

\* A repeated call with its key starts the redelivery again.
ConfirmEnvelope(u, e) ==
    /\ Idle
    /\ IF e \in confirmed THEN ActiveRoom /\ Active(u) /\ UNCHANGED roomVars
                         ELSE ConfirmOutbox(u, e)
    /\ confirmed' = confirmed \cup {e}
    /\ due' = Handled({For("redeliver", e, env[e].to)})
    /\ UNCHANGED <<phase, turn, source, target, posted, workerVars, crashes>>

\* Mutant of Retry: the retried run does not know its message.
RetryLosingSource(u, old, r) ==
    /\ Idle
    /\ RetryRun(u, old, None, r, TRUE)
    /\ turn' = IF phase = "up" THEN turn \cup {r} ELSE turn
    /\ UNCHANGED <<mailVars, phase, due, source, target, confirmed, posted, workerVars, crashes>>

\* The run is created by the retry itself; the bridge executes it at once.
Retry(u, old, r) ==
    /\ Idle
    /\ RetryRun(u, old, None, r, TRUE)
    /\ source' = [source EXCEPT ![r] = source[old]]
    /\ turn' = IF phase = "up" THEN turn \cup {r} ELSE turn
    /\ UNCHANGED <<mailVars, phase, due, target, confirmed, posted, workerVars, crashes>>

\* The turn's signal is aborted too, but the turn ends when it likes.
Cancel(u, r) ==
    /\ Idle
    /\ FinishRun(u, r, "cancelled")
    /\ UNCHANGED <<mailVars, phase, due, turn, source, target, confirmed, posted,
                   workerVars, crashes>>

Consent(u, s, agreed) ==
    /\ Idle
    /\ SetConsent(u, s, agreed)
    /\ UNCHANGED <<mailVars, phase, due, turn, source, target, confirmed, posted,
                   workerVars, crashes>>

-----------------------------------------------------------------------------
(* schedule and the synchronous start of execute. *)

InFlight(j) == \E r \in turn : run[r].key = j

\* The message execute works on.
SourceOf(j) ==
    CASE Why(j) = "message" -> What(j)
      [] Why(j) \in {"mailbox", "redeliver"} -> env[What(j)].root
      [] Why(j) = "approval" -> source[approval[What(j)].run]
      [] Why(j) = "resume" -> source[What(j)]

\* startRun throws, or returns the run an earlier start with the key made.
Refused(j) ==
    \/ ~ActiveRoom \/ ~Active(Owner)
    \/ ~Live(To(j)) \/ ~CanRun(To(j))
    \/ seat[To(j)].status = "running"
    \/ ~Unused(j)

Start(j, r) ==
    /\ j \in due \cap Job
    /\ ~InFlight(j)
    /\ StartRun(Owner, To(j), r, TRUE, j)
    /\ source' = [source EXCEPT ![r] = SourceOf(j)]
    /\ turn' = turn \cup {r}
    /\ due' = due \ {j}
    /\ UNCHANGED <<mailVars, phase, target, confirmed, posted, workerVars, crashes>>

\* Nothing is started and nobody is told.
Drop(j) ==
    /\ j \in due \cap Job
    /\ InFlight(j) \/ Refused(j)
    /\ due' = due \ {j}
    /\ UNCHANGED <<roomVars, phase, turn, source, target, confirmed, posted, workerVars, crashes>>

-----------------------------------------------------------------------------
(* What a turn does: the host tools, and its end. *)

CanCallTools(r) == Idle /\ r \in turn /\ IsRunning(r)

RoomSend(r, to, e) ==
    /\ CanCallTools(r)
    /\ SendMailbox(Owner, r, to, "message", e, source[r])
    /\ due' = Handled({For("mailbox", e, to)})
    /\ UNCHANGED <<phase, turn, source, target, confirmed, posted, workerVars, crashes>>

\* The model repeats a call; the tool's key finds the envelope it made.
RoomSendAgain(r, e) ==
    /\ CanCallTools(r)
    /\ ActiveRoom /\ Active(Owner)
    /\ env[e].kind = "message" /\ env[e].cause = r
    /\ Live(env[e].to) /\ CanRun(env[e].to)
    /\ due' = Handled({For("mailbox", e, env[e].to)})
    /\ UNCHANGED <<roomVars, phase, turn, source, target, confirmed, posted, workerVars, crashes>>

\* Mutant of RoomAsk: the run parks before its question is sent.
AskParkingFirst(r, to, e) ==
    /\ CanCallTools(r)
    /\ run[r].seat # to /\ Live(to) /\ CanRun(to) /\ ~Sent(e)
    /\ AwaitRun(Owner, r, "awaiting_peer")
    /\ UNCHANGED <<mailVars, phase, due, turn, source, target, confirmed, posted,
                   workerVars, crashes>>

RoomAsk(r, to, e) ==
    /\ CanCallTools(r)
    /\ SendMailbox(Owner, r, to, "question", e, source[r])
    /\ due' = {For("park", e, run[r].seat)}
    /\ UNCHANGED <<phase, turn, source, target, confirmed, posted, workerVars, crashes>>

\* room_ask goes on: the run parks, then the peer is woken.
ParkAsker(e) ==
    /\ Pending("park", e)
    /\ AwaitRun(Owner, env[e].cause, "awaiting_peer")
    /\ due' = Handled({For("mailbox", e, env[e].to)})
    /\ UNCHANGED <<mailVars, phase, turn, source, target, confirmed, posted, workerVars, crashes>>

\* The answer wakes the seat whose run asked.
RoomReply(r, q, e) ==
    /\ CanCallTools(r)
    /\ ReplyMailbox(Owner, q, r, e)
    /\ due' = Handled({For("mailbox", e, run[env[q].cause].seat)})
    /\ UNCHANGED <<phase, turn, source, target, confirmed, posted, workerVars, crashes>>

RoomRequestUser(r, p) ==
    /\ CanCallTools(r)
    /\ RequestUserApproval(Owner, r, p)
    /\ due' = {For("park", p, run[r].seat)}
    /\ UNCHANGED <<phase, turn, source, target, confirmed, posted, workerVars, crashes>>

ParkForUser(p) ==
    /\ Pending("park", p)
    /\ AwaitRun(Owner, approval[p].run, "awaiting_user")
    /\ due' = {}
    /\ UNCHANGED <<mailVars, phase, turn, source, target, confirmed, posted, workerVars, crashes>>

\* runTurn returned a text: the message is appended, then the run finished.
TurnReturns(r) ==
    /\ Idle /\ r \in turn
    /\ ActiveRoom /\ Active(Owner)
    /\ Live(run[r].seat) /\ CanRun(run[r].seat)
    /\ posted' = posted \cup {r}
    /\ due' = {For("finish", r, run[r].seat)}
    /\ UNCHANGED <<roomVars, phase, turn, source, target, confirmed, workerVars, crashes>>

\* Mutant of Finished: a failed turn leaves its run as it is.
FinishedOnSuccess(r, status) ==
    IF IsRunning(r) /\ status = "completed" THEN FinishRun(Owner, r, status) ELSE UNCHANGED vars

\* finishRun, which leaves a run alone that is no longer running.
Finished(r, status) ==
    IF IsRunning(r) THEN FinishRun(Owner, r, status) ELSE UNCHANGED vars

EndTurn(r) ==
    /\ Pending("finish", r)
    /\ Finished(r, "completed")
    /\ turn' = turn \ {r}
    /\ due' = {}
    /\ UNCHANGED <<mailVars, phase, source, target, confirmed, posted, workerVars, crashes>>

\* runTurn threw or returned nothing, or the message was refused.
TurnFails(r) ==
    /\ Idle /\ r \in turn
    /\ Finished(r, "failed")
    /\ turn' = turn \ {r}
    /\ UNCHANGED <<mailVars, phase, due, source, target, confirmed, posted, workerVars, crashes>>

-----------------------------------------------------------------------------
(* The life of the process. *)

\* What dies with the process: the turns and everything held in memory.
Forgotten ==
    /\ phase' = "down"
    /\ due' = {} /\ turn' = {} /\ items' = {}
    /\ processed' = stored

Crash ==
    /\ phase # "down"
    /\ crashes < MaxCrashes
    /\ crashes' = crashes + 1
    /\ Forgotten
    /\ UNCHANGED <<roomVars, source, target, confirmed, posted, stored>>

\* close: the bridge is disposed of and waits for its turns to settle,
\* while the server still accepts actions.
Close ==
    /\ phase = "up" /\ due = {}
    /\ phase' = "closing"
    /\ UNCHANGED <<roomVars, due, turn, source, target, confirmed, posted, workerVars, crashes>>

Closed ==
    /\ phase = "closing" /\ due = {} /\ turn = {}
    /\ Forgotten
    /\ UNCHANGED <<roomVars, source, target, confirmed, posted, stored, crashes>>

Boot ==
    /\ phase = "down"
    /\ phase' = "recovering"
    /\ UNCHANGED <<roomVars, due, turn, source, target, confirmed, posted, workerVars, crashes>>

\* recoverInterruptedRuns blocks the runs one dispatch at a time.
Recover(r) ==
    /\ phase = "recovering"
    /\ FinishRun(Owner, r, "blocked")
    /\ UNCHANGED <<mailVars, phase, due, turn, source, target, confirmed, posted,
                   workerVars, crashes>>

\* Mutant of Drainable: a blocked run counts as one the worker may drive.
DrainableWithBlocked ==
    {For("redeliver", e, env[e].to) : e \in {x \in Env : MailboxOutbox(x)}}
    \cup {For("approval", p, run[approval[p].run].seat) :
            p \in {x \in Approval : ApprovedAwaitingResume(x)}}
    \cup {For("resume", r, run[r].seat) : r \in {x \in RunId : run[x].status = "blocked"}}

\* The continuations classifyOutboxDrain calls "auto".
Drainable ==
    {For("redeliver", e, env[e].to) : e \in {x \in Env : MailboxOutbox(x)}}
    \cup {For("approval", p, run[approval[p].run].seat) :
            p \in {x \in Approval : ApprovedAwaitingResume(x)}}

\* Mutant of BeginDrain: it does not wait for the recovery.
BeginDrainAtOnce ==
    /\ phase = "recovering"
    /\ phase' = "draining"
    /\ items' = Drainable
    /\ UNCHANGED <<roomVars, due, turn, source, target, confirmed, posted, processed,
                   stored, crashes>>

BeginDrain ==
    /\ phase = "recovering"
    /\ \A r \in RunId : ~IsRunning(r)
    /\ phase' = "draining"
    /\ items' = Drainable
    /\ UNCHANGED <<roomVars, due, turn, source, target, confirmed, posted, processed,
                   stored, crashes>>

\* Mutant of Drain: an item already processed is looked at again and again.
DrainSkippingInPlace(j) ==
    /\ phase = "draining" /\ due = {}
    /\ j \in items
    /\ IF j \in processed
       THEN UNCHANGED <<roomVars, due, items, processed>>
       ELSE /\ IF Why(j) = "redeliver" THEN ConfirmOutbox(Owner, What(j)) ELSE UNCHANGED roomVars
            /\ due' = {j}
            /\ items' = items \ {j}
            /\ processed' = processed \cup {j}
    /\ UNCHANGED <<phase, turn, source, target, confirmed, posted, stored, crashes>>

\* One item of the drain, in any order.  An item already processed is
\* skipped; an envelope is marked dispatched before its turn is started.
Drain(j) ==
    /\ phase = "draining" /\ due = {}
    /\ j \in items
    /\ items' = items \ {j}
    /\ IF j \in processed
       THEN UNCHANGED <<roomVars, due, processed>>
       ELSE /\ IF Why(j) = "redeliver" THEN ConfirmOutbox(Owner, What(j)) ELSE UNCHANGED roomVars
            /\ due' = {j}
            /\ processed' = processed \cup {j}
    /\ UNCHANGED <<phase, turn, source, target, confirmed, posted, stored, crashes>>

\* The state file is written once, at the end; a failed write is ignored.
EndDrain ==
    /\ phase = "draining" /\ due = {} /\ items = {}
    /\ stored' \in {stored, processed}
    /\ phase' = "up"
    /\ UNCHANGED <<roomVars, due, turn, source, target, confirmed, posted, items,
                   processed, crashes>>

-----------------------------------------------------------------------------
UserNext ==
    \E u \in User :
        \/ \E m \in Msg : \/ \E seats \in SUBSET SeatId : PostMessage(u, m, seats)
                          \/ RepostMessage(u, m)
        \/ \E p \in Approval, decision \in {"approved", "denied"} : Resolve(u, p, decision)
        \/ \E e \in Env : ConfirmEnvelope(u, e)
        \/ \E r \in RunId : \/ ConfirmBlockedRun(u, r)
                            \/ \E old \in RunId : Retry(u, old, r)
                            \/ Cancel(u, r)
        \/ \E s \in SeatId, agreed \in BOOLEAN : Consent(u, s, agreed)

ToolNext ==
    \E r \in RunId :
        \/ \E e \in Env : \/ \E to \in SeatId : RoomSend(r, to, e) \/ RoomAsk(r, to, e)
                          \/ \E q \in Env : RoomReply(r, q, e)
                          \/ RoomSendAgain(r, e)
        \/ \E p \in Approval : RoomRequestUser(r, p)

TickNext ==
    \/ \E j \in Job : Drop(j) \/ \E r \in RunId : Start(j, r)
    \/ \E e \in Env : ParkAsker(e)
    \/ \E p \in Approval : ParkForUser(p)
    \/ \E r \in RunId : EndTurn(r)

TurnNext == \E r \in RunId : TurnReturns(r) \/ TurnFails(r)

ProcessNext ==
    \/ Crash \/ Close \/ Closed \/ Boot \/ BeginDrain \/ EndDrain
    \/ \E r \in RunId : Recover(r)
    \/ \E j \in Job : Drain(j)

\* Bound: what users and tools set going leaves a run id for every start
\* that is due now or that a restart would make.
Starts ==
    {j \in (due \cap Job) \cup items \cup Drainable : Unused(j)}
    \cup {For("mailbox", e, env[e].to) : e \in {x \in Env : Pending("park", x)}}
RunIdsLeft ==
    Cardinality(Starts) <= Cardinality({r \in RunId : run[r].status = "none"})

ExecNext == ((UserNext \/ ToolNext) /\ RunIdsLeft') \/ TickNext \/ TurnNext \/ ProcessNext

ExecSpec == ExecInit /\ [][ExecNext]_execVars

\* The event loop comes back to every pending callback, every turn settles
\* (the adapter's time limit) and a process that starts goes on starting.
FairExec ==
    /\ ExecSpec
    /\ WF_execVars(TickNext)
    /\ WF_execVars(Closed \/ Boot \/ BeginDrain \/ EndDrain)
    /\ WF_execVars(\E r \in RunId : Recover(r))
    /\ WF_execVars(\E j \in Job : Drain(j))
    /\ \A r \in RunId : SF_execVars(TurnReturns(r) \/ TurnFails(r))

-----------------------------------------------------------------------------
Phase == {"up", "closing", "down", "recovering", "draining"}

\* The type of every variable of the bridge and the worker.
ExecTypeOK ==
    /\ phase \in Phase
    /\ due \subseteq Job \cup Call
    /\ turn \subseteq RunId /\ posted \subseteq RunId
    /\ confirmed \subseteq RunId \cup Env
    /\ source \in [RunId -> Msg \cup {None}]
    /\ target \in [Msg -> SUBSET SeatId]
    /\ items \subseteq Job /\ processed \subseteq Job /\ stored \subseteq Job
    /\ crashes \in 0..MaxCrashes
    /\ \A r \in RunId : source[r] = None <=> run[r].status = "none"

(* While the room is served, a run is marked running only if some turn of  *)
(* this very process works on it: nothing a crash, a refused start or a    *)
(* cancelled turn leaves behind keeps a seat busy for ever.                *)
NoOrphanRun ==
    Idle /\ phase = "up" => \A r \in RunId : IsRunning(r) => r \in turn

(* recoverInterruptedRuns: "awaiting peer/user runs remain recoverable     *)
(* through their durable mailbox/approval state".  A parked run has its    *)
(* question or request on record, whenever the process dies.               *)
ParkedHasReason ==
    \A r \in RunId :
        /\ run[r].status = "awaiting_peer" => \E e \in Env : Question(e) /\ env[e].cause = r
        /\ run[r].status = "awaiting_user" => \E p \in Approval : approval[p].run = r

(* Work of unknown effect is never replayed: a run that a crash blocked is *)
(* taken up again only after a user confirmed it, as a run of its own, and *)
(* the blocked one stays blocked.                                          *)
BlockedNeedsUser ==
    \A q, r \in RunId : \A s \in SeatId :
        run[r].key = For("resume", q, s) => q \in confirmed /\ run[q].status = "blocked"

(* One piece of work gets one run, across repeated calls, resolved twice,  *)
(* confirmed again, crashed and drained again: OneRunPerKey of the room,   *)
(* under the keys the bridge makes.                                        *)
OneRunPerJob == OneRunPerKey

(* A run that has been marked running ends, and a process that is down     *)
(* comes to serve the room again, whatever it finds.                       *)
RunsEnd  == \A r \in RunId : IsRunning(r) ~> ~IsRunning(r)
Restarts == phase = "down" ~> phase = "up"

(* 00-MASTER: "same member runs only one turn at a time".                  *)
OneTurnPerSeat == \A r, q \in turn : run[r].seat = run[q].seat => r = q

(* 02-RUNTIME-A2A-SPEC: a later message enters the member's queue, so once *)
(* the tick is over every target of a message has been given a run.        *)
MessagesQueued ==
    Idle /\ phase = "up" =>
        \A m \in Msg : \A s \in target[m] : \E r \in RunId : run[r].key = For("message", m, s)

(* Worker header: only what has not started any model call is redelivered. *)
RedeliveredWasUnstarted ==
    \A e \in Env : \A s \in SeatId :
        ~ \E r, q \in RunId : /\ run[r].key = For("mailbox", e, s)
                              /\ run[q].key = For("redeliver", e, s)

(* 04-HERMES-BORROW-SPEC: an envelope is dispatched once it is enqueued.   *)
DispatchedIsStarted ==
    Idle /\ phase = "up" =>
        \A e \in Env : env[e].delivery = "dispatched" =>
            \E r \in RunId : run[r].key = For("redeliver", e, env[e].to)

(* The late result of an old process or an old turn is refused: no text is *)
(* appended for a run that has been settled already.                       *)
LateResultsRefused ==
    [][\A r \in posted' \ posted : run[r].status \notin Settled]_execVars

=============================================================================
