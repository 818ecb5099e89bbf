--------------------------- MODULE SessionService ---------------------------
(***************************************************************************)
(* The turns of one session: sending a message, steering, stopping,        *)
(* changing between Chat and Work, and switching the agent kernel          *)
(* (ipc/session-service.ts, agent/runtime/runtime-switch.ts) on top of     *)
(* SessionRuntime.                                                         *)
(*                                                                         *)
(* A handler runs without interruption between two awaits; what is awaited *)
(* is another handler's or the kernel's doing and may take any time.       *)
(* Messages come from the window, from a steering text that was kept for   *)
(* the next turn, and from a background subagent that reports back.        *)
(* Everything is held in memory except the handoff, the kernel and the     *)
(* mode, which are in the session's record.  Left out are the validation   *)
(* of the target channel, approvals, collaboration rooms and rounds of     *)
(* several models, which never reach a SessionRuntime.                     *)
(***************************************************************************)
EXTENDS SessionRuntime, Sequences, FiniteSets

CONSTANTS
    Overlap,  \* may a message or a stop come up while a message is on its way?
    Limit     \* how often the user and the subagents do each thing, and any (bounds)

Sender == {"window", "steer", "callback"}
Doing  == {"window", "steer", "callback", "stop", "mode", "switch", "any"}

ASSUME LimitAssumption == Overlap \in BOOLEAN /\ Limit \in [Doing -> Nat]

VARIABLES
    current,   \* the object in the runtimes map, 0 for none
    made,      \* how many objects have been made
    kernel,    \* the kernel the session is bound to
    mode,      \* the execution mode of the session
    pending,   \* what waits for the turn to end: steering text, a subagent's report
    flush,     \* which of them a callback of the loop is about to send
    send,      \* send[s]: the handleSend of s that is under way
    waiting,   \* who awaits the interrupt of which object: <<"stop", r>>, <<"mode", r>>
    switch,    \* the switch of the kernel that is under way
    handoff,   \* the text that the new kernel is to be given with the next message
    attempt,   \* the attempt to deliver it that is under way
    reacted,   \* history: the kernel has answered something to a message with the handoff
    left       \* what is left of the bounds

serviceVars == <<current, made, kernel, mode, pending, flush, send, waiting, switch,
                 handoff, attempt, reacted, left>>
vars == <<runtimeVars, serviceVars>>

NoSend    == [pc |-> "idle", rt |-> 0, mode |-> "work", carries |-> FALSE]
NoSwitch  == [pc |-> "idle", rt |-> 0]
NoHandoff == [content |-> FALSE, attempts |-> 0]
NoAttempt == [on |-> FALSE, sawNativeOutput |-> FALSE]

Init ==
    /\ RuntimeInit
    /\ current = 0 /\ made = 0
    /\ kernel = rt[1].kernel
    /\ mode = "work"
    /\ pending = {} /\ flush = <<>>
    /\ send = [s \in Sender |-> NoSend]
    /\ waiting = {}
    /\ switch = NoSwitch
    /\ handoff = NoHandoff /\ attempt = NoAttempt
    /\ reacted = FALSE
    /\ left = Limit

Spend(what) ==
    /\ left[what] > 0 /\ left["any"] > 0
    /\ left' = [left EXCEPT ![what] = @ - 1, !["any"] = @ - 1]

-----------------------------------------------------------------------------
(* The handoff. *)

\* Mutant of FinalizeHandoffAttempt: only an error lets the handoff be tried again.
FinalizeOnErrorOnly(outcome) ==
    /\ attempt' = NoAttempt
    /\ handoff' = IF ~attempt.on \/ ~handoff.content THEN handoff
                  ELSE IF outcome = "success" THEN NoHandoff
                  ELSE IF outcome = "stopped" \/ attempt.sawNativeOutput THEN handoff
                  ELSE [handoff EXCEPT !.attempts = 0]

\* How an attempt ends: answered turns are not repeated, a turn the kernel has
\* not reacted to may be tried again.
FinalizeHandoffAttempt(outcome) ==
    /\ attempt' = NoAttempt
    /\ handoff' = IF ~attempt.on \/ ~handoff.content THEN handoff
                  ELSE IF outcome = "success" THEN NoHandoff
                  ELSE IF outcome # "startup-failed" /\ attempt.sawNativeOutput THEN handoff
                  ELSE [handoff EXCEPT !.attempts = 0]

\* Mutant of ShouldInject: every message carries the handoff until it is consumed.
InjectAgain == handoff.content

ShouldInject == handoff.content /\ handoff.attempts = 0

-----------------------------------------------------------------------------
(* Sending a message. *)

Sends == {s \in Sender : send[s].pc # "idle"}

\* A refused message: the window shows the error, the others wait again.
GiveBack(s) == pending' = IF s = "window" THEN pending ELSE pending \cup {s}

\* A process that is alive gets the message, otherwise a new object is made;
\* then the options of the query are built.
Prepare(s) ==
    LET first == current = 0 \/ ~HasLiveProcess(current)
        r     == IF first THEN made + 1 ELSE current
    IN
    /\ r <= MaxRuntimes
    /\ current' = r /\ made' = IF first THEN r ELSE made
    /\ rt' = IF first THEN [rt EXCEPT ![r] = NewRuntime(kernel)] ELSE rt
    /\ handoff' = IF ShouldInject THEN [handoff EXCEPT !.attempts = @ + 1] ELSE handoff
    /\ attempt' = IF ShouldInject THEN [on |-> TRUE, sawNativeOutput |-> FALSE] ELSE attempt
    /\ send' = [send EXCEPT ![s] = [pc |-> "building", rt |-> r, mode |-> mode,
                                    carries |-> ShouldInject]]

\* Mutant of HandleSend: the stop of the previous turn is not waited for.
HandleAtOnce(s) ==
    /\ Prepare(s)
    /\ UNCHANGED <<loop, channel, kernel, mode, waiting, switch, reacted>>

\* handleSend up to its first await.
HandleSend(s) ==
    /\ IF current # 0 /\ rt[current].stopPending
       THEN /\ send' = [send EXCEPT ![s] = [@ EXCEPT !.pc = "settling", !.rt = current]]
            /\ UNCHANGED <<rt, current, made, handoff, attempt>>
       ELSE Prepare(s)
    /\ UNCHANGED <<loop, channel, kernel, mode, waiting, switch, reacted>>

\* The window sends when no turn is shown as running, and after a click on stop,
\* which ends the showing at once.
Showing == current # 0 /\ rt[current].turnInFlight /\ rt[current].state # "closed"

Alone == Sends = {} /\ pending = {}

WindowSends ==
    /\ Overlap \/ Alone
    /\ ~(Showing /\ ~rt[current].interruptInFlight)
    /\ send["window"].pc = "idle" /\ switch.pc = "idle"
    /\ Spend("window")
    /\ HandleSend("window")
    /\ UNCHANGED <<pending, flush>>

\* Steering text for a kernel that takes none while it works, and the report of
\* a subagent: kept until a callback of the loop sends them, at once if idle.
Keep(s) ==
    /\ s \in {"steer", "callback"}
    /\ Overlap \/ Alone
    /\ s \notin pending /\ send[s].pc = "idle"
    /\ Spend(s)
    /\ pending' = pending \cup {s}
    /\ flush' = <<s>>
    /\ UNCHANGED <<runtimeVars, current, made, kernel, mode, send, waiting, switch,
                   handoff, attempt, reacted>>

Idle == current = 0 \/ (~rt[current].turnInFlight /\ ~rt[current].loopRunning)

\* A text kept by the handler itself is sent only if idle (ended is FALSE), one
\* found at the end of a turn always; a report always only if idle.
FlushOne ==
    LET s == Head(flush)
        ended == Len(flush) = 2
    IN
    /\ flush # <<>>
    /\ flush' = Tail(flush)
    /\ IF s \notin pending \/ (~Idle /\ ~(s = "steer" /\ ended)) \/ switch.pc # "idle"
       THEN UNCHANGED <<runtimeVars, current, made, kernel, mode, pending, send, waiting,
                        switch, handoff, attempt, reacted, left>>
       ELSE /\ pending' = pending \ {s}
            /\ HandleSend(s)
            /\ UNCHANGED left

\* The previous object has settled; if it is no longer the current one the
\* message is refused.
PreviousSettled(s) ==
    /\ send[s].pc = "settling" /\ ~rt[send[s].rt].stopPending
    /\ IF current = send[s].rt THEN Prepare(s) /\ UNCHANGED pending
       ELSE /\ send' = [send EXCEPT ![s] = NoSend]
            /\ GiveBack(s)
            /\ UNCHANGED <<rt, current, made, handoff, attempt>>
    /\ UNCHANGED <<loop, channel, kernel, mode, flush, waiting, switch, reacted, left>>

\* The frame of what follows.
Sending == UNCHANGED <<current, made, kernel, mode, flush, waiting, switch, reacted, left>>

Refuse(s) ==
    /\ send' = [send EXCEPT ![s] = NoSend]
    /\ IF send[s].carries THEN FinalizeHandoffAttempt("startup-failed")
       ELSE UNCHANGED <<handoff, attempt>>
    /\ GiveBack(s)

\* The kernel has the message.
Accept(s) ==
    /\ send' = [send EXCEPT ![s] = NoSend]
    /\ UNCHANGED <<pending, handoff, attempt>>

Await(s, pc) ==
    /\ send' = [send EXCEPT ![s].pc = pc]
    /\ UNCHANGED <<pending, handoff, attempt>>

\* A new loop with the tools of the mode the message was built for.
Spawn(s) == StartLoop(send[s].rt, send[s].mode) /\ Accept(s)

OutOfDate(s) == rt[send[s].rt].fingerprint \notin {"none", send[s].mode}

\* The part of sendMessage after all the waiting.
Start(s) ==
    LET r == send[s].rt IN
    \/ /\ rt[r].state = "closed"
       /\ Refuse(s) /\ UNCHANGED runtimeVars
    \/ /\ rt[r].state # "closed" /\ ~HasLiveProcess(r)
       /\ Spawn(s)
    \/ /\ rt[r].state # "closed" /\ HasLiveProcess(r) /\ rt[r].turnInFlight
       /\ rt' = [rt EXCEPT ![r].userStopping = FALSE]
       /\ Refuse(s) /\ UNCHANGED <<loop, channel>>
    \/ /\ rt[r].state # "closed" /\ HasLiveProcess(r) /\ ~rt[r].turnInFlight
       /\ IF OutOfDate(s)
          THEN /\ rt' = [rt EXCEPT ![r] = Retired(r, @)]
               /\ RetiredChannel(r) /\ UNCHANGED loop
               /\ Await(s, "retiring")
          ELSE \/ Enqueue(r) /\ Accept(s)
               \/ EnqueueFails(r) /\ Refuse(s)

UnlessStopping(s) ==
    IF rt[send[s].rt].stopPending THEN Await(s, "stopping") /\ UNCHANGED runtimeVars
    ELSE Start(s)

SendMessage(s) ==
    /\ send[s].pc = "building"
    /\ IF rt[send[s].rt].interruptInFlight
       THEN Await(s, "interrupting") /\ UNCHANGED runtimeVars
       ELSE UnlessStopping(s)
    /\ Sending

InterruptAwaited(s) ==
    /\ send[s].pc = "interrupting" /\ ~rt[send[s].rt].interruptInFlight
    /\ UnlessStopping(s)
    /\ Sending

StopSettled(s) ==
    LET x == rt[send[s].rt] IN
    /\ send[s].pc \in {"stopping", "retiring"} /\ ~x.stopPending
    /\ IF x.userClosing \/ x.state = "closed" THEN Refuse(s) /\ UNCHANGED runtimeVars
       ELSE IF send[s].pc = "retiring" THEN Spawn(s)
       ELSE Start(s)
    /\ Sending

\* Mutant of SettleTimesOut: the latch is waited for without a limit.
NeverTimesOut(s) ==
    /\ send[s].pc = "settled too late" /\ Refuse(s)
    /\ UNCHANGED runtimeVars
    /\ Sending

\* 15 seconds without the end of the stopped turn.
SettleTimesOut(s) ==
    /\ send[s].pc \in {"settling", "stopping", "retiring"} /\ rt[send[s].rt].stopPending
    /\ Refuse(s)
    /\ UNCHANGED runtimeVars
    /\ Sending

-----------------------------------------------------------------------------
(* Stopping, and changing the mode. *)

\* A click is possible as long as an earlier one has not been answered; the
\* second one joins the first.
Interrupt(who) ==
    /\ current # 0 /\ \A w \in waiting : w[1] # who
    /\ Overlap \/ Sends = {}
    /\ Spend(who)
    /\ rt' = [rt EXCEPT ![current] = Interrupted(@)]
    /\ waiting' = waiting \cup {<<who, current>>}
    /\ UNCHANGED <<loop, channel, current, made, kernel, flush, send, switch, handoff,
                   attempt, reacted>>

StopAgent ==
    /\ Showing \/ Sends # {}
    /\ Interrupt("stop")
    /\ pending' = {}
    /\ UNCHANGED mode

SetExecutionMode ==
    /\ mode' = IF mode = "chat" THEN "work" ELSE "chat"
    /\ Interrupt("mode")
    /\ UNCHANGED pending

\* The adapter has taken the request.  The stop settles the handoff, the change
\* of mode retires the process of the object that is current by now.
InterruptReturns(r) ==
    LET taken == [rt EXCEPT ![r] = InterruptTaken(@)]
        stop  == <<"stop", r>> \in waiting
    IN
    /\ \E w \in waiting : w[2] = r
    /\ waiting' = {w \in waiting : w[2] # r}
    /\ IF stop THEN FinalizeHandoffAttempt("stopped") ELSE UNCHANGED <<handoff, attempt>>
    /\ IF <<"mode", r>> \in waiting /\ current # 0
       THEN /\ rt' = [taken EXCEPT ![current] = Retired(current, @)]
            /\ RetiredChannel(current)
       ELSE rt' = taken /\ UNCHANGED channel
    /\ UNCHANGED <<loop, current, made, kernel, mode, pending, flush, send, switch,
                   reacted, left>>

-----------------------------------------------------------------------------
(* Switching the kernel. *)

\* Mutant of Quiescent: a message on its way to the kernel does not count.
QuiescentButSending ==
    current = 0 \/ (~rt[current].turnInFlight /\ ~rt[current].stopPending
                    /\ ~rt[current].interruptInFlight)

Quiescent == Sends = {} /\ QuiescentButSending

\* A turn that was stopped is waited for, a running one is not.
Stopping == current # 0 /\ ~rt[current].turnInFlight /\ rt[current].stopPending

Switching == UNCHANGED <<loop, made, mode, flush, send, waiting, left>>

SwitchKernel ==
    /\ switch.pc = "idle"
    /\ Spend("switch")
    /\ switch' = [pc |-> "asked", rt |-> 0]
    /\ UNCHANGED <<runtimeVars, current, made, kernel, mode, pending, flush, send,
                   waiting, handoff, attempt, reacted>>

\* The old kernel is aborted before the new binding is stored; the history goes
\* to the new kernel with the next message.
CommitSwitch ==
    /\ IF current # 0 THEN Destroy(current) ELSE UNCHANGED <<rt, channel>>
    /\ current' = 0
    /\ kernel' \in Kernel \ {kernel}
    /\ pending' = {}
    /\ handoff' = [content |-> TRUE, attempts |-> 0]
    /\ attempt' = NoAttempt
    /\ reacted' = FALSE
    /\ switch' = NoSwitch

RejectSwitch ==
    /\ switch' = NoSwitch
    /\ UNCHANGED <<rt, channel, current, kernel, pending, handoff, attempt, reacted>>

\* The availability of the new kernel is known.
CheckSwitch ==
    /\ switch.pc = "asked"
    /\ IF Quiescent THEN CommitSwitch
       ELSE IF Stopping
       THEN /\ switch' = [pc |-> "settling", rt |-> current]
            /\ UNCHANGED <<rt, channel, current, kernel, pending, handoff, attempt, reacted>>
       ELSE RejectSwitch
    /\ Switching

RecheckSwitch ==
    /\ switch.pc = "settling" /\ ~rt[switch.rt].stopPending
    /\ IF Quiescent THEN CommitSwitch ELSE RejectSwitch
    /\ Switching

SwitchTimesOut ==
    /\ switch.pc = "settling" /\ rt[switch.rt].stopPending
    /\ RejectSwitch
    /\ Switching

-----------------------------------------------------------------------------
(* The loops, with the callbacks of the current object. *)

Serving == UNCHANGED <<current, made, kernel, mode, pending, send, waiting, switch, left>>

FlushKept == flush' = <<"steer", "callback">>

KernelOpens(l) == Open(l) /\ UNCHANGED <<flush, handoff, attempt, reacted>> /\ Serving

\* The first output of a turn.
KernelSpeaks(l) ==
    /\ Heard(l) /\ l[1] = current
    /\ attempt.on /\ ~attempt.sawNativeOutput
    /\ attempt' = [attempt EXCEPT !.sawNativeOutput = TRUE]
    /\ reacted' = TRUE
    /\ UNCHANGED <<runtimeVars, flush, handoff>> /\ Serving

\* onMessage with the result, and onTurnEnd only if the turn was still in flight.
TurnEnds(l, outcome) ==
    LET r == l[1]
        heard == Latest(l) /\ r = current
    IN
    /\ Result(l)
    /\ reacted' = (reacted \/ (attempt.on /\ heard))
    /\ IF heard /\ rt[r].turnInFlight
       THEN /\ FinalizeHandoffAttempt(outcome)
            /\ IF rt[r].kernel \in Resident THEN FlushKept ELSE UNCHANGED flush
       ELSE /\ attempt' = [attempt EXCEPT !.sawNativeOutput = @ \/ (attempt.on /\ heard)]
            /\ UNCHANGED <<handoff, flush>>
    /\ Serving

\* onError.
TurnFails(l) ==
    /\ TooLong(l) \/ GiveUp(l)
    /\ UNCHANGED reacted
    /\ IF l[1] = current
       THEN FinalizeHandoffAttempt("error")
       ELSE UNCHANGED <<handoff, attempt>>
    /\ UNCHANGED flush
    /\ Serving

\* onLoopIdle, when the loop was the last of the object and it is not closing.
ProcessEnds(l) ==
    /\ LoopEnds(l)
    /\ IF Latest(l) /\ l[1] = current THEN FlushKept ELSE UNCHANGED flush
    /\ UNCHANGED <<handoff, attempt, reacted>>
    /\ Serving

ProcessRecovers(l) == Recover(l) /\ UNCHANGED <<flush, handoff, attempt, reacted>> /\ Serving

-----------------------------------------------------------------------------
Loop == Runtime \X Epoch

SendStep(s) == \/ PreviousSettled(s) \/ SendMessage(s) \/ InterruptAwaited(s)
               \/ StopSettled(s) \/ SettleTimesOut(s)
SwitchStep  == CheckSwitch \/ RecheckSwitch \/ SwitchTimesOut
KernelStep(l) == \/ KernelOpens(l) \/ KernelSpeaks(l)
                 \/ \E o \in {"success", "error"} : TurnEnds(l, o)
                 \/ TurnFails(l) \/ ProcessEnds(l) \/ ProcessRecovers(l)

\* A callback of the loop finishes before anything else is done.
Next ==
    \/ FlushOne
    \/ /\ flush = <<>>
       /\ \/ WindowSends \/ \E s \in Sender : Keep(s) \/ SendStep(s)
          \/ StopAgent \/ SetExecutionMode
          \/ \E r \in Runtime : InterruptReturns(r)
          \/ SwitchKernel \/ SwitchStep
          \/ \E l \in Loop : KernelStep(l)

\* Timers fire, the adapter answers an interrupt, awaited promises resolve.
Fairness ==
    /\ WF_vars(FlushOne)
    /\ \A s \in Sender : WF_vars(flush = <<>> /\ SendStep(s))
    /\ \A r \in Runtime : WF_vars(flush = <<>> /\ InterruptReturns(r))
    /\ WF_vars(flush = <<>> /\ SwitchStep)

Spec == Init /\ [][Next]_vars /\ Fairness

-----------------------------------------------------------------------------
(* Properties. *)

\* The service's own part of the state, and that a handoff is tried at most once
\* without the user sending again.
ServiceTypeOK ==
    /\ current \in 0..made /\ made \in 0..MaxRuntimes
    /\ kernel \in Kernel /\ mode \in Mode
    /\ pending \subseteq {"steer", "callback"} /\ flush \in Seq({"steer", "callback"})
    /\ \A s \in Sender : send[s].rt \in 0..made
    /\ handoff.attempts \in 0..1

\* At no time do two loops work for the session: they would write to the same
\* workspace (session-runtime.ts:268-271).  It needs messages that do not meet,
\* see Overlap.
OneExecutor == Cardinality({l \in Loop : loop[l].native \in {"starting", "working"}}) <= 1

\* A turn begins in an object only when no loop of that object is at work, and
\* a new loop only when every earlier one of the session is over, or belongs to
\* a kernel that was switched away: a stop that was accepted and a process that
\* was retired are gone (session-runtime.ts:109-116 and 130-141).
TurnAfterTurn ==
    [][\A r \in Runtime :
         /\ rt'[r].turnInFlight /\ ~rt[r].turnInFlight =>
              \A e \in Epoch : loop[<<r, e>>].native \notin {"starting", "working"}
         /\ rt'[r].loopEpoch # rt[r].loopEpoch =>
              \A l \in Loop : Alive(l) => rt[l[1]].userClosing]_vars

\* A kernel is switched only while nothing works for the session and no message
\* is on its way (collectSwitchQuiescence and the two awaits around it).
SwitchIsQuiet ==
    [][kernel' # kernel => Sends = {} /\ \A l \in Loop : ~Working(l)]_vars

\* A handoff that the kernel has not reacted to is being delivered, or goes
\* with the next message: no way a turn can end loses it (finalizeHandoffAttempt).
HandoffKept == handoff.content => ShouldInject \/ attempt.on \/ reacted

\* Whatever the kernel does, a message that was sent is accepted or refused
\* (the bounded waits of sendMessage and awaitPreviousRuntime).
SendsReturn == \A s \in Sender : send[s].pc # "idle" ~> send[s].pc = "idle"

\* What the field's comment says of turnInFlight (session-runtime.ts:94).  It
\* does not hold: a turn that is given up, and a resident process that dies in
\* its second turn, leave it set (session-runtime.ts:513-517 and 582-596).
TurnInFlightRuns == \A r \in Runtime : rt[r].turnInFlight =>
    \E e \in Epoch : Alive(<<r, e>>)

\* An attempt is under way only while a message or a turn is.  It does not hold:
\* a change of mode stops the turn and leaves the attempt, which the success of
\* the next turn then completes (session-service.ts:2078).
AttemptIsUnderWay ==
    attempt.on => Sends # {} \/ (current # 0 /\ rt[current].turnInFlight)
=============================================================================
