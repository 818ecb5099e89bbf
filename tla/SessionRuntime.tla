--------------------------- MODULE SessionRuntime ---------------------------
(***************************************************************************)
(* SessionRuntime, the object that drives one agent kernel for a session   *)
(* (agent/runtime/session-runtime.ts): its event loops, the latch that     *)
(* holds the next message back until a stop has really taken effect, the   *)
(* one automatic recovery after a crash, and the retirement of a kernel    *)
(* process whose tools are out of date.                                    *)
(*                                                                         *)
(* The session service replaces the object whenever no process is alive,   *)
(* so there are several, numbered in the order in which they are made.     *)
(* The kernel side of a loop (the generator that an adapter's query        *)
(* returns) is the environment: it may answer, end or fail at any time.    *)
(* Left out are the texts: messages, errors and the resume id, which a     *)
(* kernel has or has not.                                                  *)
(***************************************************************************)
EXTENDS Integers

CONSTANTS
    Kernel,       \* the agent kernels
    Resident,     \* those whose process outlives a turn and takes further messages
    MaxRuntimes,  \* how many SessionRuntime objects the session may go through
    MaxLoops      \* how many loops one of them may start (a bound)

ASSUME KernelAssumption == Resident \subseteq Kernel
ASSUME BoundAssumption == MaxRuntimes \in Nat \ {0} /\ MaxLoops \in Nat

Runtime == 1..MaxRuntimes
Epoch   == 1..MaxLoops
Mode    == {"chat", "work"}
NoLoop  == <<0, 0>>

VARIABLES
    rt,      \* rt[r]: the fields of object r
    loop,    \* loop[<<r, e>>]: the e-th loop of object r and its generator
    channel  \* channel[k]: the loop that the adapter of k has on file for the session

runtimeVars == <<rt, loop, channel>>

NewRuntime(k) ==
    [kernel |-> k, state |-> "idle", turnInFlight |-> FALSE, loopRunning |-> FALSE,
     loopEpoch |-> 0, retiring |-> 0, userClosing |-> FALSE, userStopping |-> FALSE,
     interruptInFlight |-> FALSE, stopPending |-> FALSE, recovered |-> FALSE,
     fingerprint |-> "none"]

\* native is what the kernel does: "starting" until the adapter has filed the
\* query, "working" on a turn, "resting" between turns, "over".
Unused == [native |-> "none", clean |-> FALSE]

RuntimeInit ==
    /\ \E k \in Kernel : rt = [r \in Runtime |-> NewRuntime(k)]
    /\ loop = [l \in Runtime \X Epoch |-> Unused]
    /\ channel = [k \in Kernel |-> NoLoop]

Latest(l)  == l[2] = rt[l[1]].loopEpoch
Alive(l)   == loop[l].native \in {"starting", "working", "resting"}
Working(l) == l # NoLoop /\ loop[l].native = "working"
HasLiveProcess(r) == rt[r].loopRunning /\ channel[rt[r].kernel] # NoLoop

-----------------------------------------------------------------------------
(* The latch.  retiring is the loop that must be gone, not only done with   *)
(* its turn, before the latch opens.                                        *)

\* Mutant of TurnSettled: a loop that has been replaced opens the latch too,
\* and the result of a retired loop is enough.
SettledByAny(x, e, source) == [x EXCEPT !.stopPending = FALSE, !.retiring = 0]

TurnSettled(x, e, source) ==
    IF e # x.loopEpoch \/ (x.retiring = e /\ source = "result") THEN x
    ELSE [x EXCEPT !.stopPending = FALSE, !.retiring = 0]

-----------------------------------------------------------------------------
(* What the session service calls. *)

FreshLoop == [native |-> "starting", clean |-> FALSE]

Started(x) == [x EXCEPT !.loopEpoch = @ + 1, !.loopRunning = TRUE, !.turnInFlight = TRUE,
                        !.state = "running", !.userStopping = FALSE]

\* startLoop with the tools of mode m: the object's next loop.  A resident
\* kernel aborts the query it has on file as the new one begins.
StartLoop(r, m) ==
    LET k == rt[r].kernel IN
    /\ rt[r].loopEpoch < MaxLoops
    /\ rt' = [rt EXCEPT ![r] = [Started(@) EXCEPT !.fingerprint = m]]
    /\ loop' = [loop EXCEPT ![<<r, rt[r].loopEpoch + 1>>] = FreshLoop]
    /\ channel' = IF k \in Resident THEN [channel EXCEPT ![k] = NoLoop] ELSE channel

\* The next message goes to the process that is already there.
Enqueue(r) ==
    /\ rt' = [rt EXCEPT ![r].turnInFlight = TRUE, ![r].userStopping = FALSE]
    /\ loop' = [loop EXCEPT ![<<r, rt[r].loopEpoch>>].native = "working"]
    /\ UNCHANGED channel

\* The process refuses it: the caller is told, turnInFlight stays.
EnqueueFails(r) ==
    /\ rt' = [rt EXCEPT ![r].turnInFlight = TRUE, ![r].userStopping = FALSE]
    /\ UNCHANGED <<loop, channel>>

\* The first half of interrupt: a second caller joins the first.
Interrupted(x) ==
    IF x.interruptInFlight THEN x
    ELSE [x EXCEPT !.userStopping = TRUE, !.interruptInFlight = TRUE,
                   !.stopPending = @ \/ x.turnInFlight]

\* The second half of interrupt, when the adapter has taken the request.
InterruptTaken(x) == [x EXCEPT !.interruptInFlight = FALSE, !.turnInFlight = FALSE]

\* Mutant of Dropped: the process is retired without the latch.
DroppedAtOnce(x) == [x EXCEPT !.fingerprint = "none", !.userStopping = TRUE,
                              !.loopRunning = FALSE, !.turnInFlight = FALSE, !.state = "idle"]

\* abort takes the session off the adapter's file; its generator ends later.
Dropped(x) == [DroppedAtOnce(x) EXCEPT !.retiring = x.loopEpoch, !.stopPending = TRUE]

\* dropLiveProcessForConfigChange on object r, whose fields are x.
Retired(r, x) == IF HasLiveProcess(r) THEN Dropped(x) ELSE [x EXCEPT !.fingerprint = "none"]

RetiredChannel(r) ==
    channel' = IF HasLiveProcess(r) THEN [channel EXCEPT ![rt[r].kernel] = NoLoop] ELSE channel

Destroyed(x) == [x EXCEPT !.userClosing = TRUE, !.interruptInFlight = FALSE,
                          !.loopRunning = FALSE, !.turnInFlight = FALSE, !.state = "closed"]

Destroy(r) ==
    /\ rt' = [rt EXCEPT ![r] = Destroyed(@)]
    /\ channel' = [channel EXCEPT ![rt[r].kernel] = NoLoop]

-----------------------------------------------------------------------------
(* The kernel and the loop that listens to it. *)

\* The adapter files the query.  A per-turn kernel takes no second prompt while
\* its agent is streaming.
Open(l) ==
    LET k == rt[l[1]].kernel IN
    /\ loop[l].native = "starting"
    /\ ~(k \notin Resident /\ Working(channel[k]))
    /\ loop' = [loop EXCEPT ![l].native = "working"]
    /\ channel' = [channel EXCEPT ![k] = l]
    /\ UNCHANGED rt

\* A resident kernel takes its query off the file when the generator ends, a
\* per-turn kernel keeps the agent.
Closed(l) ==
    LET k == rt[l[1]].kernel IN
    channel' = IF k \in Resident /\ channel[k] = l THEN [channel EXCEPT ![k] = NoLoop]
               ELSE channel

\* Some output of the turn; it reaches the service when a turn is in flight.
Heard(l) == Working(l) /\ Latest(l) /\ rt[l[1]].turnInFlight

\* The turn has its result.  A loop that was replaced ends here.
Result(l) ==
    LET r == l[1] IN
    /\ Working(l)
    /\ IF Latest(l)
       THEN /\ loop' = [loop EXCEPT ![l] = [native |-> "resting", clean |-> TRUE]]
            /\ rt' = [rt EXCEPT ![r] =
                         TurnSettled([@ EXCEPT !.turnInFlight = FALSE], l[2], "result")]
            /\ UNCHANGED channel
       ELSE /\ loop' = [loop EXCEPT ![l].native = "over"]
            /\ Closed(l)
            /\ UNCHANGED rt

\* A turn that ends without a result is a crash, unless a result came before.
Crashed(l) ==
    LET x == rt[l[1]] IN
    Alive(l) /\ Latest(l) /\ ~x.userClosing /\ ~x.userStopping /\ ~loop[l].clean /\ x.turnInFlight

\* The result, or what the kernel left on stderr, says that the context is too
\* long: the loop gives up.
TooLong(l) ==
    LET r == l[1] IN
    /\ (Working(l) /\ Latest(l)) \/ Crashed(l)
    /\ loop' = [loop EXCEPT ![l].native = "over"]
    /\ rt' = [rt EXCEPT ![r] =
                 TurnSettled([@ EXCEPT !.turnInFlight = FALSE, !.loopRunning = FALSE,
                                       !.state = "closed"], l[2], "finally")]
    /\ Closed(l)

\* The generator ends or throws and nobody has to be told of an error.
LoopEnds(l) ==
    LET r == l[1]
        x == rt[r]
        y == [x EXCEPT !.loopRunning = FALSE]
    IN
    /\ Alive(l) /\ ~Crashed(l)
    /\ loop' = [loop EXCEPT ![l].native = "over"]
    /\ Closed(l)
    /\ rt' = [rt EXCEPT ![r] =
                 IF ~Latest(l) THEN x
                 ELSE TurnSettled(CASE x.userClosing  -> [y EXCEPT !.state = "closed"]
                                    [] ~x.userClosing /\ x.userStopping ->
                                         [y EXCEPT !.state = "idle", !.userStopping = FALSE]
                                    [] ~x.userClosing /\ ~x.userStopping ->
                                         [y EXCEPT !.state = IF x.turnInFlight THEN @
                                                             ELSE "closed"],
                                  l[2], "finally")]

MayRecover(x) == ~x.recovered /\ x.kernel \in Resident

\* The process is started again in the same loop with the same prompt; a
\* per-turn kernel has no id to resume from.
Recover(l) ==
    LET r == l[1] IN
    /\ Crashed(l) /\ MayRecover(rt[r])
    /\ loop' = [loop EXCEPT ![l] = [native |-> "starting", clean |-> FALSE]]
    /\ rt' = [rt EXCEPT ![r].recovered = TRUE, ![r].state = "running",
                        ![r].loopRunning = TRUE, ![r].turnInFlight = TRUE]
    /\ Closed(l)

\* No recovery (it was used up, or there is no id to resume from): the turn is
\* given up with an error.  turnInFlight stays as it is.
GiveUp(l) ==
    LET r == l[1] IN
    /\ Crashed(l)
    /\ loop' = [loop EXCEPT ![l].native = "over"]
    /\ Closed(l)
    /\ rt' = [rt EXCEPT ![r] = TurnSettled([@ EXCEPT !.loopRunning = FALSE, !.state = "closed"],
                                           l[2], "finally")]
=============================================================================
