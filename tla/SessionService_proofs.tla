----------------------- MODULE SessionService_proofs -----------------------
(* For any kernels, numbers of objects and loops, and messages: types are  *)
(* kept and a handoff is never lost; and, if messages do not meet, the     *)
(* session has one loop at work, a turn begins only after the one that was *)
(* stopped, and the kernel is switched in silence.                         *)
EXTENDS SessionService, FiniteSetTheorems, TLAPS

-----------------------------------------------------------------------------
(* Types. *)

RtType ==
    [kernel : Kernel, state : {"idle", "running", "closed"}, turnInFlight : BOOLEAN,
     loopRunning : BOOLEAN, loopEpoch : 0..MaxLoops, retiring : 0..MaxLoops,
     userClosing : BOOLEAN, userStopping : BOOLEAN, interruptInFlight : BOOLEAN,
     stopPending : BOOLEAN, recovered : BOOLEAN, fingerprint : Mode \cup {"none"}]

LoopType == [native : {"none", "starting", "working", "resting", "over"}, clean : BOOLEAN]

SendPc == {"idle", "settling", "building", "interrupting", "stopping", "retiring"}

\* A message for one of n objects.
Message(n) == [pc : SendPc, rt : 0..n, mode : Mode, carries : BOOLEAN]

RuntimeTypes ==
    /\ rt \in [Runtime -> RtType]
    /\ loop \in [Loop -> LoopType]
    /\ channel \in [Kernel -> Loop \cup {NoLoop}]

ServiceTypes ==
    /\ made \in 0..MaxRuntimes /\ current \in 0..made
    /\ kernel \in Kernel /\ mode \in Mode
    /\ pending \subseteq {"steer", "callback"}
    /\ flush \in {<<>>, <<"steer">>, <<"callback">>, <<"steer", "callback">>}
    /\ send \in [Sender -> Message(made)]
    /\ \A s \in Sends : send[s].rt # 0
    /\ waiting \subseteq {"stop", "mode"} \X (1..made)
    /\ switch \in [pc : {"idle", "asked", "settling"}, rt : 0..made]

HandoffTypes ==
    /\ handoff \in [content : BOOLEAN, attempts : 0..1]
    /\ attempt \in [on : BOOLEAN, sawNativeOutput : BOOLEAN]
    /\ reacted \in BOOLEAN


-----------------------------------------------------------------------------
(* The handoff. *)

\* An attempt the kernel has reacted to is remembered as such.
HandoffInv ==
    /\ HandoffKept
    /\ attempt.on /\ attempt.sawNativeOutput => reacted

\* What holds whatever messages and stops meet.
Good == RuntimeTypes /\ ServiceTypes /\ HandoffTypes /\ HandoffInv

-----------------------------------------------------------------------------
(* The control of the turns. *)

Busy(l) == loop[l].native \in {"starting", "working"}

\* An object that is to be made is untouched.
Untouched == \A r \in Runtime : r > made => rt[r].loopEpoch = 0 /\ ~rt[r].userClosing

\* Messages do not meet: at most one is on its way or waits.
Solo ==
    \A s, t \in Sender :
        /\ s \in Sends \cup pending /\ t \in Sends \cup pending => s = t
        /\ ~(s \in Sends /\ s \in pending)

\* A message is for the current object.  When it waits for the latch nobody
\* interrupts, and an object whose process it has retired does nothing.
Aimed ==
    \A s \in Sends :
        LET x == rt[send[s].rt] IN
        /\ send[s].rt = current /\ current # 0
        /\ send[s].pc \in {"stopping", "retiring"} => ~x.interruptInFlight
        /\ send[s].pc = "retiring" => ~x.turnInFlight /\ ~x.loopRunning

\* Whoever waits for an interrupt waits for one that is in flight.
Asked == \A w \in waiting : rt[w[2]].interruptInFlight

CurrentOpen == current # 0 => ~rt[current].userClosing

\* A process that is listened to is alive.
Listening ==
    \A r \in Runtime : rt[r].loopRunning =>
        rt[r].loopEpoch # 0 /\ Alive(<<r, rt[r].loopEpoch>>)

\* Its adapter has the loop on file.
Filed(l) ==
    LET k == rt[l[1]].kernel IN
    channel[k] # NoLoop /\ (k \in Resident => channel[k] = l)

\* A loop that is alive and was not switched away is the latest of the current
\* object; it is being retired, or the object listens to it.
Living ==
    \A l \in Loop :
        LET x == rt[l[1]] IN
        Alive(l) => \/ x.userClosing
                    \/ /\ l[1] = current /\ Latest(l) /\ x.state # "closed"
                       /\ \/ x.stopPending /\ x.retiring = l[2]
                          \/ x.loopRunning /\ (loop[l].native = "starting" \/ Filed(l))

\* A loop at work has a turn, or is being stopped; and it is being stopped if it
\* is interrupted, a message is on its way, or one found at the end of a turn is
\* about to be sent.
Laboring ==
    \A l \in Loop :
        LET x == rt[l[1]] IN
        Busy(l) => /\ l[1] = current
                   /\ x.turnInFlight \/ x.stopPending
                   /\ x.interruptInFlight \/ Sends # {} \/ flush = <<"steer", "callback">>
                      => x.stopPending

\* A loop that rests has had its result.
Rested == \A l \in Loop : loop[l].native = "resting" => loop[l].clean

Control ==
    /\ Untouched /\ Solo /\ Aimed /\ Asked /\ CurrentOpen
    /\ Listening /\ Living /\ Laboring /\ Rested

IInv == Good /\ Control

-----------------------------------------------------------------------------
(* What the operators on the fields of an object return. *)

LEMMA NewRuntimeIs ==
    ASSUME NEW k \in Kernel
    PROVE  /\ NewRuntime(k) \in RtType
           /\ NewRuntime(k).loopEpoch = 0 /\ ~NewRuntime(k).userClosing
           /\ ~NewRuntime(k).loopRunning /\ ~NewRuntime(k).turnInFlight
           /\ ~NewRuntime(k).stopPending /\ ~NewRuntime(k).interruptInFlight
BY BoundAssumption DEF BoundAssumption, NewRuntime, RtType

LEMMA StartedIs ==
    ASSUME NEW x \in RtType, x.loopEpoch < MaxLoops, NEW m \in Mode,
           NEW y, y = [Started(x) EXCEPT !.fingerprint = m]
    PROVE  /\ y \in RtType
           /\ y.loopEpoch = x.loopEpoch + 1 /\ y.loopRunning /\ y.turnInFlight
           /\ y.state = "running" /\ y.kernel = x.kernel /\ y.userClosing = x.userClosing
           /\ y.stopPending = x.stopPending /\ y.interruptInFlight = x.interruptInFlight
<1>1. x.loopEpoch + 1 \in 0..MaxLoops
  BY BoundAssumption DEF BoundAssumption, RtType
<1> QED
  BY <1>1 DEF Started, RtType, Mode

LEMMA InterruptedIs ==
    ASSUME NEW x \in RtType, NEW y, y = Interrupted(x)
    PROVE  /\ y \in RtType /\ y.interruptInFlight
           /\ x.interruptInFlight => y = x
           /\ ~x.interruptInFlight => y.stopPending = (x.stopPending \/ x.turnInFlight)
           /\ y.kernel = x.kernel /\ y.state = x.state /\ y.turnInFlight = x.turnInFlight
           /\ y.loopRunning = x.loopRunning /\ y.loopEpoch = x.loopEpoch
           /\ y.retiring = x.retiring /\ y.userClosing = x.userClosing
<1>1. CASE x.interruptInFlight
  BY <1>1 DEF Interrupted, RtType
<1>2. CASE ~x.interruptInFlight
  <2>1. (x.stopPending \/ x.turnInFlight) \in BOOLEAN
    OBVIOUS
  <2> QED
    BY <1>2, <2>1 DEF Interrupted, RtType
<1> QED
  BY <1>1, <1>2

LEMMA InterruptTakenIs ==
    ASSUME NEW x \in RtType, NEW y, y = InterruptTaken(x)
    PROVE  /\ y \in RtType /\ ~y.interruptInFlight /\ ~y.turnInFlight
           /\ y.kernel = x.kernel /\ y.state = x.state /\ y.stopPending = x.stopPending
           /\ y.loopRunning = x.loopRunning /\ y.loopEpoch = x.loopEpoch
           /\ y.retiring = x.retiring /\ y.userClosing = x.userClosing
BY DEF InterruptTaken, RtType

LEMMA DroppedIs ==
    ASSUME NEW x \in RtType, NEW y, y = Dropped(x)
    PROVE  /\ y \in RtType
           /\ y.stopPending /\ y.retiring = x.loopEpoch /\ ~y.loopRunning
           /\ ~y.turnInFlight /\ y.state = "idle"
           /\ y.kernel = x.kernel /\ y.loopEpoch = x.loopEpoch
           /\ y.userClosing = x.userClosing /\ y.interruptInFlight = x.interruptInFlight
BY DEF Dropped, DroppedAtOnce, RtType

\* A process that is dropped, or just the note of its tools.
LEMMA RetiredIs ==
    ASSUME NEW r, NEW x \in RtType, NEW y, y = Retired(r, x)
    PROVE  /\ y \in RtType
           /\ y.kernel = x.kernel /\ y.loopEpoch = x.loopEpoch
           /\ y.userClosing = x.userClosing /\ y.interruptInFlight = x.interruptInFlight
           /\ HasLiveProcess(r) => /\ y.stopPending /\ y.retiring = x.loopEpoch
                                   /\ ~y.loopRunning /\ ~y.turnInFlight /\ y.state = "idle"
           /\ ~HasLiveProcess(r) => /\ y.stopPending = x.stopPending
                                    /\ y.retiring = x.retiring /\ y.state = x.state
                                    /\ y.loopRunning = x.loopRunning
                                    /\ y.turnInFlight = x.turnInFlight
<1>1. CASE HasLiveProcess(r)
  BY <1>1, DroppedIs DEF Retired
<1>2. CASE ~HasLiveProcess(r)
  BY <1>2 DEF Retired, RtType
<1> QED
  BY <1>1, <1>2

LEMMA DestroyedIs ==
    ASSUME NEW x \in RtType, NEW y, y = Destroyed(x)
    PROVE  /\ y \in RtType /\ y.userClosing /\ ~y.loopRunning
           /\ y.kernel = x.kernel /\ y.loopEpoch = x.loopEpoch
BY DEF Destroyed, RtType

LEMMA TurnSettledIs ==
    ASSUME NEW x \in RtType, NEW e, NEW source, NEW y, y = TurnSettled(x, e, source)
    PROVE  /\ y \in RtType
           /\ y.kernel = x.kernel /\ y.loopEpoch = x.loopEpoch /\ y.state = x.state
           /\ y.userClosing = x.userClosing /\ y.interruptInFlight = x.interruptInFlight
           /\ y.loopRunning = x.loopRunning /\ y.turnInFlight = x.turnInFlight
           /\ (e # x.loopEpoch \/ (x.retiring = e /\ source = "result")) => y = x
<1>1. CASE e # x.loopEpoch \/ (x.retiring = e /\ source = "result")
  BY <1>1 DEF TurnSettled
<1>2. CASE ~(e # x.loopEpoch \/ (x.retiring = e /\ source = "result"))
  <2>1. y = [x EXCEPT !.stopPending = FALSE, !.retiring = 0]
    BY <1>2 DEF TurnSettled
  <2>2. 0 \in 0..MaxLoops
    BY BoundAssumption DEF BoundAssumption
  <2> QED
    BY <1>2, <2>1, <2>2 DEF RtType
<1> QED
  BY <1>1, <1>2

-----------------------------------------------------------------------------
(* Types of the runtime. *)

LEMMA LoopIn == \A l \in Loop : l[1] \in Runtime /\ l[2] \in Epoch /\ l = <<l[1], l[2]>> /\ l # NoLoop
BY DEF Loop, Runtime, NoLoop

LEMMA FieldsIn ==
    ASSUME RuntimeTypes, NEW r \in Runtime
    PROVE  rt[r] \in RtType /\ rt[r].kernel \in Kernel /\ rt[r].loopEpoch \in 0..MaxLoops
BY DEF RuntimeTypes, RtType

LEMMA NativeTypes ==
    ASSUME RuntimeTypes, NEW l, NEW n \in {"starting", "working", "resting", "over"}
    PROVE  [loop EXCEPT ![l].native = n] \in [Loop -> LoopType]
<1>1. CASE l \in Loop
  <2>1. loop[l] \in LoopType
    BY <1>1 DEF RuntimeTypes
  <2>2. [loop[l] EXCEPT !.native = n] \in LoopType
    BY <2>1 DEF LoopType
  <2> QED
    BY <1>1, <2>2 DEF RuntimeTypes
<1>2. CASE l \notin Loop
  BY <1>2 DEF RuntimeTypes
<1> QED
  BY <1>1, <1>2

LEMMA ClosedTypes ==
    ASSUME RuntimeTypes, NEW l \in Loop, Closed(l)
    PROVE  channel' \in [Kernel -> Loop \cup {NoLoop}]
BY DEF Closed, RuntimeTypes

LEMMA RetiredChannelTypes ==
    ASSUME RuntimeTypes, NEW r \in Runtime, RetiredChannel(r)
    PROVE  channel' \in [Kernel -> Loop \cup {NoLoop}]
BY DEF RetiredChannel, RuntimeTypes

LEMMA StartLoopTypes ==
    ASSUME RuntimeTypes, NEW r \in Runtime, NEW m \in Mode, StartLoop(r, m)
    PROVE  RuntimeTypes'
<1>1. rt' \in [Runtime -> RtType]
  <2>1. rt[r] \in RtType /\ rt[r].loopEpoch < MaxLoops
    BY FieldsIn DEF StartLoop
  <2> DEFINE y == [Started(rt[r]) EXCEPT !.fingerprint = m]
  <2>2. y \in RtType
    BY <2>1, StartedIs
  <2>3. rt' = [rt EXCEPT ![r] = y]
    BY DEF StartLoop
  <2> HIDE DEF y
  <2> QED
    BY <2>2, <2>3 DEF RuntimeTypes
<1>2. loop' \in [Loop -> LoopType]
  <2>1. FreshLoop \in LoopType
    BY DEF FreshLoop, LoopType
  <2> QED
    BY <2>1 DEF StartLoop, RuntimeTypes
<1>3. channel' \in [Kernel -> Loop \cup {NoLoop}]
  BY DEF StartLoop, RuntimeTypes
<1> QED
  BY <1>1, <1>2, <1>3 DEF RuntimeTypes

LEMMA EnqueueTypes ==
    ASSUME RuntimeTypes, NEW r \in Runtime, Enqueue(r) \/ EnqueueFails(r)
    PROVE  RuntimeTypes'
<1>1. rt[r] \in RtType
  BY FieldsIn
<1>2. [rt[r] EXCEPT !.turnInFlight = TRUE, !.userStopping = FALSE] \in RtType
  BY <1>1 DEF RtType
<1>3. rt' = [rt EXCEPT ![r] = [rt[r] EXCEPT !.turnInFlight = TRUE, !.userStopping = FALSE]]
  BY DEF Enqueue, EnqueueFails, RuntimeTypes
<1>4. rt' \in [Runtime -> RtType]
  BY <1>2, <1>3 DEF RuntimeTypes
<1>5. loop' \in [Loop -> LoopType] /\ channel' \in [Kernel -> Loop \cup {NoLoop}]
  <2>1. CASE Enqueue(r)
    <3>1. loop' = [loop EXCEPT ![<<r, rt[r].loopEpoch>>].native = "working"] /\ channel' = channel
      BY <2>1 DEF Enqueue
    <3>2. loop' \in [Loop -> LoopType]
      BY <3>1, NativeTypes
    <3> QED
      BY <3>1, <3>2 DEF RuntimeTypes
  <2>2. CASE EnqueueFails(r)
    BY <2>2 DEF EnqueueFails, RuntimeTypes
  <2> QED
    BY <2>1, <2>2
<1> QED
  BY <1>4, <1>5 DEF RuntimeTypes

LEMMA DestroyTypes ==
    ASSUME RuntimeTypes, NEW r \in Runtime, Destroy(r)
    PROVE  rt' \in [Runtime -> RtType] /\ channel' \in [Kernel -> Loop \cup {NoLoop}]
<1>1. Destroyed(rt[r]) \in RtType
  BY FieldsIn, DestroyedIs
<1> QED
  BY <1>1 DEF Destroy, RuntimeTypes

\* What a kernel and its loop do to the object.
LEMMA OverTypes ==
    ASSUME RuntimeTypes, NEW l \in Loop, NEW y \in RtType,
           loop' = [loop EXCEPT ![l].native = "over"], Closed(l),
           rt' = [rt EXCEPT ![l[1]] = y]
    PROVE  RuntimeTypes'
BY ClosedTypes, NativeTypes DEF RuntimeTypes

LEMMA OpenTypes ==
    ASSUME RuntimeTypes, NEW l \in Loop, Open(l) PROVE RuntimeTypes'
BY NativeTypes DEF Open, RuntimeTypes

LEMMA ResultTypes ==
    ASSUME RuntimeTypes, NEW l \in Loop, Result(l) PROVE RuntimeTypes'
<1> DEFINE x == [rt[l[1]] EXCEPT !.turnInFlight = FALSE]
           y == TurnSettled(x, l[2], "result")
<1>1. x \in RtType
  <2>1. rt[l[1]] \in RtType
    BY FieldsIn, LoopIn
  <2> QED
    BY <2>1 DEF RtType
<1>2. y \in RtType
  BY <1>1, TurnSettledIs
<1>3. CASE Latest(l)
  <2>1. rt' = [rt EXCEPT ![l[1]] = y]
    BY <1>3 DEF Result
  <2>2. loop' \in [Loop -> LoopType] /\ channel' = channel
    <3>1. [native |-> "resting", clean |-> TRUE] \in LoopType
      BY DEF LoopType
    <3>2. /\ loop' = [loop EXCEPT ![l] = [native |-> "resting", clean |-> TRUE]]
          /\ channel' = channel
      BY <1>3 DEF Result
    <3> QED
      BY <3>1, <3>2 DEF RuntimeTypes
  <2> HIDE DEF y
  <2> QED
    BY <1>2, <2>1, <2>2 DEF RuntimeTypes
<1>4. CASE ~Latest(l)
  BY <1>4, ClosedTypes, NativeTypes DEF Result, RuntimeTypes
<1> QED
  BY <1>3, <1>4

LEMMA TooLongTypes ==
    ASSUME RuntimeTypes, NEW l \in Loop, TooLong(l) PROVE RuntimeTypes'
<1> DEFINE x == [rt[l[1]] EXCEPT !.turnInFlight = FALSE, !.loopRunning = FALSE, !.state = "closed"]
           y == TurnSettled(x, l[2], "finally")
<1>1. x \in RtType
  <2>1. rt[l[1]] \in RtType
    BY FieldsIn, LoopIn
  <2> QED
    BY <2>1 DEF RtType
<1>2. y \in RtType
  BY <1>1, TurnSettledIs
<1>3. rt' = [rt EXCEPT ![l[1]] = y] /\ loop' = [loop EXCEPT ![l].native = "over"] /\ Closed(l)
  BY DEF TooLong
<1> QED
  BY <1>2, <1>3, OverTypes

LEMMA GiveUpTypes ==
    ASSUME RuntimeTypes, NEW l \in Loop, GiveUp(l) PROVE RuntimeTypes'
<1> DEFINE x == [rt[l[1]] EXCEPT !.loopRunning = FALSE, !.state = "closed"]
           y == TurnSettled(x, l[2], "finally")
<1>1. x \in RtType
  <2>1. rt[l[1]] \in RtType
    BY FieldsIn, LoopIn
  <2> QED
    BY <2>1 DEF RtType
<1>2. y \in RtType
  BY <1>1, TurnSettledIs
<1>3. rt' = [rt EXCEPT ![l[1]] = y] /\ loop' = [loop EXCEPT ![l].native = "over"] /\ Closed(l)
  BY DEF GiveUp
<1> QED
  BY <1>2, <1>3, OverTypes

LEMMA RecoverTypes ==
    ASSUME RuntimeTypes, NEW l \in Loop, Recover(l) PROVE RuntimeTypes'
<1>1. rt' \in [Runtime -> RtType]
  <2> DEFINE y == [rt[l[1]] EXCEPT !.recovered = TRUE, !.state = "running",
                                   !.loopRunning = TRUE, !.turnInFlight = TRUE]
  <2>1. y \in RtType
    <3>1. rt[l[1]] \in RtType
      BY FieldsIn, LoopIn
    <3> QED
      BY <3>1 DEF RtType
  <2>2. rt' = [rt EXCEPT ![l[1]] = y]
    BY LoopIn DEF Recover, RuntimeTypes
  <2> HIDE DEF y
  <2> QED
    BY <2>1, <2>2 DEF RuntimeTypes
<1>2. loop' \in [Loop -> LoopType]
  BY DEF Recover, RuntimeTypes, LoopType
<1> QED
  BY <1>1, <1>2, ClosedTypes DEF Recover, RuntimeTypes

\* The fields of an object whose latest loop has ended.
Ended(x) ==
    LET y == [x EXCEPT !.loopRunning = FALSE] IN
    CASE x.userClosing  -> [y EXCEPT !.state = "closed"]
      [] ~x.userClosing /\ x.userStopping -> [y EXCEPT !.state = "idle", !.userStopping = FALSE]
      [] ~x.userClosing /\ ~x.userStopping ->
           [y EXCEPT !.state = IF x.turnInFlight THEN @ ELSE "closed"]

LEMMA EndedIs ==
    ASSUME NEW x \in RtType, NEW y, y = Ended(x)
    PROVE  /\ y \in RtType /\ ~y.loopRunning
           /\ y.kernel = x.kernel /\ y.loopEpoch = x.loopEpoch /\ y.retiring = x.retiring
           /\ y.userClosing = x.userClosing /\ y.interruptInFlight = x.interruptInFlight
           /\ y.turnInFlight = x.turnInFlight /\ y.stopPending = x.stopPending
<1>1. CASE x.userClosing
  BY <1>1 DEF Ended, RtType
<1>2. CASE ~x.userClosing /\ x.userStopping
  BY <1>2 DEF Ended, RtType
<1>3. CASE ~x.userClosing /\ ~x.userStopping
  BY <1>3 DEF Ended, RtType
<1> QED
  BY <1>1, <1>2, <1>3 DEF RtType

LEMMA LoopEndsIs ==
    ASSUME RuntimeTypes, NEW l \in Loop, LoopEnds(l)
    PROVE  /\ Alive(l) /\ ~Crashed(l)
           /\ loop' = [loop EXCEPT ![l].native = "over"] /\ Closed(l)
           /\ rt' = [rt EXCEPT ![l[1]] = IF ~Latest(l) THEN @
                                         ELSE TurnSettled(Ended(@), l[2], "finally")]
BY DEF LoopEnds, Ended

LEMMA LoopEndsTypes ==
    ASSUME RuntimeTypes, NEW l \in Loop, LoopEnds(l) PROVE RuntimeTypes'
<1> DEFINE x == rt[l[1]]
           y == IF ~Latest(l) THEN x ELSE TurnSettled(Ended(x), l[2], "finally")
<1>1. x \in RtType
  BY FieldsIn, LoopIn
<1>2. y \in RtType
  BY <1>1, EndedIs, TurnSettledIs
<1>3. rt' = [rt EXCEPT ![l[1]] = y] /\ loop' = [loop EXCEPT ![l].native = "over"] /\ Closed(l)
  BY LoopEndsIs
<1> QED
  BY <1>2, <1>3, OverTypes

-----------------------------------------------------------------------------
(* The handoff. *)

HandoffGood == HandoffTypes /\ HandoffInv

\* However an attempt ends, the handoff is consumed, answered, or free to be
\* tried again.
LEMMA FinalizeGood ==
    ASSUME HandoffGood, NEW o \in {"success", "error", "stopped", "startup-failed"},
           FinalizeHandoffAttempt(o), reacted' \in BOOLEAN, reacted => reacted'
    PROVE  HandoffGood'
<1>1. attempt' = NoAttempt /\ attempt' \in [on : BOOLEAN, sawNativeOutput : BOOLEAN] /\ ~attempt'.on
  BY DEF FinalizeHandoffAttempt, NoAttempt
<1>2. CASE ~attempt.on \/ ~handoff.content
  BY <1>1, <1>2 DEF FinalizeHandoffAttempt, HandoffGood, HandoffTypes, HandoffInv, HandoffKept,
       ShouldInject
<1>3. CASE attempt.on /\ handoff.content /\ o = "success"
  BY <1>1, <1>3 DEF FinalizeHandoffAttempt, HandoffGood, HandoffTypes, HandoffInv, HandoffKept,
       ShouldInject, NoHandoff
<1>4. CASE attempt.on /\ handoff.content /\ o # "success" /\ o # "startup-failed"
           /\ attempt.sawNativeOutput
  BY <1>1, <1>4 DEF FinalizeHandoffAttempt, HandoffGood, HandoffTypes, HandoffInv, HandoffKept,
       ShouldInject
<1>5. CASE attempt.on /\ handoff.content /\ o # "success"
           /\ ~(o # "startup-failed" /\ attempt.sawNativeOutput)
  <2>1. handoff' = [handoff EXCEPT !.attempts = 0]
    BY <1>5 DEF FinalizeHandoffAttempt
  <2>2. handoff' \in [content : BOOLEAN, attempts : 0..1] /\ handoff'.attempts = 0
    BY <2>1 DEF HandoffGood, HandoffTypes
  <2> QED
    BY <1>1, <2>2 DEF HandoffGood, HandoffTypes, HandoffInv, HandoffKept, ShouldInject
<1> QED
  BY <1>2, <1>3, <1>4, <1>5

\* A message takes the handoff along the first time.
LEMMA InjectGood ==
    ASSUME HandoffGood, UNCHANGED reacted,
           handoff' = IF ShouldInject THEN [handoff EXCEPT !.attempts = @ + 1] ELSE handoff,
           attempt' = IF ShouldInject THEN [on |-> TRUE, sawNativeOutput |-> FALSE] ELSE attempt
    PROVE  HandoffGood'
<1>1. CASE ShouldInject
  <2>1. handoff' = [handoff EXCEPT !.attempts = @ + 1] /\ handoff.attempts = 0
    BY <1>1 DEF ShouldInject
  <2>2. handoff' \in [content : BOOLEAN, attempts : 0..1]
    BY <2>1 DEF HandoffGood, HandoffTypes
  <2>3. attempt' = [on |-> TRUE, sawNativeOutput |-> FALSE]
    BY <1>1
  <2> QED
    BY <2>2, <2>3 DEF HandoffGood, HandoffTypes, HandoffInv, HandoffKept
<1>2. CASE ~ShouldInject
  BY <1>2 DEF HandoffGood, HandoffTypes, HandoffInv, HandoffKept, ShouldInject
<1> QED
  BY <1>1, <1>2

LEMMA HandoffFrame ==
    ASSUME HandoffGood, UNCHANGED <<handoff, attempt, reacted>> PROVE HandoffGood'
BY DEF HandoffGood, HandoffTypes, HandoffInv, HandoffKept, ShouldInject

-----------------------------------------------------------------------------
(* Sending. *)

Flushes == {<<>>, <<"steer">>, <<"callback">>, <<"steer", "callback">>}

LEMMA FlushIs ==
    ASSUME NEW f \in Flushes, f # <<>>
    PROVE  /\ Tail(f) \in {<<>>, <<"callback">>} /\ Head(f) \in {"steer", "callback"}
           /\ Len(f) = 2 <=> f = <<"steer", "callback">>
<1>1. CASE f = <<"steer">>
  <2>1. Len(f) = 1 /\ Head(f) = "steer" /\ Tail(f) = <<>>
    BY <1>1
  <2> QED
    BY <1>1, <2>1
<1>2. CASE f = <<"callback">>
  <2>1. Len(f) = 1 /\ Head(f) = "callback" /\ Tail(f) = <<>>
    BY <1>2
  <2> QED
    BY <1>2, <2>1
<1>3. CASE f = <<"steer", "callback">>
  <2>1. Len(f) = 2 /\ Head(f) = "steer" /\ Tail(f) = <<"callback">>
    BY <1>3
  <2> QED
    BY <1>3, <2>1
<1> QED
  BY <1>1, <1>2, <1>3 DEF Flushes

LEMMA MadeIn ==
    ASSUME ServiceTypes
    PROVE  /\ made \in Nat /\ made <= MaxRuntimes /\ current \in Nat /\ current <= made
           /\ current # 0 => current \in Runtime
           /\ \A s \in Sender : send[s].rt \in 0..made /\ send[s].pc \in SendPc
                                /\ send[s].mode \in Mode /\ send[s].carries \in BOOLEAN
           /\ \A s \in Sends : s \in Sender /\ send[s].rt \in Runtime
BY BoundAssumption DEF BoundAssumption, ServiceTypes, Message, Runtime, Sends

\* The record of a message is replaced.
LEMMA SendTypes ==
    ASSUME ServiceTypes, NEW s \in Sender, made' \in 0..MaxRuntimes, made <= made',
           NEW m \in Message(made'), m.pc # "idle" => m.rt # 0, send' = [send EXCEPT ![s] = m]
    PROVE  /\ send' \in [Sender -> Message(made')]
           /\ \A t \in Sends' : send'[t].rt # 0
<1>1. ASSUME NEW t \in Sender
      PROVE  /\ send'[t] \in Message(made')
             /\ send'[t].pc # "idle" => send'[t].rt # 0
  <2>1. CASE t = s
    BY <2>1 DEF ServiceTypes
  <2>2. CASE t # s
    <3>1. send'[t] = send[t] /\ send[t] \in Message(made)
      BY <2>2 DEF ServiceTypes
    <3>2. send[t].rt \in 0..made'
      BY <3>1, MadeIn DEF Message
    <3>3. send[t].pc # "idle" => send[t].rt # 0
      BY DEF ServiceTypes, Sends
    <3> QED
      BY <3>1, <3>2, <3>3 DEF Message
  <2> QED
    BY <2>1, <2>2
<1>2. send' = [t \in Sender |-> send'[t]]
  BY DEF ServiceTypes
<1> QED
  BY <1>1, <1>2 DEF Sends

\* Its place in the handler moves on.
LEMMA SendPcTypes ==
    ASSUME ServiceTypes, NEW s \in Sends, NEW pc \in SendPc, UNCHANGED made,
           send' = [send EXCEPT ![s].pc = pc]
    PROVE  send' \in [Sender -> Message(made')] /\ \A t \in Sends' : send'[t].rt # 0
<1> DEFINE m == [send[s] EXCEPT !.pc = pc]
<1>1. s \in Sender /\ send[s].rt # 0
  BY DEF ServiceTypes, Sends
<1>2. send[s] \in Message(made)
  BY <1>1 DEF ServiceTypes
<1>3. m \in Message(made') /\ m.rt # 0
  BY <1>1, <1>2 DEF Message
<1>4. send' = [send EXCEPT ![s] = m]
  OBVIOUS
<1>5. made' \in 0..MaxRuntimes /\ made <= made'
  BY BoundAssumption DEF BoundAssumption, ServiceTypes
<1> HIDE DEF m
<1> QED
  BY <1>1, <1>3, <1>4, <1>5, SendTypes

LEMMA NoSendTypes ==
    ASSUME ServiceTypes, NEW s \in Sender, UNCHANGED made, send' = [send EXCEPT ![s] = NoSend]
    PROVE  send' \in [Sender -> Message(made')] /\ \A t \in Sends' : send'[t].rt # 0
<1>1. made' \in 0..MaxRuntimes /\ made <= made' /\ made' \in Nat
  BY BoundAssumption DEF BoundAssumption, ServiceTypes
<1>2. NoSend \in Message(made') /\ NoSend.pc = "idle"
  BY <1>1 DEF NoSend, SendPc, Mode, Message
<1> QED
  BY <1>1, <1>2, SendTypes

LEMMA PrepareGood ==
    ASSUME Good, NEW s \in Sender, Prepare(s),
           UNCHANGED <<loop, channel, kernel, mode, waiting, switch, reacted>>,
           pending' \subseteq {"steer", "callback"}, flush' \in Flushes
    PROVE  Good'
<1> DEFINE first == current = 0 \/ ~HasLiveProcess(current)
           r == IF first THEN made + 1 ELSE current
           m == [pc |-> "building", rt |-> r, mode |-> mode, carries |-> ShouldInject]
<1>1. r \in Nat /\ r # 0 /\ r <= MaxRuntimes /\ made' \in 0..MaxRuntimes /\ made <= made'
      /\ current' = r /\ r <= made' /\ mode \in Mode /\ kernel \in Kernel
  BY MadeIn DEF Good, ServiceTypes, Prepare
<1>2. RuntimeTypes'
  <2>1. CASE first
    BY <1>1, <2>1, NewRuntimeIs DEF Prepare, Good, RuntimeTypes
  <2>2. CASE ~first
    BY <2>2 DEF Prepare, Good, RuntimeTypes
  <2> QED
    BY <2>1, <2>2
<1>3. HandoffGood'
  BY InjectGood DEF Prepare, Good, HandoffGood
<1>4. ShouldInject \in BOOLEAN
  BY DEF ShouldInject, Good, HandoffTypes
<1>5. m \in Message(made') /\ m.rt # 0
  BY <1>1, <1>4 DEF SendPc, Message
<1>6. send' = [send EXCEPT ![s] = m]
  BY DEF Prepare
<1>7. /\ send' \in [Sender -> Message(made')]
      /\ \A t \in Sends' : send'[t].rt # 0
  <2> HIDE DEF m
  <2> QED
    BY <1>1, <1>5, <1>6, SendTypes DEF Good
<1>8. waiting' \subseteq {"stop", "mode"} \X (1..made')
  BY <1>1, MadeIn DEF Good, ServiceTypes
<1>9. switch' \in [pc : {"idle", "asked", "settling"}, rt : 0..made']
  <2>1. switch' = switch /\ switch \in [pc : {"idle", "asked", "settling"}, rt : 0..made]
    BY DEF Good, ServiceTypes
  <2>2. switch.rt \in 0..made'
    BY <1>1, <2>1, MadeIn DEF Good
  <2> QED
    BY <2>1, <2>2
<1>10. ServiceTypes'
  BY <1>1, <1>7, <1>8, <1>9 DEF ServiceTypes, Flushes
<1> QED
  BY <1>2, <1>3, <1>10 DEF Good, HandoffGood

LEMMA HandleSendGood ==
    ASSUME Good, NEW s \in Sender, HandleSend(s),
           pending' \subseteq {"steer", "callback"}, flush' \in Flushes
    PROVE  Good'
<1>1. CASE current # 0 /\ rt[current].stopPending
  <2> DEFINE m == [send[s] EXCEPT !.pc = "settling", !.rt = current]
  <2>1. send[s] \in Message(made)
    BY DEF Good, ServiceTypes
  <2>2. /\ UNCHANGED <<rt, loop, channel, current, made, kernel, mode, waiting, switch, handoff,
                       attempt, reacted>>
        /\ send' = [send EXCEPT ![s] = m]
    BY <1>1 DEF HandleSend
  <2>3. m \in Message(made') /\ m.rt # 0
    <3>1. m.pc = "settling" /\ m.rt = current /\ m \in Message(made)
      <4>1. current \in 0..made
        BY DEF Good, ServiceTypes
      <4> QED
        BY <2>1, <4>1 DEF SendPc, Message
    <3> QED
      BY <1>1, <2>2, <3>1
  <2>7. made' \in 0..MaxRuntimes /\ made <= made'
    BY <2>2, BoundAssumption DEF BoundAssumption, Good, ServiceTypes
  <2>4. /\ send' \in [Sender -> Message(made')]
        /\ \A t \in Sends' : send'[t].rt # 0
    <3> HIDE DEF m
    <3> QED
      BY <2>2, <2>3, <2>7, SendTypes DEF Good
  <2>5. HandoffGood'
    BY <2>2, HandoffFrame DEF Good, HandoffGood
  <2>6. ServiceTypes'
    BY <2>2, <2>4 DEF Good, ServiceTypes, Flushes
  <2> QED
    BY <2>2, <2>5, <2>6 DEF Good, HandoffGood, RuntimeTypes
<1>2. CASE ~(current # 0 /\ rt[current].stopPending)
  BY <1>2, PrepareGood DEF HandleSend
<1> QED
  BY <1>1, <1>2

LEMMA RefuseGood ==
    ASSUME Good, NEW s \in Sends, Refuse(s), Sending
    PROVE  ServiceTypes' /\ HandoffGood'
<1>1. HandoffGood'
  <2>1. CASE send[s].carries
    BY <2>1, FinalizeGood DEF Refuse, Sending, Good, HandoffGood, HandoffTypes
  <2>2. CASE ~send[s].carries
    BY <2>2, HandoffFrame DEF Refuse, Sending, Good, HandoffGood
  <2> QED
    BY <2>1, <2>2
<1>2. send' \in [Sender -> Message(made')] /\ \A t \in Sends' : send'[t].rt # 0
  BY NoSendTypes, MadeIn DEF Refuse, Sending, Good
<1>3. pending' \subseteq {"steer", "callback"}
  BY MadeIn DEF Refuse, GiveBack, Good, ServiceTypes, Sender
<1>4. ServiceTypes'
  BY <1>2, <1>3 DEF Sending, Good, ServiceTypes
<1> QED
  BY <1>1, <1>4

LEMMA AcceptGood ==
    ASSUME Good, NEW s \in Sends, Accept(s), Sending
    PROVE  ServiceTypes' /\ HandoffGood'
<1>1. HandoffGood'
  BY HandoffFrame DEF Accept, Sending, Good, HandoffGood
<1>2. send' \in [Sender -> Message(made')] /\ \A t \in Sends' : send'[t].rt # 0
  BY NoSendTypes, MadeIn DEF Accept, Sending, Good
<1>3. ServiceTypes'
  BY <1>2 DEF Accept, Sending, Good, ServiceTypes
<1> QED
  BY <1>1, <1>3

LEMMA AwaitGood ==
    ASSUME Good, NEW s \in Sends, NEW pc \in SendPc, Await(s, pc), Sending
    PROVE  ServiceTypes' /\ HandoffGood'
<1>1. HandoffGood'
  BY HandoffFrame DEF Await, Sending, Good, HandoffGood
<1>2. send' \in [Sender -> Message(made')] /\ \A t \in Sends' : send'[t].rt # 0
  BY SendPcTypes DEF Await, Sending, Good
<1>3. ServiceTypes'
  BY <1>2 DEF Await, Sending, Good, ServiceTypes
<1> QED
  BY <1>1, <1>3

LEMMA RuntimeFrame == ASSUME RuntimeTypes, UNCHANGED runtimeVars PROVE RuntimeTypes'
BY DEF RuntimeTypes, runtimeVars

LEMMA SpawnGood ==
    ASSUME Good, NEW s \in Sends, Spawn(s), Sending PROVE Good'
<1>1. RuntimeTypes'
  BY StartLoopTypes, MadeIn DEF Spawn, Good
<1> QED
  BY <1>1, AcceptGood DEF Spawn, Good, HandoffGood

\* Retiring the process of object r.
LEMMA RetireTypes ==
    ASSUME RuntimeTypes, NEW r \in Runtime, NEW x \in RtType,
           rt' = [rt EXCEPT ![r] = Retired(r, x)], RetiredChannel(r), UNCHANGED loop
    PROVE  RuntimeTypes'
<1> DEFINE y == Retired(r, x)
<1>1. y \in RtType
  BY RetiredIs
<1>2. rt' \in [Runtime -> RtType]
  <2> HIDE DEF y
  <2>1. rt' = [rt EXCEPT ![r] = y]
    BY DEF y
  <2> QED
    BY <1>1, <2>1 DEF RuntimeTypes
<1> QED
  BY <1>2, RetiredChannelTypes DEF RuntimeTypes

LEMMA StartGood ==
    ASSUME Good, NEW s \in Sends, Start(s), Sending PROVE Good'
<1> DEFINE r == send[s].rt
<1>1. r \in Runtime /\ rt[r] \in RtType
  BY MadeIn, FieldsIn DEF Good
<1>2. CASE rt[r].state = "closed"
  <2>1. Refuse(s) /\ UNCHANGED runtimeVars
    BY <1>2 DEF Start
  <2> QED
    BY <2>1, RefuseGood, RuntimeFrame DEF Good, HandoffGood
<1>3. CASE rt[r].state # "closed" /\ ~HasLiveProcess(r)
  BY <1>3, SpawnGood DEF Start
<1>4. CASE rt[r].state # "closed" /\ HasLiveProcess(r) /\ rt[r].turnInFlight
  <2>1. rt' = [rt EXCEPT ![r].userStopping = FALSE] /\ Refuse(s) /\ UNCHANGED <<loop, channel>>
    BY <1>4 DEF Start
  <2>2. [rt[r] EXCEPT !.userStopping = FALSE] \in RtType
    BY <1>1 DEF RtType
  <2>3. RuntimeTypes'
    BY <1>1, <2>1, <2>2 DEF Good, RuntimeTypes
  <2> QED
    BY <2>1, <2>3, RefuseGood DEF Good, HandoffGood
<1>5. CASE rt[r].state # "closed" /\ HasLiveProcess(r) /\ ~rt[r].turnInFlight
  <2>1. CASE OutOfDate(s)
    <3>1. /\ rt' = [rt EXCEPT ![r] = Retired(r, rt[r])] /\ RetiredChannel(r) /\ UNCHANGED loop
          /\ Await(s, "retiring")
      BY <1>5, <2>1 DEF Start
    <3>2. RuntimeTypes'
      BY <1>1, <3>1, RetireTypes DEF Good
    <3> QED
      BY <3>1, <3>2, AwaitGood DEF Good, HandoffGood, SendPc
  <2>2. CASE Enqueue(r) /\ Accept(s)
    BY <1>1, <2>2, EnqueueTypes, AcceptGood DEF Good, HandoffGood
  <2>3. CASE EnqueueFails(r) /\ Refuse(s)
    BY <1>1, <2>3, EnqueueTypes, RefuseGood DEF Good, HandoffGood
  <2> QED
    BY <1>5, <2>1, <2>2, <2>3 DEF Start
<1> QED
  BY <1>2, <1>3, <1>4, <1>5

LEMMA UnlessStoppingGood ==
    ASSUME Good, NEW s \in Sends, UnlessStopping(s), Sending PROVE Good'
<1>1. CASE rt[send[s].rt].stopPending
  BY <1>1, AwaitGood, RuntimeFrame DEF UnlessStopping, Good, HandoffGood, SendPc
<1>2. CASE ~rt[send[s].rt].stopPending
  BY <1>2, StartGood DEF UnlessStopping
<1> QED
  BY <1>1, <1>2

LEMMA SendStepGood ==
    ASSUME Good, NEW s \in Sender, SendStep(s) PROVE Good'
<1>1. s \in Sends
  BY DEF SendStep, PreviousSettled, SendMessage, InterruptAwaited, StopSettled, SettleTimesOut, Sends
<1>2. CASE PreviousSettled(s)
  <2>1. CASE current = send[s].rt
    BY <1>2, <2>1, PrepareGood DEF PreviousSettled, Good, ServiceTypes, Flushes
  <2>2. CASE current # send[s].rt
    <3>1. /\ UNCHANGED <<rt, loop, channel, current, made, kernel, mode, flush, waiting, switch,
                         handoff, attempt, reacted>>
          /\ send' = [send EXCEPT ![s] = NoSend] /\ GiveBack(s)
      BY <1>2, <2>2 DEF PreviousSettled
    <3>2. send' \in [Sender -> Message(made')] /\ \A t \in Sends' : send'[t].rt # 0
      BY <3>1, NoSendTypes DEF Good
    <3>3. pending' \subseteq {"steer", "callback"}
      BY <3>1 DEF GiveBack, Good, ServiceTypes, Sender
    <3>4. ServiceTypes'
      BY <3>1, <3>2, <3>3 DEF Good, ServiceTypes
    <3> QED
      BY <3>1, <3>4, HandoffFrame, RuntimeFrame DEF Good, HandoffGood, runtimeVars
  <2> QED
    BY <2>1, <2>2
<1>3. CASE SendMessage(s)
  <2>1. CASE rt[send[s].rt].interruptInFlight
    BY <1>1, <1>3, <2>1, AwaitGood, RuntimeFrame DEF SendMessage, Good, HandoffGood, SendPc
  <2>2. CASE ~rt[send[s].rt].interruptInFlight
    BY <1>1, <1>3, <2>2, UnlessStoppingGood DEF SendMessage
  <2> QED
    BY <2>1, <2>2
<1>4. CASE InterruptAwaited(s)
  BY <1>1, <1>4, UnlessStoppingGood DEF InterruptAwaited
<1>5. CASE StopSettled(s)
  <2>1. Sending /\ \/ Refuse(s) /\ UNCHANGED runtimeVars
                   \/ Spawn(s)
                   \/ Start(s)
    BY <1>5 DEF StopSettled
  <2> QED
    BY <1>1, <2>1, RefuseGood, RuntimeFrame, SpawnGood, StartGood DEF Good, HandoffGood
<1>6. CASE SettleTimesOut(s)
  BY <1>1, <1>6, RefuseGood, RuntimeFrame DEF SettleTimesOut, Good, HandoffGood
<1> QED
  BY <1>2, <1>3, <1>4, <1>5, <1>6 DEF SendStep

LEMMA UserGood ==
    ASSUME Good, WindowSends \/ (\E s \in Sender : Keep(s)) \/ FlushOne
    PROVE  Good'
<1>1. CASE WindowSends
  BY <1>1, HandleSendGood DEF WindowSends, Sender, Good, ServiceTypes, Flushes
<1>2. ASSUME NEW s \in Sender, Keep(s) PROVE Good'
  <2>1. /\ UNCHANGED <<runtimeVars, current, made, kernel, mode, send, waiting, switch, handoff,
                       attempt, reacted>>
        /\ s \in {"steer", "callback"} /\ pending' = pending \cup {s} /\ flush' = <<s>>
    BY <1>2 DEF Keep
  <2>2. ServiceTypes'
    BY <2>1 DEF Good, ServiceTypes, Sends
  <2> QED
    BY <2>1, <2>2, RuntimeFrame, HandoffFrame DEF Good, HandoffGood
<1>3. CASE FlushOne
  <2>1. flush' \in Flushes /\ Head(flush) \in {"steer", "callback"}
    BY <1>3, FlushIs DEF FlushOne, Good, ServiceTypes, Flushes
  <2>2. CASE UNCHANGED <<runtimeVars, current, made, kernel, mode, pending, send, waiting,
                         switch, handoff, attempt, reacted, left>>
    <3>1. ServiceTypes'
      BY <2>1, <2>2 DEF Good, ServiceTypes, Flushes, Sends
    <3> QED
      BY <2>2, <3>1, RuntimeFrame, HandoffFrame DEF Good, HandoffGood
  <2>3. CASE HandleSend(Head(flush)) /\ pending' = pending \ {Head(flush)}
    BY <2>1, <2>3, HandleSendGood DEF Good, ServiceTypes, Sender
  <2> QED
    BY <1>3, <2>2, <2>3 DEF FlushOne
<1> QED
  BY <1>1, <1>2, <1>3

-----------------------------------------------------------------------------
(* Stopping, switching and the kernel. *)

LEMMA InterruptGood ==
    ASSUME Good, NEW who \in {"stop", "mode"}, Interrupt(who),
           mode' \in Mode, pending' \subseteq {"steer", "callback"}
    PROVE  Good'
<1>1. current \in Runtime /\ rt[current] \in RtType /\ current \in 1..made
  BY MadeIn, FieldsIn DEF Interrupt, Good
<1>2. RuntimeTypes'
  <2> DEFINE y == Interrupted(rt[current])
  <2>1. y \in RtType
    BY <1>1, InterruptedIs
  <2>2. rt' = [rt EXCEPT ![current] = y] /\ UNCHANGED <<loop, channel>>
    BY DEF Interrupt
  <2> HIDE DEF y
  <2> QED
    BY <2>1, <2>2 DEF Good, RuntimeTypes
<1>3. waiting' \subseteq {"stop", "mode"} \X (1..made')
  BY <1>1 DEF Interrupt, Good, ServiceTypes
<1>4. ServiceTypes'
  BY <1>3 DEF Interrupt, Good, ServiceTypes, Sends
<1> QED
  BY <1>2, <1>4, HandoffFrame DEF Interrupt, Good, HandoffGood

LEMMA InterruptReturnsGood ==
    ASSUME Good, NEW r \in Runtime, InterruptReturns(r)
    PROVE  Good'
<1> DEFINE taken == [rt EXCEPT ![r] = InterruptTaken(rt[r])]
<1>1. taken \in [Runtime -> RtType]
  <2>1. InterruptTaken(rt[r]) \in RtType
    BY FieldsIn, InterruptTakenIs DEF Good
  <2> QED
    BY <2>1 DEF Good, RuntimeTypes
<1>2. RuntimeTypes'
  <2>1. CASE <<"mode", r>> \in waiting /\ current # 0
    <3>1. current \in Runtime
      BY <2>1, MadeIn DEF Good
    <3>2. /\ rt' = [taken EXCEPT ![current] = Retired(current, taken[current])]
          /\ RetiredChannel(current) /\ UNCHANGED loop
      BY <2>1 DEF InterruptReturns
    <3> DEFINE y == Retired(current, taken[current])
    <3>3. y \in RtType
      <4>1. taken[current] \in RtType
        BY <1>1, <3>1
      <4> HIDE DEF taken
      <4> QED
        BY <4>1, RetiredIs
    <3>4. rt' \in [Runtime -> RtType]
      <4> HIDE DEF taken
      <4>1. rt' = [taken EXCEPT ![current] = y]
        BY <3>2
      <4> HIDE DEF y
      <4> QED
        BY <1>1, <3>3, <4>1
    <3> QED
      BY <3>1, <3>2, <3>4, RetiredChannelTypes DEF Good, RuntimeTypes
  <2>2. CASE ~(<<"mode", r>> \in waiting /\ current # 0)
    BY <1>1, <2>2 DEF InterruptReturns, Good, RuntimeTypes
  <2> QED
    BY <2>1, <2>2
<1>3. ServiceTypes'
  BY DEF InterruptReturns, Good, ServiceTypes, Sends
<1>4. HandoffGood'
  <2>1. CASE <<"stop", r>> \in waiting
    BY <2>1, FinalizeGood DEF InterruptReturns, Good, HandoffGood, HandoffTypes
  <2>2. CASE <<"stop", r>> \notin waiting
    BY <2>2, HandoffFrame DEF InterruptReturns, Good, HandoffGood
  <2> QED
    BY <2>1, <2>2
<1> QED
  BY <1>2, <1>3, <1>4 DEF Good, HandoffGood

LEMMA CommitSwitchGood ==
    ASSUME Good, CommitSwitch, Switching PROVE Good'
<1>1. RuntimeTypes'
  <2>1. CASE current # 0
    BY <2>1, MadeIn, DestroyTypes DEF CommitSwitch, Switching, Good, RuntimeTypes
  <2>2. CASE current = 0
    BY <2>2 DEF CommitSwitch, Switching, Good, RuntimeTypes
  <2> QED
    BY <2>1, <2>2
<1>2. current' \in 0..made' /\ switch' \in [pc : {"idle", "asked", "settling"}, rt : 0..made']
  BY MadeIn DEF CommitSwitch, Switching, NoSwitch, Good
<1>3. ServiceTypes'
  BY <1>2 DEF CommitSwitch, Switching, Good, ServiceTypes, Sends
<1>4. HandoffGood'
  <2>1. /\ handoff' = [content |-> TRUE, attempts |-> 0]
        /\ attempt' = [on |-> FALSE, sawNativeOutput |-> FALSE] /\ reacted' = FALSE
    BY DEF CommitSwitch, NoAttempt
  <2>2. HandoffTypes'
    <3>1. handoff' \in [content : BOOLEAN, attempts : 0..1]
      BY <2>1
    <3>2. attempt' \in [on : BOOLEAN, sawNativeOutput : BOOLEAN] /\ reacted' \in BOOLEAN
      BY <2>1
    <3> QED
      BY <3>1, <3>2 DEF HandoffTypes
  <2>3. HandoffInv'
    BY <2>1 DEF HandoffInv, HandoffKept, ShouldInject
  <2> QED
    BY <2>2, <2>3 DEF HandoffGood
<1> QED
  BY <1>1, <1>3, <1>4 DEF Good, HandoffGood

\* The switch goes on or is refused.
LEMMA SwitchFrame ==
    ASSUME Good, UNCHANGED <<runtimeVars, current, made, kernel, mode, pending, flush, send,
                             waiting, handoff, attempt, reacted>>,
           switch' \in {[pc |-> "asked", rt |-> 0], [pc |-> "settling", rt |-> current], NoSwitch}
    PROVE  Good'
<1>1. switch' \in [pc : {"idle", "asked", "settling"}, rt : 0..made']
  BY MadeIn DEF NoSwitch, Good
<1>2. ServiceTypes'
  BY <1>1 DEF Good, ServiceTypes, Sends
<1> QED
  BY <1>2, HandoffFrame, RuntimeFrame DEF Good, HandoffGood

LEMMA SwitchGood ==
    ASSUME Good, SwitchKernel \/ SwitchStep PROVE Good'
<1>1. CASE SwitchKernel
  BY <1>1, SwitchFrame DEF SwitchKernel
<1>2. CASE CommitSwitch /\ Switching
  BY <1>2, CommitSwitchGood
<1>3. CASE RejectSwitch /\ Switching
  BY <1>3, SwitchFrame DEF RejectSwitch, Switching, runtimeVars
<1>4. CASE /\ switch' = [pc |-> "settling", rt |-> current] /\ Switching
           /\ UNCHANGED <<rt, channel, current, kernel, pending, handoff, attempt, reacted>>
  BY <1>4, SwitchFrame DEF Switching, runtimeVars
<1> QED
  BY <1>1, <1>2, <1>3, <1>4 DEF SwitchStep, CheckSwitch, RecheckSwitch, SwitchTimesOut

LEMMA ServingTypes ==
    ASSUME Good, Serving, flush' = flush \/ FlushKept PROVE ServiceTypes'
BY DEF Serving, FlushKept, Good, ServiceTypes, Sends

LEMMA KernelGood ==
    ASSUME Good, NEW l \in Loop, KernelStep(l) PROVE Good'
<1>1. CASE KernelOpens(l)
  BY <1>1, OpenTypes, ServingTypes, HandoffFrame DEF KernelOpens, Good, HandoffGood
<1>2. CASE KernelSpeaks(l)
  <2>1. HandoffGood'
    BY <1>2 DEF KernelSpeaks, Good, HandoffGood, HandoffTypes, HandoffInv, HandoffKept, ShouldInject
  <2> QED
    BY <1>2, <2>1, ServingTypes, RuntimeFrame DEF KernelSpeaks, Good, HandoffGood
<1>3. ASSUME NEW o \in {"success", "error"}, TurnEnds(l, o) PROVE Good'
  <2> DEFINE heard == Latest(l) /\ l[1] = current
  <2>1. CASE heard /\ rt[l[1]].turnInFlight
    <3>1. FinalizeHandoffAttempt(o) /\ reacted' = (reacted \/ (attempt.on /\ heard))
      BY <1>3, <2>1 DEF TurnEnds
    <3>2. HandoffGood'
      BY <2>1, <3>1, FinalizeGood DEF Good, HandoffGood, HandoffTypes
    <3>3. ServiceTypes'
      BY <1>3, <2>1, ServingTypes DEF TurnEnds
    <3> QED
      BY <1>3, <3>2, <3>3, ResultTypes DEF TurnEnds, Good, HandoffGood
  <2>2. CASE ~(heard /\ rt[l[1]].turnInFlight)
    <3>1. /\ attempt' = [attempt EXCEPT !.sawNativeOutput = @ \/ (attempt.on /\ heard)]
          /\ reacted' = (reacted \/ (attempt.on /\ heard)) /\ UNCHANGED <<handoff, flush>>
      BY <1>3, <2>2 DEF TurnEnds
    <3>2. HandoffGood'
      <4>1. heard \in BOOLEAN
        BY DEF Latest
      <4>2. CASE attempt.on /\ heard
        BY <3>1, <4>2 DEF Good, HandoffGood, HandoffTypes, HandoffInv, HandoffKept, ShouldInject
      <4>3. CASE ~(attempt.on /\ heard)
        <5>1. attempt' = attempt /\ reacted' = reacted
          BY <3>1, <4>3 DEF Good, HandoffTypes
        <5> QED
          BY <3>1, <5>1, HandoffFrame DEF Good, HandoffGood
      <4> QED
        BY <4>2, <4>3
    <3>3. ServiceTypes'
      BY <1>3, <3>1, ServingTypes DEF TurnEnds
    <3> QED
      BY <1>3, <3>2, <3>3, ResultTypes DEF TurnEnds, Good, HandoffGood
  <2> QED
    BY <2>1, <2>2
<1>4. CASE TurnFails(l)
  <2>1. RuntimeTypes'
    BY <1>4, TooLongTypes, GiveUpTypes DEF TurnFails, Good
  <2>2. HandoffGood'
    BY <1>4, FinalizeGood, HandoffFrame DEF TurnFails, Good, HandoffGood, HandoffTypes
  <2> QED
    BY <1>4, <2>1, <2>2, ServingTypes DEF TurnFails, Good, HandoffGood
<1>5. CASE ProcessEnds(l)
  <2>1. ServiceTypes'
    BY <1>5, ServingTypes DEF ProcessEnds
  <2> QED
    BY <1>5, <2>1, LoopEndsTypes, HandoffFrame DEF ProcessEnds, Good, HandoffGood
<1>6. CASE ProcessRecovers(l)
  BY <1>6, RecoverTypes, ServingTypes, HandoffFrame DEF ProcessRecovers, Good, HandoffGood
<1> QED
  BY <1>1, <1>2, <1>3, <1>4, <1>5, <1>6 DEF KernelStep

LEMMA GoodInit == Init => Good
<1> SUFFICES ASSUME Init PROVE Good
  OBVIOUS
<1>1. RuntimeTypes
  <2> PICK k \in Kernel : rt = [r \in Runtime |-> NewRuntime(k)]
    BY DEF Init, RuntimeInit
  <2>1. NewRuntime(k) \in RtType /\ Unused \in LoopType
    BY NewRuntimeIs DEF Unused, LoopType
  <2> QED
    BY <2>1 DEF Init, RuntimeInit, RuntimeTypes, Loop
<1>2. kernel \in Kernel
  <2>1. 1 \in Runtime
    BY BoundAssumption DEF BoundAssumption, Runtime
  <2> QED
    BY <1>1, <2>1, FieldsIn DEF Init
<1>3. ServiceTypes
  <2>1. NoSend \in Message(made) /\ NoSwitch \in [pc : {"idle", "asked", "settling"}, rt : 0..made]
    BY DEF Init, NoSend, NoSwitch, Message, SendPc, Mode
  <2>2. made \in 0..MaxRuntimes /\ current \in 0..made
    BY BoundAssumption DEF BoundAssumption, Init
  <2>3. \A s \in Sends : send[s].rt # 0
    BY DEF Init, Sends, NoSend
  <2> QED
    BY <1>2, <2>1, <2>2, <2>3 DEF Init, ServiceTypes, Mode
<1>4. HandoffTypes /\ HandoffInv
  <2>1. /\ handoff = [content |-> FALSE, attempts |-> 0]
        /\ attempt = [on |-> FALSE, sawNativeOutput |-> FALSE] /\ reacted = FALSE
    BY DEF Init, NoHandoff, NoAttempt
  <2>2. HandoffTypes
    <3>1. handoff \in [content : BOOLEAN, attempts : 0..1]
      BY <2>1
    <3>2. attempt \in [on : BOOLEAN, sawNativeOutput : BOOLEAN] /\ reacted \in BOOLEAN
      BY <2>1
    <3> QED
      BY <3>1, <3>2 DEF HandoffTypes
  <2>3. HandoffInv
    BY <2>1 DEF HandoffInv, HandoffKept, ShouldInject
  <2> QED
    BY <2>2, <2>3
<1> QED
  BY <1>1, <1>3, <1>4 DEF Good

LEMMA GoodStep == Good /\ [Next]_vars => Good'
<1> SUFFICES ASSUME Good, [Next]_vars PROVE Good'
  OBVIOUS
<1>1. CASE StopAgent
  BY <1>1, InterruptGood DEF StopAgent, Good, ServiceTypes
<1>2. CASE SetExecutionMode
  BY <1>2, InterruptGood DEF SetExecutionMode, Good, ServiceTypes, Mode
<1>3. CASE UNCHANGED vars
  <2>1. ServiceTypes'
    BY <1>3 DEF vars, serviceVars, Good, ServiceTypes, Sends
  <2> QED
    BY <1>3, <2>1, RuntimeFrame, HandoffFrame DEF vars, serviceVars, Good, HandoffGood
<1> QED
  BY <1>1, <1>2, <1>3, UserGood, SendStepGood, InterruptReturnsGood, SwitchGood, KernelGood DEF Next

\* Whatever messages, stops and switches meet, types are kept and a handoff
\* that has been tried is being delivered, answered or free to be tried again.
THEOREM Goodness == Spec => []Good
BY GoodInit, GoodStep, PTL DEF Spec

\* The types and the counts of the service's state.
THEOREM TypeCorrect == Spec => []ServiceTypeOK
<1>1. Good => ServiceTypeOK
  <2> SUFFICES ASSUME Good PROVE ServiceTypeOK
    OBVIOUS
  <2>1. flush \in Seq({"steer", "callback"})
    <3>1. <<>> \in Seq({"steer", "callback"}) /\ <<"steer">> \in Seq({"steer", "callback"})
      OBVIOUS
    <3>2. <<"callback">> \in Seq({"steer", "callback"})
      OBVIOUS
    <3>3. <<"steer", "callback">> \in Seq({"steer", "callback"})
      OBVIOUS
    <3> QED
      BY <3>1, <3>2, <3>3 DEF Good, ServiceTypes
  <2> QED
    BY <2>1, MadeIn DEF ServiceTypeOK, Good, ServiceTypes, HandoffTypes
<1> QED
  BY <1>1, Goodness, PTL

\* A handoff that the kernel has not reacted to is not lost
\* (finalizeHandoffAttempt).
THEOREM HandoffIsKept == Spec => []HandoffKept
<1>1. Good => HandoffKept
  BY DEF Good, HandoffInv
<1> QED
  BY <1>1, Goodness, PTL


-----------------------------------------------------------------------------
(* The control of the turns, when messages do not meet: facts.  *)

\* Only a loop of the current object is alive and was not switched away.
LEMMA LivesInCurrent ==
    ASSUME IInv, NEW l \in Loop, Alive(l), ~rt[l[1]].userClosing
    PROVE  /\ current \in Runtime /\ l[1] = current /\ l[2] = rt[current].loopEpoch
           /\ rt[current].state # "closed"
BY LoopIn DEF IInv, Control, Living, Latest

LEMMA BusyInCurrent ==
    ASSUME IInv, NEW l \in Loop, Busy(l)
    PROVE  /\ Alive(l) /\ current \in Runtime /\ l[1] = current /\ l[2] = rt[current].loopEpoch
           /\ rt[current].state # "closed" /\ ~rt[current].userClosing
<1>1. Alive(l) /\ l[1] = current /\ ~rt[l[1]].userClosing
  BY LoopIn DEF IInv, Control, Laboring, CurrentOpen, Busy, Alive, Runtime
<1> QED
  BY <1>1, LivesInCurrent

\* When nothing is at work, no stop is waited for and the current object has no
\* process, all that was not switched away is over.
LEMMA NoneLives ==
    ASSUME IInv, \A l \in Loop : ~Busy(l),
           current = 0 \/ (~rt[current].stopPending /\ ~HasLiveProcess(current)),
           NEW l \in Loop, Alive(l)
    PROVE  rt[l[1]].userClosing
<1> SUFFICES ASSUME ~rt[l[1]].userClosing PROVE FALSE
  OBVIOUS
<1>1. current \in Runtime /\ l[1] = current
  BY LivesInCurrent
<1>2. current # 0
  BY <1>1 DEF Runtime
<1>3. rt[current].loopRunning /\ (loop[l].native = "starting" \/ Filed(l))
  BY <1>1, <1>2 DEF IInv, Control, Living
<1>4. channel[rt[current].kernel] # NoLoop
  BY <1>1, <1>3 DEF Filed, Busy
<1> QED
  BY <1>2, <1>3, <1>4 DEF HasLiveProcess

\* A message that is on its way is alone, it is for the current object, and
\* nothing is at work unless a stop is waited for.
LEMMA OnItsWay ==
    ASSUME IInv, NEW s \in Sends
    PROVE  /\ s \in Sender /\ Sends = {s} /\ pending = {}
           /\ send[s].rt = current /\ current \in Runtime /\ current # 0 /\ current <= made
           /\ ~rt[current].userClosing
           /\ ~rt[current].stopPending => \A l \in Loop : ~Busy(l)
<1>1. s \in Sender /\ pending \subseteq Sender /\ Sends \subseteq Sender
  BY DEF Sends, IInv, Good, ServiceTypes, Sender
<1>2. Sends = {s} /\ pending = {}
  BY <1>1 DEF IInv, Control, Solo
<1>3. send[s].rt = current /\ current # 0
  BY DEF IInv, Control, Aimed
<1>4. current \in Runtime /\ current <= made
  BY <1>3, MadeIn DEF IInv, Good, ServiceTypes, Runtime
<1>5. ~rt[current].userClosing
  BY <1>3 DEF IInv, Control, CurrentOpen
<1>6. ASSUME ~rt[current].stopPending, NEW l \in Loop, Busy(l) PROVE FALSE
  BY <1>6, <1>2 DEF IInv, Control, Laboring
<1> QED
  BY <1>1, <1>2, <1>3, <1>4, <1>5, <1>6

LEMMA WaitedFor ==
    ASSUME IInv, NEW w \in waiting
    PROVE  /\ w \in {"stop", "mode"} \X (1..made) /\ w[2] \in Runtime /\ w[2] <= made
           /\ rt[w[2]].interruptInFlight
<1>1. w \in {"stop", "mode"} \X (1..made)
  BY DEF IInv, Good, ServiceTypes
<1>2. w[2] \in 1..made
  BY <1>1
<1>3. made \in Nat /\ made <= MaxRuntimes
  BY MadeIn DEF IInv, Good
<1>4. w[2] \in Runtime /\ w[2] <= made
  BY <1>2, <1>3, BoundAssumption DEF BoundAssumption, Runtime
<1> QED
  BY <1>1, <1>4 DEF IInv, Control, Asked

\* What is about the objects and their loops alone.
Standing == Untouched /\ Asked /\ CurrentOpen /\ Listening /\ Living /\ Rested

LEMMA StandingFrame ==
    ASSUME IInv, UNCHANGED <<rt, loop, channel, current, made, waiting>>
    PROVE  Standing'
<1>1. Untouched' /\ Asked' /\ CurrentOpen' /\ Listening' /\ Rested'
  BY DEF IInv, Control, Untouched, Asked, CurrentOpen, Listening, Rested, Alive
<1>2. Living'
  BY DEF IInv, Control, Living, Alive, Latest, Filed
<1> QED
  BY <1>1, <1>2 DEF Standing

\* An object and its loops change, the others' loops live on.
LEMMA ListeningFrom ==
    ASSUME IInv, NEW r \in Runtime,
           \A q \in Runtime \ {r} : rt'[q].loopRunning = rt[q].loopRunning
                                  /\ rt'[q].loopEpoch = rt[q].loopEpoch,
           \A l \in Loop : l[1] # r => loop'[l] = loop[l],
           rt'[r].loopRunning =>
              /\ rt'[r].loopEpoch # 0
              /\ loop'[<<r, rt'[r].loopEpoch>>].native \in {"starting", "working", "resting"}
    PROVE  Listening'
<1> SUFFICES ASSUME NEW q \in Runtime, rt'[q].loopRunning
             PROVE  /\ rt'[q].loopEpoch # 0
                    /\ loop'[<<q, rt'[q].loopEpoch>>].native \in {"starting", "working", "resting"}
  BY DEF Listening, Alive
<1>1. CASE q = r
  BY <1>1
<1>2. CASE q # r
  <2>1. /\ rt'[q].loopEpoch = rt[q].loopEpoch /\ rt[q].loopEpoch # 0
        /\ loop[<<q, rt[q].loopEpoch>>].native \in {"starting", "working", "resting"}
    BY <1>2 DEF IInv, Control, Listening, Alive
  <2>2. rt[q].loopEpoch \in Epoch
    BY <2>1, FieldsIn, BoundAssumption DEF BoundAssumption, IInv, Good, Epoch
  <2>3. loop'[<<q, rt[q].loopEpoch>>] = loop[<<q, rt[q].loopEpoch>>]
    BY <1>2, <2>2 DEF Loop
  <2> QED
    BY <2>1, <2>3
<1> QED
  BY <1>1, <1>2

LEMMA LaboringFrame ==
    ASSUME IInv, UNCHANGED <<rt, loop, current>>,
           Sends' # {} => Sends # {}, flush' = <<"steer", "callback">> => flush' = flush
    PROVE  Laboring'
BY DEF IInv, Control, Laboring, Busy

\* Nothing at work, nothing to show.
LEMMA Workless ==
    ASSUME \A l \in Loop : ~Busy(l), loop' = loop PROVE Laboring'
BY DEF Laboring, Busy

LEMMA ControlIs == Standing' /\ Solo' /\ Aimed' /\ Laboring' => Control'
BY DEF Standing, Control

-----------------------------------------------------------------------------
(* Messages. *)

\* A message is done with; the one that waits again is the same.
LEMMA DoneWith ==
    ASSUME IInv, NEW s \in Sends, send' = [send EXCEPT ![s] = NoSend],
           pending' \subseteq {s}
    PROVE  Sends' = {} /\ Solo' /\ Aimed'
<1>1. Sends' = {}
  <2>1. \A t \in Sender \ {s} : send[t].pc = "idle"
    BY OnItsWay DEF Sends
  <2> QED
    BY <2>1, OnItsWay DEF Sends, NoSend, IInv, Good, ServiceTypes
<1> QED
  BY <1>1 DEF Solo, Aimed

LEMMA Refused ==
    ASSUME IInv, NEW s \in Sends, Refuse(s)
    PROVE  Sends' = {} /\ Solo' /\ Aimed'
<1>1. pending' \subseteq {s}
  BY OnItsWay DEF Refuse, GiveBack
<1> QED
  BY <1>1, DoneWith DEF Refuse

LEMMA Accepted ==
    ASSUME IInv, NEW s \in Sends, Accept(s)
    PROVE  Sends' = {} /\ Solo' /\ Aimed'
<1>1. pending' \subseteq {s}
  BY OnItsWay DEF Accept
<1> QED
  BY <1>1, DoneWith DEF Accept

\* A message that is alone and for the current object.
LEMMA UnderWay ==
    ASSUME IInv, NEW s \in Sender, NEW m, m.pc # "idle", send' = [send EXCEPT ![s] = m],
           \A t \in Sends : t = s, pending' = {},
           m.rt = current', current' # 0,
           m.pc \in {"stopping", "retiring"} => ~rt'[current'].interruptInFlight,
           m.pc = "retiring" => ~rt'[current'].turnInFlight /\ ~rt'[current'].loopRunning
    PROVE  Sends' = {s} /\ Solo' /\ Aimed'
<1>1. send'[s] = m /\ \A t \in Sender \ {s} : send'[t] = send[t]
  BY DEF IInv, Good, ServiceTypes
<1>2. Sends' = {s}
  BY <1>1 DEF Sends
<1>3. Solo'
  BY <1>2 DEF Solo
<1>4. Aimed'
  BY <1>1, <1>2 DEF Aimed
<1> QED
  BY <1>2, <1>3, <1>4


\* A message that is prepared while nothing is at work.
LEMMA PrepareControl ==
    ASSUME IInv, NEW s \in Sender, Prepare(s), UNCHANGED <<loop, channel, waiting>>,
           \A l \in Loop : ~Busy(l), current = 0 \/ ~rt[current].stopPending,
           \A t \in Sends : t = s, pending' = {}
    PROVE  Control'
<1> DEFINE first == current = 0 \/ ~HasLiveProcess(current)
           r == IF first THEN made + 1 ELSE current
           m == [pc |-> "building", rt |-> r, mode |-> mode, carries |-> ShouldInject]
<1>0. Laboring'
  BY Workless
<1>1. r # 0 /\ r <= MaxRuntimes /\ current' = r /\ made' = IF first THEN r ELSE made
  BY MadeIn DEF Prepare, IInv, Good, ServiceTypes
<1>2. Sends' = {s} /\ Solo' /\ Aimed'
  <2>1. send' = [send EXCEPT ![s] = m] /\ m.pc = "building" /\ m.rt = r
    BY DEF Prepare
  <2> HIDE DEF m, r
  <2> QED
    BY <1>1, <2>1, UnderWay
<1>3. CASE first
  <2>1. current' = made + 1 /\ made' = made + 1 /\ made + 1 \in Runtime
    BY <1>1, <1>3, MadeIn DEF Runtime, IInv, Good
  <2>2. kernel \in Kernel /\ rt' = [rt EXCEPT ![made + 1] = NewRuntime(kernel)]
    BY <1>3 DEF Prepare, IInv, Good, ServiceTypes
  <2>3. rt'[made + 1] = NewRuntime(kernel) /\ \A q \in Runtime \ {made + 1} : rt'[q] = rt[q]
    BY <2>1, <2>2 DEF IInv, Good, RuntimeTypes
  <2>4. \A l \in Loop : Alive(l)' => rt'[l[1]].userClosing
    <3> SUFFICES ASSUME NEW l \in Loop, Alive(l)' PROVE rt'[l[1]].userClosing
      OBVIOUS
    <3>1. rt[l[1]].userClosing
      BY <1>3, NoneLives DEF Alive
    <3>2. l[1] # made + 1
      BY <2>1, <3>1, MadeIn, LoopIn DEF IInv, Good, Control, Untouched
    <3> QED
      BY <2>3, <3>1, <3>2, LoopIn
  <2>5. Living'
    BY <2>4 DEF Living
  <2>6. Untouched'
    BY <2>1, <2>3, MadeIn DEF IInv, Good, Control, Untouched, Runtime
  <2>7. Asked'
    <3>1. \A w \in waiting : w[2] \in Runtime /\ w[2] # made + 1
      BY WaitedFor, MadeIn DEF IInv, Good
    <3> QED
      BY <2>3, <3>1 DEF IInv, Control, Asked
  <2>8. CurrentOpen'
    BY <2>1, <2>2, <2>3, NewRuntimeIs DEF CurrentOpen
  <2>9. Listening' /\ Rested'
    <3>1. ~rt'[made + 1].loopRunning
      BY <2>2, <2>3, NewRuntimeIs
    <3>2. \A q \in Runtime : rt'[q].loopRunning => rt'[q] = rt[q]
      BY <2>3, <3>1
    <3> QED
      BY <3>2 DEF IInv, Control, Listening, Rested, Alive
  <2> QED
    BY <1>0, <1>2, <2>5, <2>6, <2>7, <2>8, <2>9, ControlIs DEF Standing
<1>4. CASE ~first
  <2>1. rt' = rt /\ current' = current /\ made' = made
    BY <1>1, <1>4 DEF Prepare
  <2> QED
    BY <1>0, <1>2, <2>1, StandingFrame, ControlIs
<1> QED
  BY <1>3, <1>4

\* A message comes up when all that is at work is being stopped.
LEMMA HandleSendControl ==
    ASSUME IInv, NEW s \in Sender, HandleSend(s), Sends = {}, pending' = {},
           \A l \in Loop : Busy(l) => rt[current].stopPending
    PROVE  Control'
<1>1. CASE current # 0 /\ rt[current].stopPending
  <2>1. UNCHANGED <<rt, loop, channel, current, made, waiting>>
    BY <1>1 DEF HandleSend
  <2>2. Sends' = {s} /\ Solo' /\ Aimed'
    <3> DEFINE m == [send[s] EXCEPT !.pc = "settling", !.rt = current]
    <3>1. send' = [send EXCEPT ![s] = m]
      BY <1>1 DEF HandleSend, IInv, Good, ServiceTypes
    <3>2. m.pc = "settling" /\ m.rt = current
      BY DEF IInv, Good, ServiceTypes, Message
    <3> HIDE DEF m
    <3> QED
      BY <1>1, <2>1, <3>1, <3>2, UnderWay
  <2>3. Laboring'
    BY <2>1 DEF IInv, Control, Laboring, Busy
  <2> QED
    BY <2>1, <2>2, <2>3, StandingFrame, ControlIs
<1>2. CASE ~(current # 0 /\ rt[current].stopPending)
  <2>1. \A l \in Loop : ~Busy(l)
    BY <1>2, BusyInCurrent DEF Runtime
  <2> QED
    BY <1>2, <2>1, PrepareControl DEF HandleSend
<1> QED
  BY <1>1, <1>2

\* The window's message, and what it may interrupt.
LEMMA WindowSendsControl ==
    ASSUME IInv, ~Overlap, WindowSends PROVE Control'
<1>1. Sends = {} /\ pending' = {}
  BY DEF WindowSends, Alone
<1>2. ASSUME NEW l \in Loop, Busy(l) PROVE rt[current].stopPending
  <2>1. current # 0 /\ rt[current].state # "closed" /\ l[1] = current
    BY <1>2, BusyInCurrent DEF Runtime
  <2>2. rt[current].turnInFlight \/ rt[current].stopPending
    BY <1>2, <2>1 DEF IInv, Control, Laboring
  <2>3. ~rt[current].turnInFlight \/ rt[current].interruptInFlight
    BY <2>1 DEF WindowSends, Showing
  <2> QED
    BY <1>2, <2>1, <2>2, <2>3 DEF IInv, Control, Laboring
<1> QED
  BY <1>1, <1>2, HandleSendControl DEF WindowSends, Sender

\* What is kept and what a callback of the loop sends.
LEMMA KeepControl ==
    ASSUME IInv, ~Overlap, NEW s \in Sender, Keep(s) PROVE Control'
<1>1. Sends = {} /\ pending' = {s} /\ send' = send /\ flush' = <<s>>
  BY DEF Keep, Alone
<1>2. Sends' = {}
  BY <1>1 DEF Sends
<1>3. Solo' /\ Aimed'
  BY <1>1, <1>2 DEF Solo, Aimed
<1>4. flush' # <<"steer", "callback">>
  BY <1>1
<1>5. UNCHANGED <<rt, loop, channel, current, made, waiting>>
  BY DEF Keep, runtimeVars
<1> QED
  BY <1>2, <1>3, <1>4, <1>5, StandingFrame, LaboringFrame, ControlIs

LEMMA FlushOneControl ==
    ASSUME IInv, FlushOne PROVE Control'
<1> DEFINE s == Head(flush)
<1>1. s \in {"steer", "callback"} /\ flush' # <<"steer", "callback">>
  <2>1. flush \in Flushes
    BY DEF IInv, Good, ServiceTypes, Flushes
  <2>2. flush # <<>> /\ flush' = Tail(flush)
    BY DEF FlushOne
  <2>3. Head(flush) \in {"steer", "callback"} /\ Tail(flush) \in {<<>>, <<"callback">>}
    BY <2>1, <2>2, FlushIs
  <2> QED
    BY <2>2, <2>3
<1>2. CASE s \notin pending \/ (~Idle /\ ~(s = "steer" /\ Len(flush) = 2)) \/ switch.pc # "idle"
  <2>1. UNCHANGED <<rt, loop, channel, current, made, waiting, send, pending>>
    BY <1>2 DEF FlushOne, runtimeVars
  <2>2. Sends' = Sends
    BY <2>1 DEF Sends
  <2>3. Solo' /\ Aimed'
    BY <2>1, <2>2 DEF IInv, Control, Solo, Aimed
  <2> QED
    BY <1>1, <2>1, <2>2, <2>3, StandingFrame, LaboringFrame, ControlIs
<1>3. CASE ~(s \notin pending \/ (~Idle /\ ~(s = "steer" /\ Len(flush) = 2)) \/ switch.pc # "idle")
  <2>1. s \in pending /\ pending' = pending \ {s} /\ HandleSend(s)
        /\ (Idle \/ Len(flush) = 2)
    BY <1>3 DEF FlushOne
  <2>2. Sends = {} /\ pending' = {}
    <3>1. Sends \subseteq Sender /\ pending \subseteq Sender /\ s \in Sender
      BY <1>1 DEF Sends, IInv, Good, ServiceTypes, Sender
    <3> QED
      BY <2>1, <3>1 DEF IInv, Control, Solo
  <2>3. ASSUME NEW l \in Loop, Busy(l) PROVE rt[current].stopPending
    <3>1. l[1] = current /\ current # 0
      BY <2>3, BusyInCurrent DEF Runtime
    <3>2. CASE Idle
      BY <2>3, <3>1, <3>2 DEF Idle, IInv, Control, Laboring
    <3>3. CASE Len(flush) = 2
      <4>1. flush = <<"steer", "callback">>
        BY <3>3, FlushIs DEF FlushOne, IInv, Good, ServiceTypes, Flushes
      <4> QED
        BY <2>3, <3>1, <4>1 DEF IInv, Control, Laboring
    <3> QED
      BY <2>1, <3>2, <3>3
  <2> QED
    BY <1>1, <2>1, <2>2, <2>3, HandleSendControl DEF Sender
<1> QED
  BY <1>2, <1>3


\* A message that is refused, or waits on, while nothing moves.
LEMMA StillControl ==
    ASSUME IInv, NEW s \in Sends, UNCHANGED <<runtimeVars, current, made, waiting, flush>>,
           \/ Refuse(s)
           \/ \E pc \in {"interrupting", "stopping"} :
                 Await(s, pc) /\ (pc = "stopping" => ~rt[current].interruptInFlight)
    PROVE  Control'
<1>0. UNCHANGED <<rt, loop, channel, current, made, waiting, flush>> /\ Sends # {}
  BY DEF runtimeVars
<1>1. Solo' /\ Aimed'
  <2>1. CASE Refuse(s)
    BY <2>1, Refused
  <2>2. ASSUME NEW pc \in {"interrupting", "stopping"}, Await(s, pc),
               pc = "stopping" => ~rt[current].interruptInFlight
        PROVE  Solo' /\ Aimed'
    <3> DEFINE m == [send[s] EXCEPT !.pc = pc]
    <3>1. send' = [send EXCEPT ![s] = m]
      BY <2>2, OnItsWay DEF Await, IInv, Good, ServiceTypes
    <3>2. m.pc = pc /\ m.rt = current
      BY OnItsWay DEF IInv, Good, ServiceTypes, Message
    <3>3. pending' = {} /\ \A t \in Sends : t = s
      BY <2>2, OnItsWay DEF Await
    <3> HIDE DEF m
    <3> QED
      BY <1>0, <2>2, <3>1, <3>2, <3>3, OnItsWay, UnderWay
  <2> QED
    BY <2>1, <2>2
<1> QED
  BY <1>0, <1>1, StandingFrame, LaboringFrame, ControlIs

\* A new loop, when all that came before is over or was switched away.
LEMMA SpawnControl ==
    ASSUME IInv, NEW s \in Sends, Spawn(s), flush = <<>>, UNCHANGED <<current, made, waiting, flush>>,
           ~rt[current].stopPending, ~rt[current].interruptInFlight, ~HasLiveProcess(current)
    PROVE  Control'
<1> DEFINE r == current
           new == <<current, rt[current].loopEpoch + 1>>
           y == [Started(rt[current]) EXCEPT !.fingerprint = send[s].mode]
<1>1. /\ Sends' = {} /\ Solo' /\ Aimed' /\ send[s].rt = r /\ r \in Runtime /\ r <= made /\ r # 0
      /\ \A l \in Loop : ~Busy(l)
  BY Accepted, OnItsWay DEF Spawn
<1>2. ~rt[r].userClosing /\ rt[r] \in RtType /\ rt[r].loopEpoch < MaxLoops /\ send[s].mode \in Mode
  BY <1>1, OnItsWay, FieldsIn, MadeIn DEF IInv, Good, Spawn, StartLoop
<1>4. new \in Loop
  BY <1>1, <1>2, BoundAssumption DEF BoundAssumption, RtType, Loop, Epoch, Runtime
<1>5. rt' = [rt EXCEPT ![r] = y] /\ loop' = [loop EXCEPT ![new] = FreshLoop]
  BY <1>1 DEF Spawn, StartLoop
<1>y. y = [Started(rt[r]) EXCEPT !.fingerprint = send[s].mode]
  OBVIOUS
<1> HIDE DEF y
<1>3. /\ y.loopEpoch = rt[r].loopEpoch + 1 /\ y.loopRunning /\ y.turnInFlight
      /\ y.state = "running" /\ ~y.userClosing /\ ~y.interruptInFlight
  <2>1. /\ y.loopEpoch = rt[r].loopEpoch + 1 /\ y.loopRunning /\ y.turnInFlight
        /\ y.state = "running" /\ y.userClosing = rt[r].userClosing
        /\ y.interruptInFlight = rt[r].interruptInFlight
    BY <1>2, <1>y DEF Started, RtType
  <2> QED
    BY <1>2, <2>1
<1>6. rt'[r] = y /\ \A q \in Runtime \ {r} : rt'[q] = rt[q]
  BY <1>1, <1>5 DEF IInv, Good, RuntimeTypes
<1>7. loop'[new].native = "starting" /\ \A l \in Loop \ {new} : loop'[l] = loop[l]
  BY <1>4, <1>5 DEF IInv, Good, RuntimeTypes, FreshLoop
<1>8. ASSUME NEW l \in Loop \ {new}, Alive(l)' PROVE rt'[l[1]].userClosing /\ ~Busy(l)'
  <2>1. Alive(l) /\ ~Busy(l)'
    BY <1>1, <1>7, <1>8 DEF Alive, Busy
  <2>2. rt[l[1]].userClosing
    BY <1>1, <2>1, NoneLives
  <2> QED
    BY <1>2, <1>6, <2>1, <2>2, LoopIn
<1>9. new[1] = current /\ new[2] = rt'[r].loopEpoch
  BY <1>3, <1>6
<1> HIDE DEF new
<1>10. Living'
  BY <1>3, <1>6, <1>7, <1>8, <1>9 DEF Living, Latest
<1>11. Laboring'
  <2> SUFFICES ASSUME NEW l \in Loop, Busy(l)'
               PROVE  /\ l[1] = current' /\ rt'[l[1]].turnInFlight
                      /\ ~rt'[l[1]].interruptInFlight /\ Sends' = {}
                      /\ flush' # <<"steer", "callback">>
    BY DEF Laboring
  <2>1. l = new
    BY <1>8 DEF Busy, Alive
  <2> QED
    BY <1>1, <1>3, <1>6, <1>9, <2>1
<1>12. Listening'
  <2>1. <<r, rt'[r].loopEpoch>> = new /\ rt'[r].loopEpoch # 0
    BY <1>2, <1>3, <1>6, BoundAssumption DEF BoundAssumption, new, RtType
  <2>2. \A l \in Loop : l[1] # r => loop'[l] = loop[l]
    BY <1>7, <1>9
  <2> QED
    BY <1>1, <1>6, <1>7, <2>1, <2>2, ListeningFrom
<1>13. Rested'
  BY <1>7 DEF IInv, Control, Rested
<1>14. Untouched'
  BY <1>1, <1>6, MadeIn DEF IInv, Good, Control, Untouched, Runtime
<1>15. Asked'
  <2>1. \A w \in waiting : rt[w[2]].interruptInFlight
    BY DEF IInv, Control, Asked
  <2>2. \A w \in waiting : w[2] \in Runtime
    BY WaitedFor
  <2> QED
    BY <1>1, <1>6, <2>1, <2>2 DEF Asked
<1>16. CurrentOpen'
  BY <1>3, <1>6 DEF CurrentOpen
<1> QED
  BY <1>1, <1>10, <1>11, <1>12, <1>13, <1>14, <1>15, <1>16, ControlIs DEF Standing


\* Objects change while no loop does: the current one goes on, or retires the
\* loop it has.
LEMMA SameLoops ==
    ASSUME IInv, UNCHANGED <<loop, current, made>>, Asked',
           \A q \in Runtime : /\ rt'[q].loopEpoch = rt[q].loopEpoch
                              /\ rt'[q].userClosing = rt[q].userClosing
                              /\ rt'[q].kernel = rt[q].kernel
                              /\ rt'[q].loopRunning => rt[q].loopRunning,
           current # 0 =>
              /\ rt[current].state # "closed" => rt'[current].state # "closed"
              /\ \/ /\ channel' = channel
                    /\ rt'[current].loopRunning = rt[current].loopRunning
                    /\ rt'[current].retiring = rt[current].retiring
                    /\ rt[current].stopPending => rt'[current].stopPending
                 \/ rt'[current].stopPending /\ rt'[current].retiring = rt[current].loopEpoch
    PROVE  Standing'
<1>1. Untouched' /\ Rested'
  BY DEF IInv, Control, Untouched, Rested
<1>2. CurrentOpen'
  BY MadeIn DEF IInv, Good, Control, CurrentOpen
<1>3. Listening'
  BY DEF IInv, Control, Listening, Alive
<1>4. Living'
  <2> SUFFICES ASSUME NEW l \in Loop, Alive(l)', ~rt'[l[1]].userClosing
               PROVE  /\ l[1] = current' /\ l[2] = rt'[l[1]].loopEpoch /\ rt'[l[1]].state # "closed"
                      /\ \/ rt'[l[1]].stopPending /\ rt'[l[1]].retiring = l[2]
                         \/ rt'[l[1]].loopRunning /\ (loop'[l].native = "starting" \/ Filed(l)')
    BY DEF Living, Latest
  <2>1. Alive(l) /\ ~rt[l[1]].userClosing /\ l[1] \in Runtime
    BY LoopIn DEF Alive
  <2>2. /\ current \in Runtime /\ l[1] = current /\ l[2] = rt[current].loopEpoch
        /\ rt[current].state # "closed"
    BY <2>1, LivesInCurrent
  <2>3. current # 0
    BY <2>2 DEF Runtime
  <2>4. \/ rt[current].stopPending /\ rt[current].retiring = l[2]
        \/ rt[current].loopRunning /\ (loop[l].native = "starting" \/ Filed(l))
    BY <2>1, <2>2 DEF IInv, Control, Living
  <2>5. CASE rt'[current].stopPending /\ rt'[current].retiring = rt[current].loopEpoch
    BY <2>2, <2>3, <2>5
  <2>6. CASE ~(rt'[current].stopPending /\ rt'[current].retiring = rt[current].loopEpoch)
    <3>1. Filed(l) => Filed(l)'
      BY <2>2, <2>3, <2>6 DEF Filed
    <3> QED
      BY <2>2, <2>3, <2>4, <2>6, <3>1
  <2> QED
    BY <2>5, <2>6
<1> QED
  BY <1>1, <1>2, <1>3, <1>4 DEF Standing

\* The turn begins in the process that is there.
LEMMA EnqueueControl ==
    ASSUME IInv, NEW s \in Sends, Enqueue(current), Accept(s), flush = <<>>,
           UNCHANGED <<current, made, waiting, flush>>,
           ~rt[current].stopPending, ~rt[current].interruptInFlight, HasLiveProcess(current)
    PROVE  Control'
<1>1. /\ Sends' = {} /\ Solo' /\ Aimed' /\ current \in Runtime /\ current # 0 /\ current <= made
      /\ ~rt[current].userClosing /\ \A l \in Loop : ~Busy(l)
  BY Accepted, OnItsWay
<1>0. rt[current].loopRunning /\ rt[current].loopEpoch # 0 /\ Alive(<<current, rt[current].loopEpoch>>)
  BY <1>1 DEF HasLiveProcess, IInv, Control, Listening
<1> PICK it \in Loop : it = <<current, rt[current].loopEpoch>>
  BY <1>1, <1>0, FieldsIn, BoundAssumption DEF BoundAssumption, IInv, Good, Loop, Epoch
<1>2. rt[current].loopRunning /\ rt[current].loopEpoch # 0 /\ Alive(it)
  BY <1>0
<1>3. it \in Loop /\ it[1] = current /\ it[2] = rt[current].loopEpoch
  OBVIOUS
<1>4. /\ rt'[current].turnInFlight /\ \A q \in Runtime \ {current} : rt'[q] = rt[q]
      /\ rt'[current].kernel = rt[current].kernel /\ rt'[current].state = rt[current].state
      /\ rt'[current].loopEpoch = rt[current].loopEpoch
      /\ rt'[current].loopRunning = rt[current].loopRunning
      /\ rt'[current].userClosing = rt[current].userClosing
      /\ rt'[current].interruptInFlight = rt[current].interruptInFlight
  <2>1. rt' = [rt EXCEPT ![current] = [rt[current] EXCEPT !.turnInFlight = TRUE,
                                                          !.userStopping = FALSE]]
    BY <1>1 DEF Enqueue, IInv, Good, RuntimeTypes
  <2>2. rt[current] \in RtType
    BY <1>1, FieldsIn DEF IInv, Good
  <2> QED
    BY <1>1, <2>1, <2>2 DEF IInv, Good, RuntimeTypes, RtType
<1>5. loop'[it].native = "working" /\ \A l \in Loop \ {it} : loop'[l] = loop[l]
  BY <1>3 DEF Enqueue, IInv, Good, RuntimeTypes, LoopType
<1>6. Filed(it) /\ Filed(it)' /\ rt[current].state # "closed"
  <2>1. ~rt[it[1]].userClosing /\ loop[it].native # "starting" /\ ~rt[it[1]].stopPending
    BY <1>1, <1>3 DEF Busy
  <2>2. Filed(it) /\ rt[current].state # "closed"
    BY <1>2, <1>3, <2>1 DEF IInv, Control, Living
  <2> QED
    BY <1>3, <1>4, <2>2 DEF Filed, Enqueue
<1>7. Living'
  <2> SUFFICES ASSUME NEW l \in Loop, Alive(l)', ~rt'[l[1]].userClosing
               PROVE  /\ l[1] = current' /\ l[2] = rt'[l[1]].loopEpoch /\ rt'[l[1]].state # "closed"
                      /\ rt'[l[1]].loopRunning /\ Filed(l)'
    BY DEF Living, Latest
  <2>1. l = it
    <3>1. CASE l # it
      <4>1. Alive(l) /\ ~rt[l[1]].userClosing
        BY <1>1, <1>4, <1>5, <3>1, LoopIn DEF Alive
      <4> QED
        BY <4>1, LivesInCurrent, LoopIn
    <3> QED
      BY <3>1
  <2> QED
    BY <1>2, <1>3, <1>4, <1>6, <2>1
<1>8. Laboring'
  <2> SUFFICES ASSUME NEW l \in Loop, Busy(l)'
               PROVE  /\ l[1] = current' /\ rt'[l[1]].turnInFlight
                      /\ ~rt'[l[1]].interruptInFlight /\ Sends' = {}
                      /\ flush' # <<"steer", "callback">>
    BY DEF Laboring
  <2>1. l = it
    BY <1>1, <1>5 DEF Busy
  <2> QED
    BY <1>1, <1>3, <1>4, <2>1
<1>9. Listening'
  <2>1. \A l \in Loop : l[1] # current => loop'[l] = loop[l]
    BY <1>3, <1>5
  <2>2. <<current, rt'[current].loopEpoch>> = it
    BY <1>4
  <2> QED
    BY <1>1, <1>2, <1>4, <1>5, <2>1, <2>2, ListeningFrom
<1>10. Rested'
  BY <1>5 DEF IInv, Control, Rested
<1>11. Untouched'
  BY <1>1, <1>4, MadeIn DEF IInv, Good, Control, Untouched, Runtime
<1>12. Asked' /\ CurrentOpen'
  BY <1>1, <1>4, WaitedFor DEF Asked, CurrentOpen
<1> QED
  BY <1>1, <1>7, <1>8, <1>9, <1>10, <1>11, <1>12, ControlIs DEF Standing


\* The process of the current object is retired.
LEMMA RetireControl ==
    ASSUME IInv, NEW s \in Sends, HasLiveProcess(current), UNCHANGED <<loop, current, made, waiting>>,
           rt' = [rt EXCEPT ![current] = Retired(current, @)], Await(s, "retiring"),
           ~rt[current].stopPending, ~rt[current].interruptInFlight
    PROVE  Control'
<1>1. current \in Runtime /\ current # 0 /\ \A l \in Loop : ~Busy(l)
  BY OnItsWay
<1>2. rt[current] \in RtType /\ rt'[current] = Retired(current, rt[current])
      /\ \A q \in Runtime \ {current} : rt'[q] = rt[q]
  BY <1>1, FieldsIn DEF IInv, Good, RuntimeTypes
<1>3. /\ rt'[current].loopEpoch = rt[current].loopEpoch
      /\ rt'[current].userClosing = rt[current].userClosing
      /\ rt'[current].kernel = rt[current].kernel
      /\ rt'[current].interruptInFlight = rt[current].interruptInFlight
      /\ rt'[current].stopPending /\ rt'[current].retiring = rt[current].loopEpoch
      /\ ~rt'[current].loopRunning /\ ~rt'[current].turnInFlight /\ rt'[current].state = "idle"
  BY <1>2, RetiredIs
<1>4. Asked'
  BY <1>2, <1>3, WaitedFor DEF Asked
<1>5. Standing'
  BY <1>1, <1>2, <1>3, <1>4, SameLoops
<1>6. Solo' /\ Aimed'
  <2> DEFINE m == [send[s] EXCEPT !.pc = "retiring"]
  <2>1. send' = [send EXCEPT ![s] = m]
    BY OnItsWay DEF Await, IInv, Good, ServiceTypes
  <2>2. m.pc = "retiring" /\ m.rt = current
    BY OnItsWay DEF IInv, Good, ServiceTypes, Message
  <2>3. pending' = {} /\ \A t \in Sends : t = s
    BY OnItsWay DEF Await
  <2> HIDE DEF m
  <2> QED
    BY <1>1, <1>3, <2>1, <2>2, <2>3, OnItsWay, UnderWay
<1> QED
  BY <1>1, <1>5, <1>6, Workless, ControlIs

\* Whether the process refuses the message or has a turn in flight.
LEMMA RefusedByProcess ==
    ASSUME IInv, NEW s \in Sends, Refuse(s), UNCHANGED <<loop, channel, current, made, waiting>>,
           \/ rt' = [rt EXCEPT ![current].userStopping = FALSE]
           \/ rt' = [rt EXCEPT ![current].turnInFlight = TRUE, ![current].userStopping = FALSE],
           ~rt[current].stopPending
    PROVE  Control'
<1>1. /\ current \in Runtime /\ current # 0 /\ \A l \in Loop : ~Busy(l)
      /\ Solo' /\ Aimed'
  BY OnItsWay, Refused
<1>2. rt[current] \in RtType
  BY <1>1, FieldsIn DEF IInv, Good
<1>3. \A q \in Runtime : /\ rt'[q].loopEpoch = rt[q].loopEpoch
                         /\ rt'[q].userClosing = rt[q].userClosing
                         /\ rt'[q].kernel = rt[q].kernel /\ rt'[q].state = rt[q].state
                         /\ rt'[q].loopRunning = rt[q].loopRunning
                         /\ rt'[q].retiring = rt[q].retiring
                         /\ rt'[q].stopPending = rt[q].stopPending
                         /\ rt'[q].interruptInFlight = rt[q].interruptInFlight
  BY <1>1, <1>2 DEF IInv, Good, RuntimeTypes, RtType
<1>4. Asked'
  BY <1>3, WaitedFor DEF Asked
<1>5. Standing'
  BY <1>1, <1>3, <1>4, SameLoops
<1> QED
  BY <1>1, <1>5, Workless, ControlIs

\* The part of sendMessage after all the waiting.
LEMMA StartControl ==
    ASSUME IInv, NEW s \in Sends, Start(s), flush = <<>>,
           UNCHANGED <<current, made, waiting, flush>>,
           ~rt[current].stopPending, ~rt[current].interruptInFlight
    PROVE  Control'
<1>1. send[s].rt = current
  BY OnItsWay
<1>2. CASE Refuse(s) /\ UNCHANGED runtimeVars
  BY <1>2, StillControl
<1>3. CASE ~HasLiveProcess(current) /\ Spawn(s)
  BY <1>3, SpawnControl
<1>4. CASE Refuse(s) /\ UNCHANGED <<loop, channel>>
           /\ rt' = [rt EXCEPT ![current].userStopping = FALSE]
  BY <1>4, RefusedByProcess
<1>5. CASE HasLiveProcess(current) /\ rt' = [rt EXCEPT ![current] = Retired(current, @)]
           /\ UNCHANGED loop /\ Await(s, "retiring")
  BY <1>5, RetireControl
<1>6. CASE HasLiveProcess(current) /\ Enqueue(current) /\ Accept(s)
  BY <1>6, EnqueueControl
<1>7. CASE EnqueueFails(current) /\ Refuse(s)
  BY <1>7, RefusedByProcess DEF EnqueueFails
<1> QED
  BY <1>1, <1>2, <1>3, <1>4, <1>5, <1>6, <1>7 DEF Start

LEMMA UnlessStoppingControl ==
    ASSUME IInv, NEW s \in Sends, UnlessStopping(s), flush = <<>>,
           UNCHANGED <<current, made, waiting, flush>>, ~rt[current].interruptInFlight
    PROVE  Control'
<1>1. send[s].rt = current
  BY OnItsWay
<1>2. CASE rt[current].stopPending
  BY <1>1, <1>2, StillControl DEF UnlessStopping
<1>3. CASE ~rt[current].stopPending
  BY <1>1, <1>3, StartControl DEF UnlessStopping
<1> QED
  BY <1>2, <1>3

LEMMA SendStepControl ==
    ASSUME IInv, NEW s \in Sender, SendStep(s), flush = <<>> PROVE Control'
<1> USE DEF Sending
<1>1. s \in Sends
  BY DEF SendStep, PreviousSettled, SendMessage, InterruptAwaited, StopSettled, SettleTimesOut, Sends
<1>2. send[s].rt = current /\ Sends = {s} /\ pending = {}
  BY <1>1, OnItsWay
<1>3. CASE PreviousSettled(s)
  <2>1. Prepare(s) /\ pending' = {} /\ UNCHANGED <<loop, channel, waiting>> /\ ~rt[current].stopPending
    BY <1>2, <1>3 DEF PreviousSettled
  <2> QED
    BY <1>1, <1>2, <2>1, OnItsWay, PrepareControl
<1>4. CASE SendMessage(s)
  BY <1>1, <1>2, <1>4, StillControl, UnlessStoppingControl DEF SendMessage
<1>5. CASE InterruptAwaited(s)
  BY <1>1, <1>2, <1>5, UnlessStoppingControl DEF InterruptAwaited
<1>6. CASE StopSettled(s)
  <2>1. ~rt[current].stopPending /\ ~rt[current].interruptInFlight
        /\ (send[s].pc = "retiring" => ~HasLiveProcess(current))
    BY <1>1, <1>2, <1>6 DEF StopSettled, IInv, Control, Aimed, HasLiveProcess
  <2> QED
    BY <1>1, <1>6, <2>1, StillControl, SpawnControl, StartControl DEF StopSettled
<1>7. CASE SettleTimesOut(s)
  BY <1>1, <1>7, StillControl DEF SettleTimesOut
<1> QED
  BY <1>3, <1>4, <1>5, <1>6, <1>7 DEF SendStep


-----------------------------------------------------------------------------
(* Stops and changes of the mode. *)

\* A click finds no message on its way.
LEMMA InterruptControl ==
    ASSUME IInv, ~Overlap, NEW who, Interrupt(who), pending' \subseteq pending
    PROVE  Control'
<1>1. Sends = {} /\ Sends' = {} /\ current # 0 /\ current \in Runtime
  BY MadeIn DEF Interrupt, Sends, IInv, Good
<1>2. Solo' /\ Aimed'
  BY <1>1 DEF IInv, Control, Solo, Aimed
<1>3. rt[current] \in RtType /\ rt'[current] = Interrupted(rt[current])
      /\ \A q \in Runtime \ {current} : rt'[q] = rt[q]
  BY <1>1, FieldsIn DEF Interrupt, IInv, Good, RuntimeTypes
<1>4. /\ rt'[current].interruptInFlight
      /\ rt[current].interruptInFlight => rt'[current] = rt[current]
      /\ ~rt[current].interruptInFlight =>
            rt'[current].stopPending = (rt[current].stopPending \/ rt[current].turnInFlight)
      /\ rt'[current].kernel = rt[current].kernel /\ rt'[current].state = rt[current].state
      /\ rt'[current].turnInFlight = rt[current].turnInFlight
      /\ rt'[current].loopRunning = rt[current].loopRunning
      /\ rt'[current].loopEpoch = rt[current].loopEpoch
      /\ rt'[current].retiring = rt[current].retiring
      /\ rt'[current].userClosing = rt[current].userClosing
  BY <1>3, InterruptedIs
<1>5. Asked'
  <2> SUFFICES ASSUME NEW w \in waiting' PROVE rt'[w[2]].interruptInFlight
    BY DEF Asked
  <2>1. CASE w \in waiting
    BY <1>3, <1>4, <2>1, WaitedFor
  <2>2. CASE w = <<who, current>>
    BY <1>4, <2>2
  <2> QED
    BY <2>1, <2>2 DEF Interrupt
<1>6. Standing'
  BY <1>1, <1>3, <1>4, <1>5, SameLoops DEF Interrupt
<1>7. Laboring'
  <2> SUFFICES ASSUME NEW l \in Loop, Busy(l)
               PROVE  l[1] = current /\ rt'[current].stopPending
    BY DEF Laboring, Busy, Interrupt
  <2>1. l[1] = current /\ (rt[current].turnInFlight \/ rt[current].stopPending)
        /\ (rt[current].interruptInFlight => rt[current].stopPending)
    BY DEF IInv, Control, Laboring
  <2> QED
    BY <1>4, <2>1
<1> QED
  BY <1>2, <1>6, <1>7, ControlIs

\* The adapter has taken the request; the current object may retire its process.
LEMMA InterruptReturnsControl ==
    ASSUME IInv, NEW r \in Runtime, InterruptReturns(r), flush = <<>>
    PROVE  Control'
<1> DEFINE taken == [rt EXCEPT ![r] = InterruptTaken(@)]
           retires == <<"mode", r>> \in waiting /\ current # 0 /\ HasLiveProcess(current)
<1>0. UNCHANGED <<loop, current, made, pending, send, flush>> /\ Sends' = Sends
      /\ waiting' = {w \in waiting : w[2] # r} /\ rt[r].interruptInFlight
  BY WaitedFor DEF InterruptReturns, Sends
<1>1. \A q \in Runtime : rt[q] \in RtType
  BY FieldsIn DEF IInv, Good
<1>2. \A q \in Runtime :
        /\ taken[q] \in RtType /\ taken[q].kernel = rt[q].kernel /\ taken[q].state = rt[q].state
        /\ taken[q].loopRunning = rt[q].loopRunning /\ taken[q].loopEpoch = rt[q].loopEpoch
        /\ taken[q].retiring = rt[q].retiring /\ taken[q].userClosing = rt[q].userClosing
        /\ taken[q].stopPending = rt[q].stopPending
        /\ q # r => taken[q] = rt[q]
        /\ taken[q].interruptInFlight => rt[q].interruptInFlight
        /\ taken[q].turnInFlight => rt[q].turnInFlight
  <2> SUFFICES ASSUME NEW q \in Runtime
               PROVE  /\ taken[q] \in RtType /\ taken[q].kernel = rt[q].kernel
                      /\ taken[q].state = rt[q].state
                      /\ taken[q].loopRunning = rt[q].loopRunning
                      /\ taken[q].loopEpoch = rt[q].loopEpoch
                      /\ taken[q].retiring = rt[q].retiring
                      /\ taken[q].userClosing = rt[q].userClosing
                      /\ taken[q].stopPending = rt[q].stopPending
                      /\ q # r => taken[q] = rt[q]
                      /\ taken[q].interruptInFlight => rt[q].interruptInFlight
                      /\ taken[q].turnInFlight => rt[q].turnInFlight
    OBVIOUS
  <2>1. CASE q = r
    <3>1. taken[q] = InterruptTaken(rt[q])
      BY <2>1 DEF IInv, Good, RuntimeTypes
    <3> HIDE DEF taken
    <3> QED
      BY <1>1, <2>1, <3>1, InterruptTakenIs
  <2>2. CASE q # r
    BY <1>1, <2>2 DEF IInv, Good, RuntimeTypes
  <2> QED
    BY <2>1, <2>2
<1>3. \A q \in Runtime : q # r /\ q # current => rt'[q] = rt[q]
  BY <1>1 DEF InterruptReturns, IInv, Good, RuntimeTypes
<1>4. taken \in [Runtime -> RtType]
  BY <1>2 DEF IInv, Good, RuntimeTypes
<1>t. taken = [rt EXCEPT ![r] = InterruptTaken(@)]
  OBVIOUS
<1>5. rt' = IF <<"mode", r>> \in waiting /\ current # 0
            THEN [taken EXCEPT ![current] = Retired(current, @)] ELSE taken
  BY DEF InterruptReturns
<1> HIDE DEF taken
<1>6. \A q \in Runtime :
        /\ rt'[q].kernel = rt[q].kernel /\ rt'[q].loopEpoch = rt[q].loopEpoch
        /\ rt'[q].userClosing = rt[q].userClosing
        /\ rt'[q].loopRunning => rt[q].loopRunning
        /\ q # r => rt'[q].interruptInFlight = rt[q].interruptInFlight
        /\ rt'[q].interruptInFlight => rt[q].interruptInFlight
        /\ rt'[q].turnInFlight => rt[q].turnInFlight
        /\ q # r /\ ~(q = current /\ retires) => rt'[q].turnInFlight = rt[q].turnInFlight
        /\ rt[q].stopPending => rt'[q].stopPending
        /\ rt[q].state # "closed" => rt'[q].state # "closed"
        /\ ~(q = current /\ retires) => /\ rt'[q].loopRunning = rt[q].loopRunning
                                        /\ rt'[q].retiring = rt[q].retiring
        /\ q = current /\ retires => rt'[q].stopPending /\ rt'[q].retiring = rt[q].loopEpoch
  <2> SUFFICES ASSUME NEW q \in Runtime
               PROVE
        /\ rt'[q].kernel = rt[q].kernel /\ rt'[q].loopEpoch = rt[q].loopEpoch
        /\ rt'[q].userClosing = rt[q].userClosing
        /\ rt'[q].loopRunning => rt[q].loopRunning
        /\ q # r => rt'[q].interruptInFlight = rt[q].interruptInFlight
        /\ rt'[q].interruptInFlight => rt[q].interruptInFlight
        /\ rt'[q].turnInFlight => rt[q].turnInFlight
        /\ q # r /\ ~(q = current /\ retires) => rt'[q].turnInFlight = rt[q].turnInFlight
        /\ rt[q].stopPending => rt'[q].stopPending
        /\ rt[q].state # "closed" => rt'[q].state # "closed"
        /\ ~(q = current /\ retires) => /\ rt'[q].loopRunning = rt[q].loopRunning
                                        /\ rt'[q].retiring = rt[q].retiring
        /\ q = current /\ retires => rt'[q].stopPending /\ rt'[q].retiring = rt[q].loopEpoch
    OBVIOUS
  <2>1. CASE <<"mode", r>> \in waiting /\ current # 0 /\ q = current
    <3>1. rt'[q] = Retired(current, taken[q])
      BY <1>4, <1>5, <2>1
    <3>2. /\ rt'[q].kernel = taken[q].kernel /\ rt'[q].loopEpoch = taken[q].loopEpoch
          /\ rt'[q].userClosing = taken[q].userClosing
          /\ rt'[q].interruptInFlight = taken[q].interruptInFlight
          /\ HasLiveProcess(current) => /\ rt'[q].stopPending /\ rt'[q].retiring = taken[q].loopEpoch
                                        /\ ~rt'[q].loopRunning /\ ~rt'[q].turnInFlight
                                        /\ rt'[q].state = "idle"
          /\ ~HasLiveProcess(current) => /\ rt'[q].stopPending = taken[q].stopPending
                                         /\ rt'[q].retiring = taken[q].retiring
                                         /\ rt'[q].state = taken[q].state
                                         /\ rt'[q].loopRunning = taken[q].loopRunning
                                         /\ rt'[q].turnInFlight = taken[q].turnInFlight
      BY <1>2, <3>1, RetiredIs
    <3>3. taken[q].turnInFlight => rt[q].turnInFlight
      BY <1>2
    <3> QED
      BY <1>2, <2>1, <3>2, <3>3
  <2>2. CASE ~(<<"mode", r>> \in waiting /\ current # 0 /\ q = current)
    <3>1. rt'[q] = taken[q]
      BY <1>4, <1>5, <2>2
    <3> QED
      BY <1>2, <2>2, <3>1
  <2> QED
    BY <2>1, <2>2
<1>7. ~retires => channel' = channel
  BY DEF InterruptReturns, RetiredChannel
<1> HIDE DEF retires
<1>8. Asked'
  BY <1>0, <1>6, WaitedFor DEF Asked
<1>9. Standing'
  <2>1. current # 0 => current \in Runtime
    BY MadeIn DEF IInv, Good
  <2> QED
    BY <1>0, <1>6, <1>7, <1>8, <2>1, SameLoops
<1>10. Laboring'
  <2> SUFFICES ASSUME NEW l \in Loop, Busy(l)
               PROVE  /\ l[1] = current
                      /\ rt'[current].turnInFlight \/ rt'[current].stopPending
                      /\ rt'[current].interruptInFlight \/ Sends # {} => rt'[current].stopPending
    <3>1. flush' # <<"steer", "callback">>
      BY <1>0
    <3> QED
      BY <1>0, <3>1 DEF Laboring, Busy
  <2>1. /\ l[1] = current /\ current \in Runtime
        /\ rt[current].turnInFlight \/ rt[current].stopPending
        /\ rt[current].interruptInFlight \/ Sends # {} => rt[current].stopPending
    BY BusyInCurrent DEF IInv, Control, Laboring
  <2>2. CASE rt[current].stopPending
    BY <1>6, <2>1, <2>2
  <2>3. CASE ~rt[current].stopPending
    BY <1>0, <1>6, <2>1, <2>3
  <2> QED
    BY <2>2, <2>3
<1>11. Solo'
  BY <1>0 DEF IInv, Control, Solo
<1>12. Aimed'
  <2> SUFFICES ASSUME NEW t \in Sends
               PROVE  /\ send[t].rt = current /\ current # 0
                      /\ send[t].pc \in {"stopping", "retiring"} => ~rt'[current].interruptInFlight
                      /\ send[t].pc = "retiring" => ~rt'[current].turnInFlight /\ ~rt'[current].loopRunning
    BY <1>0 DEF Aimed
  <2>1. /\ send[t].rt = current /\ current # 0 /\ current \in Runtime
        /\ send[t].pc \in {"stopping", "retiring"} => ~rt[current].interruptInFlight
        /\ send[t].pc = "retiring" => ~rt[current].turnInFlight /\ ~rt[current].loopRunning
    BY OnItsWay DEF IInv, Control, Aimed
  <2> QED
    BY <1>6, <2>1
<1> QED
  BY <1>9, <1>10, <1>11, <1>12, ControlIs


-----------------------------------------------------------------------------
(* The switch of the kernel. *)

LEMMA QuiescentIsStill ==
    ASSUME IInv, Quiescent
    PROVE  Sends = {} /\ \A l \in Loop : ~Busy(l)
BY BusyInCurrent DEF Quiescent, QuiescentButSending, IInv, Control, Laboring, Runtime

LEMMA CommitSwitchControl ==
    ASSUME IInv, Quiescent, CommitSwitch, Switching PROVE Control'
<1>1. Sends = {} /\ (\A l \in Loop : ~Busy(l)) /\ UNCHANGED <<loop, made, waiting, send>>
      /\ current' = 0 /\ pending' = {}
  BY QuiescentIsStill DEF Switching, CommitSwitch
<1>2. Solo' /\ Aimed'
  <2>1. Sends' = {}
    BY <1>1 DEF Sends
  <2> QED
    BY <1>1, <2>1 DEF Solo, Aimed
<1>3. \A q \in Runtime : q # current => rt'[q] = rt[q]
  BY <1>1, MadeIn DEF CommitSwitch, Destroy, IInv, Good, RuntimeTypes
<1>4. current # 0 => /\ current \in Runtime /\ current <= made
                     /\ rt'[current].userClosing /\ ~rt'[current].loopRunning
                     /\ ~rt[current].interruptInFlight
  <2> SUFFICES ASSUME current # 0
               PROVE  /\ current \in Runtime /\ current <= made
                      /\ rt'[current].userClosing /\ ~rt'[current].loopRunning
                      /\ ~rt[current].interruptInFlight
    OBVIOUS
  <2>1. current \in Runtime /\ current <= made
    BY MadeIn DEF IInv, Good
  <2>2. rt'[current] = Destroyed(rt[current]) /\ rt[current] \in RtType
    BY <2>1, FieldsIn DEF CommitSwitch, Destroy, IInv, Good, RuntimeTypes
  <2> QED
    BY <2>1, <2>2, DestroyedIs DEF Quiescent, QuiescentButSending
<1>5. Untouched'
  BY <1>1, <1>3, <1>4, MadeIn DEF IInv, Good, Control, Untouched, Runtime
<1>6. Asked'
  BY <1>1, <1>3, <1>4, WaitedFor DEF Asked
<1>7. CurrentOpen' /\ Rested'
  BY <1>1 DEF IInv, Control, CurrentOpen, Rested
<1>8. Listening'
  BY <1>1, <1>3, <1>4 DEF IInv, Control, Listening, Alive, Runtime
<1>9. Living'
  <2> SUFFICES ASSUME NEW l \in Loop, Alive(l) PROVE rt'[l[1]].userClosing
    BY <1>1 DEF Living, Alive
  <2>1. CASE rt[l[1]].userClosing
    BY <1>3, <1>4, <2>1, LoopIn DEF Runtime
  <2>2. CASE ~rt[l[1]].userClosing
    BY <1>4, <2>2, LivesInCurrent DEF Runtime
  <2> QED
    BY <2>1, <2>2
<1> QED
  BY <1>1, <1>2, <1>5, <1>6, <1>7, <1>8, <1>9, Workless, ControlIs DEF Standing

\* A step that leaves objects, loops, messages and the flush alone.
LEMMA ControlFrame ==
    ASSUME IInv, UNCHANGED <<rt, loop, channel, current, made, waiting, send, pending, flush>>
    PROVE  Control'
<1>1. Sends' = Sends
  BY DEF Sends
<1>2. Solo' /\ Aimed'
  BY <1>1 DEF IInv, Control, Solo, Aimed
<1> QED
  BY <1>1, <1>2, StandingFrame, LaboringFrame, ControlIs

LEMMA SwitchControl ==
    ASSUME IInv, SwitchKernel \/ SwitchStep PROVE Control'
<1>1. CASE SwitchKernel
  BY <1>1, ControlFrame DEF SwitchKernel, runtimeVars
<1>2. CASE Quiescent /\ CommitSwitch /\ Switching
  BY <1>2, CommitSwitchControl
<1>3. CASE RejectSwitch /\ Switching
  BY <1>3, ControlFrame DEF RejectSwitch, Switching
<1>4. CASE Switching /\ UNCHANGED <<rt, channel, current, kernel, pending, handoff, attempt, reacted>>
  BY <1>4, ControlFrame DEF Switching
<1> QED
  BY <1>1, <1>2, <1>3, <1>4 DEF SwitchStep, CheckSwitch, RecheckSwitch, SwitchTimesOut

-----------------------------------------------------------------------------
(* The kernel. *)

\* What does not change while the kernel acts.
LEMMA ServingFrame ==
    ASSUME IInv, Serving
    PROVE  Sends' = Sends /\ Solo' /\ UNCHANGED <<current, made, waiting, send, pending>>
<1>1. Sends' = Sends /\ UNCHANGED <<current, made, waiting, send, pending>>
  BY DEF Serving, Sends
<1> QED
  BY <1>1 DEF IInv, Control, Solo

\* A loop of the current object begins its turn.
LEMMA OpensControl ==
    ASSUME IInv, NEW l \in Loop, KernelOpens(l) PROVE Control'
<1>1. /\ UNCHANGED <<rt, current, made, waiting, send, pending, flush>> /\ Sends' = Sends /\ Solo'
      /\ loop' = [loop EXCEPT ![l].native = "working"] /\ loop[l].native = "starting"
  BY ServingFrame DEF KernelOpens, Open
<1>2. /\ Busy(l) /\ current \in Runtime /\ l[1] = current /\ l[2] = rt[current].loopEpoch
      /\ ~rt[current].userClosing
  BY <1>1, BusyInCurrent DEF Busy
<1>3. loop'[l].native = "working" /\ \A m \in Loop \ {l} : loop'[m] = loop[m]
  BY <1>1 DEF IInv, Good, RuntimeTypes, LoopType
<1>4. Filed(l)'
  <2>1. rt[current].kernel \in Kernel
    BY <1>2, FieldsIn DEF IInv, Good
  <2>2. channel'[rt[current].kernel] = l
    BY <1>2, <2>1 DEF KernelOpens, Open, IInv, Good, RuntimeTypes
  <2> QED
    BY <1>1, <1>2, <2>2, LoopIn DEF Filed
<1>5. Living'
  <2> SUFFICES ASSUME NEW m \in Loop, Alive(m)', ~rt[m[1]].userClosing
               PROVE  /\ m[1] = current /\ m[2] = rt[m[1]].loopEpoch /\ rt[m[1]].state # "closed"
                      /\ \/ rt[m[1]].stopPending /\ rt[m[1]].retiring = m[2]
                         \/ rt[m[1]].loopRunning /\ Filed(m)'
    BY <1>1 DEF Living, Latest
  <2>1. m = l
    <3>1. Alive(m)
      BY <1>2, <1>3 DEF Alive, Busy
    <3> QED
      BY <1>2, <3>1, LivesInCurrent, LoopIn
  <2>2. Alive(l)
    BY <1>1 DEF Alive
  <2> QED
    BY <1>2, <1>4, <2>1, <2>2 DEF IInv, Control, Living, Latest
<1>6. Laboring'
  <2>1. \A m \in Loop : Busy(m)' => Busy(m)
    BY <1>2, <1>3 DEF Busy
  <2> QED
    BY <1>1, <2>1 DEF IInv, Control, Laboring
<1>7. Listening'
  <2>1. \A m \in Loop : m[1] # current => loop'[m] = loop[m]
    BY <1>2, <1>3
  <2>2. <<current, rt[current].loopEpoch>> = l /\ rt[current].loopEpoch # 0
    BY <1>2, LoopIn DEF Epoch
  <2> QED
    BY <1>1, <1>2, <1>3, <2>1, <2>2, ListeningFrom
<1>8. Rested' /\ Untouched' /\ Asked' /\ CurrentOpen'
  BY <1>1, <1>3 DEF IInv, Control, Rested, Untouched, Asked, CurrentOpen
<1>9. Aimed'
  BY <1>1 DEF IInv, Control, Aimed
<1> QED
  BY <1>1, <1>5, <1>6, <1>7, <1>8, <1>9, ControlIs DEF Standing

\* A loop of the current object that is the only one not switched away goes from
\* one state to another.
LEMMA OnlyLoopControl ==
    ASSUME IInv, NEW l \in Loop, Alive(l), l[1] = current, Serving,
           NEW y, rt' = [rt EXCEPT ![l[1]] = y],
           \A m \in Loop \ {l} : loop'[m] = loop[m],
           y.loopEpoch = rt[current].loopEpoch, ~y.userClosing,
           y.interruptInFlight = rt[current].interruptInFlight,
           y.turnInFlight => rt[current].turnInFlight,
           y.loopRunning => rt[current].loopRunning \/ rt[current].turnInFlight,
           loop'[l].native = "resting" => loop'[l].clean,
           y.loopRunning => loop'[l].native \in {"starting", "resting"},
           loop'[l].native \in {"starting", "resting", "over"},
           loop'[l].native # "over" =>
              /\ y.state # "closed"
              /\ \/ y.stopPending /\ y.retiring = l[2]
                 \/ y.loopRunning /\ (loop'[l].native = "starting" \/ Filed(l)'),
           loop'[l].native = "starting" =>
              /\ flush' = flush /\ y.turnInFlight
              /\ y.interruptInFlight \/ Sends # {} \/ flush = <<"steer", "callback">>
                 => y.stopPending
    PROVE  Control'
<1>1. Sends' = Sends /\ Solo' /\ UNCHANGED <<current, made, waiting, send, pending>>
  BY ServingFrame
<1>2. current \in Runtime /\ current # 0 /\ ~rt[current].userClosing
      /\ l[2] = rt[current].loopEpoch /\ l[2] # 0
  BY LoopIn, LivesInCurrent DEF IInv, Control, CurrentOpen, Runtime, Epoch
<1>3. rt'[current] = y /\ \A q \in Runtime \ {current} : rt'[q] = rt[q]
  BY <1>2 DEF IInv, Good, RuntimeTypes
<1>4. \A m \in Loop \ {l} : Alive(m) => rt[m[1]].userClosing /\ m[1] # current /\ ~Busy(m)
  <2> SUFFICES ASSUME NEW m \in Loop \ {l}, Alive(m)
               PROVE  rt[m[1]].userClosing /\ m[1] # current /\ ~Busy(m)
    OBVIOUS
  <2>1. rt[m[1]].userClosing
    BY <1>2, LivesInCurrent, LoopIn
  <2> QED
    BY <1>2, <2>1, BusyInCurrent
<1>5. Living'
  <2> SUFFICES ASSUME NEW m \in Loop, Alive(m)', ~rt'[m[1]].userClosing
               PROVE  /\ m[1] = current /\ m[2] = rt'[m[1]].loopEpoch /\ rt'[m[1]].state # "closed"
                      /\ \/ rt'[m[1]].stopPending /\ rt'[m[1]].retiring = m[2]
                         \/ rt'[m[1]].loopRunning /\ (loop'[m].native = "starting" \/ Filed(m)')
    BY <1>1 DEF Living, Latest
  <2>1. m = l
    BY <1>3, <1>4, LoopIn DEF Alive
  <2> QED
    BY <1>2, <1>3, <2>1 DEF Alive
<1>6. Laboring'
  <2> SUFFICES ASSUME NEW m \in Loop, Busy(m)'
               PROVE  /\ m[1] = current
                      /\ rt'[m[1]].turnInFlight
                      /\ rt'[m[1]].interruptInFlight \/ Sends # {} \/ flush' = <<"steer", "callback">>
                         => rt'[m[1]].stopPending
    BY <1>1 DEF Laboring
  <2>1. m = l
    BY <1>4 DEF Busy, Alive
  <2> QED
    BY <1>3, <2>1 DEF Busy
<1>7. Listening'
  <2>1. \A m \in Loop : m[1] # current => loop'[m] = loop[m]
    OBVIOUS
  <2>2. <<current, rt'[current].loopEpoch>> = l
    BY <1>2, <1>3, LoopIn
  <2> QED
    BY <1>2, <1>3, <2>1, <2>2, ListeningFrom
<1>8. Rested' /\ CurrentOpen'
  BY <1>1, <1>3 DEF IInv, Control, Rested, CurrentOpen
<1>9. Untouched'
  BY <1>1, <1>2, <1>3, MadeIn DEF IInv, Good, Control, Untouched, Runtime
<1>10. Asked'
  BY <1>1, <1>3, WaitedFor DEF Asked
<1>11. Aimed'
  <2> SUFFICES ASSUME NEW t \in Sends
               PROVE  /\ send[t].rt = current /\ current # 0
                      /\ send[t].pc \in {"stopping", "retiring"} => ~rt'[current].interruptInFlight
                      /\ send[t].pc = "retiring" => ~rt'[current].turnInFlight /\ ~rt'[current].loopRunning
    BY <1>1 DEF Aimed
  <2> QED
    BY <1>3 DEF IInv, Control, Aimed
<1> QED
  BY <1>1, <1>5, <1>6, <1>7, <1>8, <1>9, <1>10, <1>11, ControlIs DEF Standing


\* The turn has its result.
LEMMA EndsControl ==
    ASSUME IInv, NEW l \in Loop, NEW o, TurnEnds(l, o) PROVE Control'
<1>1. Busy(l) /\ Alive(l) /\ l[1] = current /\ Latest(l) /\ current \in Runtime
      /\ Working(l) /\ loop[l].native = "working"
  <2>1. Working(l) /\ loop[l].native = "working" /\ Busy(l)
    BY DEF TurnEnds, Result, Working, Busy
  <2> QED
    BY <2>1, BusyInCurrent DEF Latest
<1> DEFINE x == [rt[current] EXCEPT !.turnInFlight = FALSE]
           y == TurnSettled(x, l[2], "result")
<1>2. /\ rt' = [rt EXCEPT ![l[1]] = y] /\ channel' = channel
      /\ loop' = [loop EXCEPT ![l] = [native |-> "resting", clean |-> TRUE]]
  BY <1>1 DEF TurnEnds, Result
<1>3. rt[current] \in RtType
  BY <1>1, FieldsIn DEF IInv, Good
<1>4. /\ x \in RtType /\ ~x.turnInFlight /\ x.loopEpoch = rt[current].loopEpoch
      /\ x.userClosing = rt[current].userClosing /\ x.state = rt[current].state
      /\ x.interruptInFlight = rt[current].interruptInFlight
      /\ x.loopRunning = rt[current].loopRunning /\ x.retiring = rt[current].retiring
      /\ x.stopPending = rt[current].stopPending /\ x.kernel = rt[current].kernel
  BY <1>3 DEF RtType
<1>y. y = TurnSettled(x, l[2], "result")
  OBVIOUS
<1> HIDE DEF x, y
<1>5. /\ y.kernel = x.kernel /\ y.loopEpoch = x.loopEpoch /\ y.state = x.state
      /\ y.userClosing = x.userClosing /\ y.interruptInFlight = x.interruptInFlight
      /\ y.loopRunning = x.loopRunning /\ y.turnInFlight = x.turnInFlight
      /\ x.retiring = l[2] => y = x
  BY <1>4, <1>y, TurnSettledIs
<1>6. loop'[l].native = "resting" /\ loop'[l].clean /\ \A m \in Loop \ {l} : loop'[m] = loop[m]
  BY <1>2 DEF IInv, Good, RuntimeTypes
<1>7. /\ ~rt[current].userClosing /\ rt[current].state # "closed"
      /\ \/ rt[current].stopPending /\ rt[current].retiring = l[2]
         \/ rt[current].loopRunning /\ Filed(l)
  BY <1>1, BusyInCurrent DEF IInv, Control, Living
<1>8. Filed(l) => Filed(l)'
  <2>1. rt'[l[1]].kernel = rt[l[1]].kernel
    BY <1>1, <1>2, <1>4, <1>5 DEF IInv, Good, RuntimeTypes
  <2> QED
    BY <1>2, <2>1 DEF Filed
<1>9. Serving
  BY DEF TurnEnds
<1>10. (y.stopPending /\ y.retiring = l[2]) \/ (y.loopRunning /\ Filed(l)')
  <2>1. CASE rt[current].stopPending /\ rt[current].retiring = l[2]
    BY <1>4, <1>5, <2>1
  <2>2. CASE rt[current].loopRunning /\ Filed(l)
    BY <1>4, <1>5, <1>8, <2>2
  <2> QED
    BY <1>7, <2>1, <2>2
<1>11. /\ y.loopEpoch = rt[current].loopEpoch /\ ~y.userClosing
       /\ y.interruptInFlight = rt[current].interruptInFlight /\ ~y.turnInFlight
       /\ y.loopRunning = rt[current].loopRunning /\ y.state # "closed"
  BY <1>4, <1>5, <1>7
<1>12. rt' = [rt EXCEPT ![l[1]] = y]
  BY <1>2
<1> QED
  BY <1>1, <1>6, <1>9, <1>10, <1>11, <1>12, OnlyLoopControl

\* A loop gives up or ends.
LEMMA OverControl ==
    ASSUME IInv, NEW l \in Loop, Alive(l), l[1] = current, Serving,
           loop' = [loop EXCEPT ![l].native = "over"],
           NEW x \in RtType, NEW y, y = TurnSettled(x, l[2], "finally"),
           rt' = [rt EXCEPT ![l[1]] = y],
           x.loopEpoch = rt[current].loopEpoch, ~x.userClosing,
           x.interruptInFlight = rt[current].interruptInFlight,
           x.turnInFlight => rt[current].turnInFlight, ~x.loopRunning
    PROVE  Control'
<1>1. /\ y.loopEpoch = x.loopEpoch /\ y.userClosing = x.userClosing
      /\ y.interruptInFlight = x.interruptInFlight
      /\ y.loopRunning = x.loopRunning /\ y.turnInFlight = x.turnInFlight
  BY TurnSettledIs
<1>2. loop'[l].native = "over" /\ \A m \in Loop \ {l} : loop'[m] = loop[m]
  BY DEF IInv, Good, RuntimeTypes, LoopType
<1> QED
  BY <1>1, <1>2, OnlyLoopControl

LEMMA FailsControl ==
    ASSUME IInv, NEW l \in Loop, TurnFails(l) PROVE Control'
<1>1. Alive(l) /\ l[1] = current /\ Latest(l) /\ current \in Runtime /\ ~rt[current].userClosing
      /\ Serving /\ loop' = [loop EXCEPT ![l].native = "over"]
  <2>1. CASE Working(l)
    BY <2>1, BusyInCurrent DEF TurnFails, TooLong, GiveUp, Working, Busy, Latest, Crashed
  <2>2. CASE Crashed(l)
    BY <2>2, LivesInCurrent DEF TurnFails, TooLong, GiveUp, Crashed
  <2> QED
    BY <2>1, <2>2 DEF TurnFails, TooLong, GiveUp
<1>2. rt[current] \in RtType
  BY <1>1, FieldsIn DEF IInv, Good
<1>3. CASE TooLong(l)
  <2> DEFINE x == [rt[current] EXCEPT !.turnInFlight = FALSE, !.loopRunning = FALSE,
                                      !.state = "closed"]
             y == TurnSettled(x, l[2], "finally")
  <2>1. rt' = [rt EXCEPT ![l[1]] = y]
    BY <1>1, <1>3 DEF TooLong
  <2>2. /\ x \in RtType /\ x.loopEpoch = rt[current].loopEpoch /\ ~x.userClosing
        /\ x.interruptInFlight = rt[current].interruptInFlight
        /\ ~x.turnInFlight /\ ~x.loopRunning
    BY <1>1, <1>2 DEF RtType
  <2>3. y = TurnSettled(x, l[2], "finally")
    OBVIOUS
  <2> HIDE DEF x, y
  <2> QED
    BY <1>1, <2>1, <2>2, <2>3, OverControl
<1>4. CASE GiveUp(l)
  <2> DEFINE x == [rt[current] EXCEPT !.loopRunning = FALSE, !.state = "closed"]
             y == TurnSettled(x, l[2], "finally")
  <2>1. rt' = [rt EXCEPT ![l[1]] = y]
    BY <1>1, <1>4 DEF GiveUp
  <2>2. /\ x \in RtType /\ x.loopEpoch = rt[current].loopEpoch /\ ~x.userClosing
        /\ x.interruptInFlight = rt[current].interruptInFlight
        /\ x.turnInFlight = rt[current].turnInFlight /\ ~x.loopRunning
    BY <1>1, <1>2 DEF RtType
  <2>3. y = TurnSettled(x, l[2], "finally")
    OBVIOUS
  <2> HIDE DEF x, y
  <2> QED
    BY <1>1, <2>1, <2>2, <2>3, OverControl
<1> QED
  BY <1>3, <1>4 DEF TurnFails


LEMMA ProcessEndsControl ==
    ASSUME IInv, NEW l \in Loop, ProcessEnds(l) PROVE Control'
<1>1. /\ Alive(l) /\ Serving /\ loop' = [loop EXCEPT ![l].native = "over"] /\ Closed(l)
      /\ rt' = [rt EXCEPT ![l[1]] = IF ~Latest(l) THEN @
                                    ELSE TurnSettled(Ended(@), l[2], "finally")]
      /\ flush' = flush \/ (Latest(l) /\ l[1] = current)
  BY LoopEndsIs DEF ProcessEnds, IInv, Good
<1>2. /\ l[1] \in Runtime /\ rt[l[1]] \in RtType
      /\ rt'[l[1]] = IF ~Latest(l) THEN rt[l[1]]
                     ELSE TurnSettled(Ended(rt[l[1]]), l[2], "finally")
      /\ \A q \in Runtime \ {l[1]} : rt'[q] = rt[q]
  BY <1>1, LoopIn, FieldsIn DEF IInv, Good, RuntimeTypes
<1>3. loop'[l].native = "over" /\ \A m \in Loop \ {l} : loop'[m] = loop[m]
  BY <1>1 DEF IInv, Good, RuntimeTypes, LoopType
<1>4. CASE ~rt[l[1]].userClosing
  <2>1. l[1] = current /\ Latest(l)
    BY <1>1, <1>4, LivesInCurrent DEF Latest
  <2> DEFINE x == Ended(rt[l[1]])
             y == TurnSettled(x, l[2], "finally")
  <2>2. rt' = [rt EXCEPT ![l[1]] = y]
    BY <1>1, <2>1
  <2>3. y = TurnSettled(x, l[2], "finally")
    OBVIOUS
  <2>4. /\ x \in RtType /\ x.loopEpoch = rt[current].loopEpoch /\ ~x.userClosing
        /\ x.interruptInFlight = rt[current].interruptInFlight
        /\ x.turnInFlight = rt[current].turnInFlight /\ ~x.loopRunning
    BY <1>2, <1>4, <2>1, EndedIs
  <2>5. Alive(l) /\ Serving /\ loop' = [loop EXCEPT ![l].native = "over"]
    BY <1>1
  <2> HIDE DEF x, y
  <2> QED
    BY <2>1, <2>2, <2>3, <2>4, <2>5, OverControl
<1>5. CASE rt[l[1]].userClosing
  <2>1. l[1] # current /\ flush' = flush
    BY <1>1, <1>2, <1>5 DEF IInv, Control, CurrentOpen, Runtime
  <2>2. /\ rt'[l[1]].kernel = rt[l[1]].kernel /\ rt'[l[1]].loopEpoch = rt[l[1]].loopEpoch
        /\ rt'[l[1]].userClosing
        /\ rt'[l[1]].interruptInFlight = rt[l[1]].interruptInFlight
        /\ rt'[l[1]].loopRunning => rt[l[1]].loopRunning /\ ~Latest(l)
    <3>1. CASE ~Latest(l)
      BY <1>2, <1>5, <3>1
    <3>2. CASE Latest(l)
      <4> DEFINE x == Ended(rt[l[1]])
      <4>1. /\ x \in RtType /\ ~x.loopRunning /\ x.kernel = rt[l[1]].kernel
            /\ x.loopEpoch = rt[l[1]].loopEpoch /\ x.userClosing = rt[l[1]].userClosing
            /\ x.interruptInFlight = rt[l[1]].interruptInFlight
        BY <1>2, EndedIs
      <4>2. rt'[l[1]] = TurnSettled(x, l[2], "finally")
        BY <1>2, <3>2
      <4> HIDE DEF x
      <4>3. /\ rt'[l[1]].kernel = x.kernel /\ rt'[l[1]].loopEpoch = x.loopEpoch
            /\ rt'[l[1]].userClosing = x.userClosing
            /\ rt'[l[1]].interruptInFlight = x.interruptInFlight
            /\ rt'[l[1]].loopRunning = x.loopRunning
        BY <4>1, <4>2, TurnSettledIs
      <4> QED
        BY <1>5, <4>1, <4>3
    <3> QED
      BY <3>1, <3>2
  <2>3. /\ Sends' = Sends /\ Solo' /\ UNCHANGED <<current, made, waiting, send, pending>>
    BY <1>1, ServingFrame
  <2>4. current # 0 => current \in Runtime /\ rt'[current] = rt[current]
    BY <1>2, <2>1, MadeIn DEF IInv, Good
  <2>5. Living'
    <3> SUFFICES ASSUME NEW m \in Loop, Alive(m)', ~rt'[m[1]].userClosing
                 PROVE  /\ m[1] = current /\ m[2] = rt'[m[1]].loopEpoch /\ rt'[m[1]].state # "closed"
                        /\ \/ rt'[m[1]].stopPending /\ rt'[m[1]].retiring = m[2]
                           \/ rt'[m[1]].loopRunning /\ (loop'[m].native = "starting" \/ Filed(m)')
      BY <2>3 DEF Living, Latest
    <3>1. Alive(m) /\ m # l /\ loop'[m] = loop[m] /\ m[1] # l[1] /\ rt'[m[1]] = rt[m[1]]
      BY <1>2, <1>3, <2>2, LoopIn DEF Alive
    <3>2. Filed(m) => Filed(m)'
      <4>1. rt[m[1]].kernel \in Kernel
        BY LoopIn, FieldsIn DEF IInv, Good
      <4> QED
        BY <1>1, <3>1, <4>1 DEF Filed, Closed, IInv, Good, RuntimeTypes
    <3> QED
      BY <3>1, <3>2 DEF IInv, Control, Living, Latest
  <2>6. Laboring'
    <3>1. \A m \in Loop : Busy(m)' => Busy(m)
      BY <1>3 DEF Busy
    <3> QED
      BY <2>1, <2>3, <2>4, <3>1, BusyInCurrent DEF IInv, Control, Laboring, Runtime
  <2>7. Listening'
    <3>1. \A q \in Runtime \ {l[1]} : rt'[q].loopRunning = rt[q].loopRunning
                                      /\ rt'[q].loopEpoch = rt[q].loopEpoch
      BY <1>2
    <3>2. \A m \in Loop : m[1] # l[1] => loop'[m] = loop[m]
      BY <1>3
    <3>3. ASSUME rt'[l[1]].loopRunning
          PROVE  /\ rt'[l[1]].loopEpoch # 0
                 /\ loop'[<<l[1], rt'[l[1]].loopEpoch>>].native \in {"starting", "working", "resting"}
      <4>1. rt[l[1]].loopRunning /\ ~Latest(l)
        BY <2>2, <3>3
      <4>2. rt[l[1]].loopEpoch # 0 /\ Alive(<<l[1], rt[l[1]].loopEpoch>>)
        BY <1>2, <4>1 DEF IInv, Control, Listening
      <4>3. <<l[1], rt[l[1]].loopEpoch>> \in Loop
        BY <1>2, <4>2, FieldsIn, BoundAssumption DEF BoundAssumption, IInv, Good, Loop, Epoch
      <4>4. <<l[1], rt[l[1]].loopEpoch>> # l
        BY <4>1, LoopIn DEF Latest
      <4> QED
        BY <1>3, <2>2, <4>2, <4>3, <4>4 DEF Alive
    <3> QED
      BY <1>2, <3>1, <3>2, <3>3, ListeningFrom
  <2>8. Rested' /\ CurrentOpen'
    BY <1>3, <2>3, <2>4 DEF IInv, Control, Rested, CurrentOpen
  <2>9. Untouched'
    BY <1>2, <1>5, <2>2, <2>3 DEF IInv, Control, Untouched
  <2>10. Asked'
    BY <1>2, <2>2, <2>3, WaitedFor DEF Asked
  <2>11. Aimed'
    <3> SUFFICES ASSUME NEW t \in Sends
                 PROVE  /\ send[t].rt = current /\ current # 0
                        /\ send[t].pc \in {"stopping", "retiring"} => ~rt'[current].interruptInFlight
                        /\ send[t].pc = "retiring" => ~rt'[current].turnInFlight
                                                      /\ ~rt'[current].loopRunning
      BY <2>3 DEF Aimed
    <3> QED
      BY <2>4 DEF IInv, Control, Aimed
  <2> QED
    BY <2>3, <2>5, <2>6, <2>7, <2>8, <2>9, <2>10, <2>11, ControlIs DEF Standing
<1> QED
  BY <1>4, <1>5

\* The process is started again in the same loop.
LEMMA RecoversControl ==
    ASSUME IInv, NEW l \in Loop, ProcessRecovers(l) PROVE Control'
<1>1. Crashed(l) /\ Serving /\ flush' = flush
      /\ loop' = [loop EXCEPT ![l] = [native |-> "starting", clean |-> FALSE]]
      /\ rt' = [rt EXCEPT ![l[1]].recovered = TRUE, ![l[1]].state = "running",
                          ![l[1]].loopRunning = TRUE, ![l[1]].turnInFlight = TRUE]
  BY DEF ProcessRecovers, Recover
<1>2. Alive(l) /\ Busy(l) /\ rt[l[1]].turnInFlight
  BY <1>1 DEF Crashed, Alive, Busy, IInv, Control, Rested
<1>3. l[1] = current /\ current \in Runtime /\ ~rt[current].userClosing
  BY <1>2, BusyInCurrent
<1>4. rt[current] \in RtType
  BY <1>3, FieldsIn DEF IInv, Good
<1> DEFINE y == [rt[current] EXCEPT !.recovered = TRUE, !.state = "running",
                                    !.loopRunning = TRUE, !.turnInFlight = TRUE]
<1>5. rt' = [rt EXCEPT ![l[1]] = y]
  BY <1>1, <1>3, <1>4 DEF IInv, Good, RuntimeTypes, RtType
<1>6. /\ y.loopEpoch = rt[current].loopEpoch /\ ~y.userClosing /\ y.turnInFlight /\ y.loopRunning
      /\ y.interruptInFlight = rt[current].interruptInFlight /\ y.state = "running"
      /\ y.stopPending = rt[current].stopPending
  BY <1>3, <1>4 DEF RtType
<1> HIDE DEF y
<1>7. loop'[l].native = "starting" /\ \A m \in Loop \ {l} : loop'[m] = loop[m]
  BY <1>1 DEF IInv, Good, RuntimeTypes
<1>8. rt[current].interruptInFlight \/ Sends # {} \/ flush = <<"steer", "callback">>
      => rt[current].stopPending
  BY <1>2, <1>3 DEF IInv, Control, Laboring
<1> QED
  BY <1>1, <1>2, <1>3, <1>5, <1>6, <1>7, <1>8, OnlyLoopControl

LEMMA KernelControl ==
    ASSUME IInv, NEW l \in Loop, KernelStep(l) PROVE Control'
<1>1. CASE KernelSpeaks(l)
  BY <1>1, ControlFrame DEF KernelSpeaks, runtimeVars, Serving
<1> QED
  BY <1>1, OpensControl, EndsControl, FailsControl, ProcessEndsControl, RecoversControl
  DEF KernelStep


-----------------------------------------------------------------------------
(* The invariant. *)

LEMMA ControlInit == Init => Control
<1> SUFFICES ASSUME Init PROVE Control
  OBVIOUS
<1>1. PICK k \in Kernel : rt = [r \in Runtime |-> NewRuntime(k)]
  BY DEF Init, RuntimeInit
<1>2. \A r \in Runtime : /\ rt[r].loopEpoch = 0 /\ ~rt[r].userClosing
                         /\ ~rt[r].loopRunning
  BY <1>1, NewRuntimeIs
<1>3. \A l \in Loop : loop[l].native = "none"
  BY DEF Init, RuntimeInit, Loop, Unused
<1>4. Sends = {} /\ pending = {} /\ waiting = {} /\ current = 0
  BY DEF Init, Sends, NoSend
<1>5. Untouched /\ Listening /\ Rested
  BY <1>2, <1>3 DEF Untouched, Listening, Rested
<1>6. Solo /\ Aimed /\ Asked /\ CurrentOpen
  BY <1>4 DEF Solo, Aimed, Asked, CurrentOpen
<1>7. Living /\ Laboring
  BY <1>3 DEF Living, Laboring, Alive, Busy
<1> QED
  BY <1>5, <1>6, <1>7 DEF Control

LEMMA ControlStep == ~Overlap /\ IInv /\ [Next]_vars => Control'
<1> SUFFICES ASSUME ~Overlap, IInv, [Next]_vars PROVE Control'
  OBVIOUS
<1>1. CASE StopAgent
  <2>1. pending' \subseteq pending
    BY <1>1 DEF StopAgent
  <2> QED
    BY <1>1, <2>1, InterruptControl DEF StopAgent
<1>2. CASE SetExecutionMode
  <2>1. pending' \subseteq pending
    BY <1>2 DEF SetExecutionMode
  <2> QED
    BY <1>2, <2>1, InterruptControl DEF SetExecutionMode
<1>3. CASE UNCHANGED vars
  BY <1>3, ControlFrame DEF vars, runtimeVars, serviceVars
<1> QED
  BY <1>1, <1>2, <1>3, FlushOneControl, WindowSendsControl, KeepControl, SendStepControl,
     InterruptReturnsControl, SwitchControl, KernelControl
  DEF Next

\* When messages do not meet, the control of the turns is as IInv has it.
THEOREM Invariance ==
    ASSUME ~Overlap PROVE Spec => []IInv
<1>1. Init => IInv
  BY GoodInit, ControlInit DEF IInv
<1>2. IInv /\ [Next]_vars => IInv'
  BY GoodStep, ControlStep DEF IInv
<1> QED
  BY <1>1, <1>2, PTL DEF Spec

\* When messages do not meet, no two loops work for the session
\* (session-runtime.ts:268-271).
THEOREM OneLoopAtWork ==
    ASSUME ~Overlap PROVE Spec => []OneExecutor
<1>1. IInv => OneExecutor
  <2> SUFFICES ASSUME IInv PROVE OneExecutor
    OBVIOUS
  <2> DEFINE busy == {l \in Loop : loop[l].native \in {"starting", "working"}}
  <2>1. \A l \in busy : l = <<current, rt[current].loopEpoch>>
    BY BusyInCurrent, LoopIn DEF Busy
  <2>2. CASE busy = {}
    BY <2>2, FS_EmptySet DEF OneExecutor
  <2>3. CASE busy # {}
    <3>1. busy = {<<current, rt[current].loopEpoch>>}
      BY <2>1, <2>3
    <3>2. Cardinality(busy) = 1
      BY <3>1, FS_Singleton
    <3> QED
      BY <3>2 DEF OneExecutor
  <2> QED
    BY <2>2, <2>3
<1> QED
  BY <1>1, Invariance, PTL

-----------------------------------------------------------------------------
(* A turn after a turn. *)

\* No turn begins and no loop.
Steady == \A r \in Runtime : /\ rt'[r].turnInFlight => rt[r].turnInFlight
                             /\ rt'[r].loopEpoch = rt[r].loopEpoch

\* What TurnAfterTurn says of a step.
InTurn ==
    \A r \in Runtime :
        /\ rt'[r].turnInFlight /\ ~rt[r].turnInFlight =>
             \A e \in Epoch : loop[<<r, e>>].native \notin {"starting", "working"}
        /\ rt'[r].loopEpoch # rt[r].loopEpoch =>
             \A l \in Loop : Alive(l) => rt[l[1]].userClosing

LEMMA SteadyInTurn == Steady => InTurn
BY DEF Steady, InTurn

LEMMA StillSteady == rt' = rt => InTurn
BY DEF InTurn

\* A turn of the same loop, or of none, while nothing works.
LEMMA SameEpochInTurn ==
    ASSUME \A l \in Loop : ~Busy(l), \A r \in Runtime : rt'[r].loopEpoch = rt[r].loopEpoch
    PROVE  InTurn
BY DEF InTurn, Loop, Busy

LEMMA PrepareInTurn ==
    ASSUME IInv, NEW s \in Sender, Prepare(s) PROVE InTurn
<1>1. CASE current = 0 \/ ~HasLiveProcess(current)
  <2>1. made + 1 \in Runtime /\ kernel \in Kernel /\ rt' = [rt EXCEPT ![made + 1] = NewRuntime(kernel)]
    <3>1. /\ made + 1 <= MaxRuntimes /\ kernel \in Kernel
          /\ rt' = [rt EXCEPT ![made + 1] = NewRuntime(kernel)]
      BY <1>1 DEF Prepare, IInv, Good, ServiceTypes
    <3>2. made \in Nat
      BY MadeIn DEF IInv, Good
    <3> QED
      BY <3>1, <3>2, BoundAssumption DEF BoundAssumption, Runtime
  <2>2. rt'[made + 1] = NewRuntime(kernel) /\ \A q \in Runtime \ {made + 1} : rt'[q] = rt[q]
    BY <2>1 DEF IInv, Good, RuntimeTypes
  <2>3. rt[made + 1].loopEpoch = 0
    BY <2>1, MadeIn DEF IInv, Good, Control, Untouched
  <2> QED
    BY <2>1, <2>2, <2>3, NewRuntimeIs, SteadyInTurn DEF Steady
<1>2. CASE ~(current = 0 \/ ~HasLiveProcess(current))
  BY <1>2, StillSteady DEF Prepare
<1> QED
  BY <1>1, <1>2

LEMMA HandleSendInTurn ==
    ASSUME IInv, NEW s \in Sender, HandleSend(s) PROVE InTurn
BY PrepareInTurn, StillSteady DEF HandleSend

LEMMA SpawnInTurn ==
    ASSUME IInv, NEW s \in Sends, Spawn(s), ~rt[current].stopPending, ~HasLiveProcess(current)
    PROVE  InTurn
<1>1. \A l \in Loop : ~Busy(l)
  BY OnItsWay
<1>2. \A l \in Loop : Alive(l) => rt[l[1]].userClosing
  BY <1>1, NoneLives
<1> QED
  BY <1>1, <1>2 DEF InTurn, Loop, Busy

LEMMA StartInTurn ==
    ASSUME IInv, NEW s \in Sends, Start(s), ~rt[current].stopPending PROVE InTurn
<1>1. send[s].rt = current /\ current \in Runtime /\ \A l \in Loop : ~Busy(l)
  BY OnItsWay
<1>2. rt[current] \in RtType /\ DOMAIN rt = Runtime
  BY <1>1, FieldsIn DEF IInv, Good, RuntimeTypes
<1>3. CASE rt' = rt
  BY <1>3, StillSteady
<1>4. CASE ~HasLiveProcess(current) /\ Spawn(s)
  BY <1>4, SpawnInTurn
<1>5. CASE rt' = [rt EXCEPT ![current].userStopping = FALSE]
  <2>1. \A r \in Runtime : rt'[r].loopEpoch = rt[r].loopEpoch
    BY <1>1, <1>2, <1>5, FieldsIn DEF IInv, Good, RuntimeTypes, RtType
  <2> QED
    BY <1>1, <2>1, SameEpochInTurn
<1>6. CASE rt' = [rt EXCEPT ![current] = Retired(current, @)]
  <2>1. rt'[current] = Retired(current, rt[current]) /\ \A q \in Runtime \ {current} : rt'[q] = rt[q]
    BY <1>1, <1>6 DEF IInv, Good, RuntimeTypes
  <2>2. rt'[current].loopEpoch = rt[current].loopEpoch
    BY <1>2, <2>1, RetiredIs
  <2> QED
    BY <1>1, <2>1, <2>2, SameEpochInTurn
<1>7. CASE rt' = [rt EXCEPT ![current].turnInFlight = TRUE, ![current].userStopping = FALSE]
  <2>1. \A r \in Runtime : rt'[r].loopEpoch = rt[r].loopEpoch
    BY <1>1, <1>2, <1>7, FieldsIn DEF IInv, Good, RuntimeTypes, RtType
  <2> QED
    BY <1>1, <2>1, SameEpochInTurn
<1> QED
  BY <1>1, <1>3, <1>4, <1>5, <1>6, <1>7 DEF Start, runtimeVars, Enqueue, EnqueueFails

LEMMA SendStepInTurn ==
    ASSUME IInv, NEW s \in Sender, SendStep(s) PROVE InTurn
<1>1. s \in Sends
  BY DEF SendStep, PreviousSettled, SendMessage, InterruptAwaited, StopSettled, SettleTimesOut, Sends
<1>2. send[s].rt = current
  BY <1>1, OnItsWay
<1>3. CASE PreviousSettled(s)
  BY <1>3, PrepareInTurn, StillSteady DEF PreviousSettled
<1>4. CASE UnlessStopping(s)
  BY <1>1, <1>2, <1>4, StartInTurn, StillSteady DEF UnlessStopping, runtimeVars
<1>5. CASE StopSettled(s)
  <2>1. ~rt[current].stopPending /\ (send[s].pc = "retiring" => ~HasLiveProcess(current))
    BY <1>1, <1>2, <1>5 DEF StopSettled, IInv, Control, Aimed, HasLiveProcess
  <2> QED
    BY <1>1, <1>5, <2>1, StartInTurn, SpawnInTurn, StillSteady DEF StopSettled, runtimeVars
<1>6. CASE UNCHANGED runtimeVars
  BY <1>6, StillSteady DEF runtimeVars
<1> QED
  BY <1>3, <1>4, <1>5, <1>6 DEF SendStep, SendMessage, InterruptAwaited, SettleTimesOut


LEMMA InterruptSteady ==
    ASSUME IInv, NEW who, Interrupt(who) PROVE Steady
<1>1. current \in Runtime
  BY MadeIn DEF Interrupt, IInv, Good
<1>2. rt[current] \in RtType /\ rt'[current] = Interrupted(rt[current])
      /\ \A q \in Runtime \ {current} : rt'[q] = rt[q]
  BY <1>1, FieldsIn DEF Interrupt, IInv, Good, RuntimeTypes
<1>3. rt'[current].turnInFlight = rt[current].turnInFlight
      /\ rt'[current].loopEpoch = rt[current].loopEpoch
  BY <1>2, InterruptedIs
<1> QED
  BY <1>1, <1>2, <1>3 DEF Steady

LEMMA InterruptReturnsSteady ==
    ASSUME IInv, NEW r \in Runtime, InterruptReturns(r) PROVE Steady
<1> DEFINE taken == [rt EXCEPT ![r] = InterruptTaken(@)]
<1>1. \A q \in Runtime : rt[q] \in RtType
  BY FieldsIn DEF IInv, Good
<1>2. InterruptTaken(rt[r]) \in RtType /\ ~InterruptTaken(rt[r]).turnInFlight
      /\ InterruptTaken(rt[r]).loopEpoch = rt[r].loopEpoch
  BY <1>1, InterruptTakenIs
<1>3. \A q \in Runtime : /\ taken[q] \in RtType /\ taken[q].loopEpoch = rt[q].loopEpoch
                         /\ taken[q].turnInFlight => rt[q].turnInFlight
  BY <1>1, <1>2 DEF IInv, Good, RuntimeTypes
<1>4. taken \in [Runtime -> RtType]
  BY <1>3 DEF IInv, Good, RuntimeTypes
<1>5. rt' = IF <<"mode", r>> \in waiting /\ current # 0
            THEN [taken EXCEPT ![current] = Retired(current, @)] ELSE taken
  BY DEF InterruptReturns
<1> HIDE DEF taken
<1>6. CASE <<"mode", r>> \in waiting /\ current # 0
  <2>1. current \in Runtime
    BY <1>6, MadeIn DEF IInv, Good
  <2>2. rt'[current] = Retired(current, taken[current]) /\ taken[current] \in RtType
        /\ \A q \in Runtime \ {current} : rt'[q] = taken[q]
    BY <1>4, <1>5, <1>6, <2>1
  <2>3. rt'[current].loopEpoch = taken[current].loopEpoch
        /\ (rt'[current].turnInFlight => taken[current].turnInFlight)
    <3>1. /\ rt'[current].loopEpoch = taken[current].loopEpoch
          /\ HasLiveProcess(current) => ~rt'[current].turnInFlight
          /\ ~HasLiveProcess(current) =>
                rt'[current].turnInFlight = taken[current].turnInFlight
      BY <2>2, RetiredIs
    <3> QED
      BY <3>1
  <2> QED
    BY <1>3, <2>1, <2>2, <2>3 DEF Steady
<1>7. CASE ~(<<"mode", r>> \in waiting /\ current # 0)
  BY <1>3, <1>5, <1>7 DEF Steady
<1> QED
  BY <1>6, <1>7

LEMMA SwitchSteady ==
    ASSUME IInv, SwitchKernel \/ SwitchStep PROVE InTurn
<1>1. CASE rt' = rt
  BY <1>1, StillSteady
<1>2. CASE current # 0 /\ Destroy(current)
  <2>1. current \in Runtime /\ rt[current] \in RtType
    BY <1>2, MadeIn, FieldsIn DEF IInv, Good
  <2>2. rt'[current] = Destroyed(rt[current]) /\ \A q \in Runtime \ {current} : rt'[q] = rt[q]
    BY <1>2, <2>1 DEF Destroy, IInv, Good, RuntimeTypes
  <2>3. rt'[current].loopEpoch = rt[current].loopEpoch /\ ~rt'[current].turnInFlight
    BY <2>1, <2>2 DEF Destroyed, RtType
  <2> QED
    BY <2>1, <2>2, <2>3, SteadyInTurn DEF Steady
<1> QED
  BY <1>1, <1>2
  DEF SwitchKernel, SwitchStep, CheckSwitch, RecheckSwitch, SwitchTimesOut, CommitSwitch,
      RejectSwitch, Switching, runtimeVars

\* An object whose fields are those of another turn state.
LEMMA SteadyFrom ==
    ASSUME IInv, NEW r \in Runtime, NEW y, rt' = [rt EXCEPT ![r] = y],
           y.turnInFlight => rt[r].turnInFlight, y.loopEpoch = rt[r].loopEpoch
    PROVE  InTurn
<1>1. rt'[r] = y /\ \A q \in Runtime \ {r} : rt'[q] = rt[q]
  BY DEF IInv, Good, RuntimeTypes
<1> QED
  BY <1>1, SteadyInTurn DEF Steady

LEMMA SettledInTurn ==
    ASSUME IInv, NEW r \in Runtime, NEW x \in RtType, NEW e, NEW source,
           rt' = [rt EXCEPT ![r] = TurnSettled(x, e, source)],
           x.turnInFlight => rt[r].turnInFlight, x.loopEpoch = rt[r].loopEpoch
    PROVE  InTurn
<1> DEFINE y == TurnSettled(x, e, source)
<1>1. y.turnInFlight = x.turnInFlight /\ y.loopEpoch = x.loopEpoch
  BY TurnSettledIs
<1>2. rt' = [rt EXCEPT ![r] = y]
  OBVIOUS
<1> HIDE DEF y
<1> QED
  BY <1>1, <1>2, SteadyFrom

LEMMA KernelInTurn ==
    ASSUME IInv, NEW l \in Loop, KernelStep(l) PROVE InTurn
<1>1. l[1] \in Runtime /\ rt[l[1]] \in RtType
  BY LoopIn, FieldsIn DEF IInv, Good
<1>2. CASE rt' = rt
  BY <1>2, StillSteady
<1>3. CASE Result(l)
  <2> DEFINE x == [rt[l[1]] EXCEPT !.turnInFlight = FALSE]
  <2>1. x \in RtType /\ ~x.turnInFlight /\ x.loopEpoch = rt[l[1]].loopEpoch
    BY <1>1 DEF RtType
  <2>2. CASE Latest(l)
    <3>1. rt' = [rt EXCEPT ![l[1]] = TurnSettled(x, l[2], "result")]
      BY <1>3, <2>2 DEF Result
    <3> HIDE DEF x
    <3> QED
      BY <1>1, <2>1, <3>1, SettledInTurn
  <2> QED
    BY <1>2, <1>3, <2>2 DEF Result
<1>4. CASE TooLong(l)
  <2> DEFINE x == [rt[l[1]] EXCEPT !.turnInFlight = FALSE, !.loopRunning = FALSE,
                                   !.state = "closed"]
  <2>1. x \in RtType /\ ~x.turnInFlight /\ x.loopEpoch = rt[l[1]].loopEpoch
    BY <1>1 DEF RtType
  <2>2. rt' = [rt EXCEPT ![l[1]] = TurnSettled(x, l[2], "finally")]
    BY <1>4 DEF TooLong
  <2> HIDE DEF x
  <2> QED
    BY <1>1, <2>1, <2>2, SettledInTurn
<1>5. CASE GiveUp(l)
  <2> DEFINE x == [rt[l[1]] EXCEPT !.loopRunning = FALSE, !.state = "closed"]
  <2>1. x \in RtType /\ x.turnInFlight = rt[l[1]].turnInFlight /\ x.loopEpoch = rt[l[1]].loopEpoch
    BY <1>1 DEF RtType
  <2>2. rt' = [rt EXCEPT ![l[1]] = TurnSettled(x, l[2], "finally")]
    BY <1>5 DEF GiveUp
  <2> HIDE DEF x
  <2> QED
    BY <1>1, <2>1, <2>2, SettledInTurn
<1>6. CASE LoopEnds(l)
  <2>1. rt' = [rt EXCEPT ![l[1]] = IF ~Latest(l) THEN @
                                   ELSE TurnSettled(Ended(@), l[2], "finally")]
    BY <1>6, LoopEndsIs DEF IInv, Good
  <2>2. CASE ~Latest(l)
    BY <1>1, <2>1, <2>2, SteadyFrom
  <2>3. CASE Latest(l)
    <3> DEFINE x == Ended(rt[l[1]])
    <3>1. x \in RtType /\ x.turnInFlight = rt[l[1]].turnInFlight /\ x.loopEpoch = rt[l[1]].loopEpoch
      BY <1>1, EndedIs
    <3>2. rt' = [rt EXCEPT ![l[1]] = TurnSettled(x, l[2], "finally")]
      BY <2>1, <2>3
    <3> HIDE DEF x
    <3> QED
      BY <1>1, <3>1, <3>2, SettledInTurn
  <2> QED
    BY <2>2, <2>3
<1>7. CASE Recover(l)
  <2> DEFINE y == [rt[l[1]] EXCEPT !.recovered = TRUE, !.state = "running",
                                   !.loopRunning = TRUE, !.turnInFlight = TRUE]
  <2>1. rt' = [rt EXCEPT ![l[1]] = y]
    BY <1>1, <1>7 DEF Recover, IInv, Good, RuntimeTypes, RtType
  <2>2. rt[l[1]].turnInFlight /\ y.loopEpoch = rt[l[1]].loopEpoch
    BY <1>1, <1>7 DEF Recover, Crashed, RtType
  <2> HIDE DEF y
  <2> QED
    BY <1>1, <2>1, <2>2, SteadyFrom
<1> QED
  BY <1>2, <1>3, <1>4, <1>5, <1>6, <1>7
  DEF KernelStep, KernelOpens, Open, KernelSpeaks, TurnEnds, TurnFails, ProcessEnds,
      ProcessRecovers, runtimeVars

\* When messages do not meet, a turn begins in an object only when none of its
\* loops is at work, and a new loop only when every earlier one is over or was
\* switched away (session-runtime.ts:109-116 and 130-141).
THEOREM TurnsFollowOneAnother ==
    ASSUME ~Overlap PROVE Spec => TurnAfterTurn
<1>1. IInv /\ [Next]_vars => InTurn
  <2> SUFFICES ASSUME IInv, [Next]_vars PROVE InTurn
    OBVIOUS
  <2>1. CASE FlushOne
    <3>1. Head(flush) \in Sender
      BY <2>1, FlushIs DEF FlushOne, IInv, Good, ServiceTypes, Flushes, Sender
    <3> QED
      BY <2>1, <3>1, HandleSendInTurn, StillSteady DEF FlushOne, runtimeVars
  <2>2. CASE WindowSends
    BY <2>2, HandleSendInTurn DEF WindowSends, Sender
  <2>3. CASE \E s \in Sender : Keep(s)
    BY <2>3, StillSteady DEF Keep, runtimeVars
  <2>4. CASE StopAgent \/ SetExecutionMode
    BY <2>4, InterruptSteady, SteadyInTurn DEF StopAgent, SetExecutionMode
  <2>5. CASE UNCHANGED vars
    BY <2>5, StillSteady DEF vars, runtimeVars
  <2>6. ASSUME NEW r \in Runtime, InterruptReturns(r) PROVE InTurn
    BY <2>6, InterruptReturnsSteady, SteadyInTurn
  <2> QED
    BY <2>1, <2>2, <2>3, <2>4, <2>5, <2>6, SendStepInTurn, SwitchSteady, KernelInTurn DEF Next
<1>2. InTurn <=> \A r \in Runtime :
        /\ rt'[r].turnInFlight /\ ~rt[r].turnInFlight =>
             \A e \in Epoch : loop[<<r, e>>].native \notin {"starting", "working"}
        /\ rt'[r].loopEpoch # rt[r].loopEpoch =>
             \A l \in Loop : Alive(l) => rt[l[1]].userClosing
  BY DEF InTurn
<1> QED
  BY <1>1, <1>2, Invariance, PTL DEF Spec, TurnAfterTurn

-----------------------------------------------------------------------------
(* The switch. *)

\* When messages do not meet, the kernel is switched only while nothing works
\* for the session and no message is on its way (collectSwitchQuiescence).
THEOREM SwitchedInSilence ==
    ASSUME ~Overlap PROVE Spec => SwitchIsQuiet
<1> DEFINE Quiet == kernel' # kernel => Sends = {} /\ \A l \in Loop : ~Working(l)
<1>1. IInv /\ [Next]_vars => Quiet
  <2> SUFFICES ASSUME IInv, [Next]_vars, kernel' # kernel
               PROVE  Sends = {} /\ \A l \in Loop : ~Working(l)
    OBVIOUS
  <2>1. CASE Quiescent
    BY <2>1, QuiescentIsStill DEF Working, Busy
  <2>2. CASE ~Quiescent
    <3>1. ~SwitchKernel /\ ~SwitchStep
      BY <2>2 DEF SwitchKernel, SwitchStep, CheckSwitch, RecheckSwitch, SwitchTimesOut, RejectSwitch
    <3>2. ~FlushOne /\ ~WindowSends
      BY DEF FlushOne, WindowSends, HandleSend
    <3>3. ~StopAgent /\ ~SetExecutionMode
      BY DEF StopAgent, SetExecutionMode, Interrupt
    <3>4. \A s \in Sender : ~Keep(s) /\ ~SendStep(s)
      BY DEF Keep, SendStep, PreviousSettled, SendMessage, InterruptAwaited, StopSettled,
             SettleTimesOut, Sending
    <3>5. \A r \in Runtime : ~InterruptReturns(r)
      BY DEF InterruptReturns
    <3>6. \A l \in Loop : ~KernelStep(l)
      BY DEF KernelStep, KernelOpens, KernelSpeaks, TurnEnds, TurnFails, ProcessEnds,
             ProcessRecovers, Serving
    <3>7. ~UNCHANGED vars
      BY DEF vars, serviceVars
    <3> QED
      BY <3>1, <3>2, <3>3, <3>4, <3>5, <3>6, <3>7 DEF Next
  <2> QED
    BY <2>1, <2>2
<1> QED
  BY <1>1, Invariance, PTL DEF Spec, SwitchIsQuiet

=============================================================================
