----------------------- MODULE FusionAuthority_proofs -----------------------
(* Proofs about FusionAuthority for every set of users, bots, seats, runs  *)
(* and keys.  The inductive invariant IInv is the conjunction of the type  *)
(* invariant and the five safety invariants: none is inductive alone, for  *)
(* an operation that moves one record relies on the others being in step.  *)
EXTENDS FusionAuthority, TLAPS

-----------------------------------------------------------------------------
(* What the operations on runs do to the types of seat and run. *)

\* cancelRunsForSeat keeps both records well typed.
LEMMA CancelType ==
    ASSUME TypeOK, NEW s \in SeatId
    PROVE  /\ RunsCancelled(s) \in [RunId -> RunType]
           /\ \A r \in RunId : RunsCancelled(s)[r].status # "none" =>
                                  RunsCancelled(s)[r].seat \in SeatId
           /\ SeatCancelled(s) \in SeatType
           /\ [seat EXCEPT ![s] = SeatCancelled(s)] \in [SeatId -> SeatType]
<1>1. \A r \in RunId :
        /\ run[r] \in RunType
        /\ [run[r] EXCEPT !.status = "cancelled"] \in RunType
        /\ [run[r] EXCEPT !.status = "cancelled"].seat = run[r].seat
  BY DEF TypeOK, RunType, RunStatus, Settled
<1>2. RunsCancelled(s) \in [RunId -> RunType]
  BY <1>1 DEF RunsCancelled
<1>3. \A r \in RunId : RunsCancelled(s)[r].status # "none" =>
                          RunsCancelled(s)[r].seat \in SeatId
  BY <1>1 DEF RunsCancelled, IsRunning, TypeOK
<1>4. SeatCancelled(s) \in SeatType
  BY DEF SeatCancelled, Freed, TypeOK, SeatType
<1> QED
  BY <1>2, <1>3, <1>4 DEF TypeOK

\* Creating a run keeps both records well typed.
LEMMA BeginType ==
    ASSUME TypeOK, NEW s \in SeatId, NEW r \in RunId, NEW trigger \in BOOLEAN,
           NEW k \in StartKey \cup RetryKey \cup {None}, BeginRun(s, r, trigger, k)
    PROVE  /\ run' \in [RunId -> RunType]
           /\ \A q \in RunId : run'[q].status # "none" => run'[q].seat \in SeatId
           /\ seat' \in [SeatId -> SeatType]
<1>1. PICK m \in {0} \cup FencesOf(s) :
        run' = [run EXCEPT ![r] = [status |-> "running", seat |-> s, fence |-> m + 1,
                                   trigger |-> trigger, key |-> k]]
  BY DEF BeginRun
<1>2. m \in Nat
  BY DEF FencesOf, RunsOf, TypeOK, RunType
<1>3. [status |-> "running", seat |-> s, fence |-> m + 1,
       trigger |-> trigger, key |-> k] \in RunType
  BY <1>2 DEF RunType, RunStatus
<1>4. seat' \in [SeatId -> SeatType]
  <2>1. seat[s] \in SeatType
    BY DEF TypeOK
  <2>2. [seat[s] EXCEPT !.status = "running"] \in SeatType
    BY <2>1 DEF SeatType
  <2>3. seat' = [seat EXCEPT ![s] = [seat[s] EXCEPT !.status = "running"]]
    BY DEF BeginRun
  <2> QED
    BY <2>2, <2>3 DEF TypeOK
<1> QED
  BY <1>1, <1>3, <1>4 DEF TypeOK

\* Ending or parking a run keeps both records well typed.
LEMMA EndType ==
    ASSUME TypeOK, NEW r \in RunId, NEW st \in RunStatus, IsRunning(r)
    PROVE  /\ [run EXCEPT ![r].status = st] \in [RunId -> RunType]
           /\ \A q \in RunId : [run EXCEPT ![r].status = st][q].status # "none" =>
                 [run EXCEPT ![r].status = st][q].seat \in SeatId
           /\ [seat EXCEPT ![run[r].seat] = Freed(run[r].seat)] \in [SeatId -> SeatType]
<1>1. [run[r] EXCEPT !.status = st] \in RunType
  BY DEF TypeOK, RunType
<1>2. run[r].seat \in SeatId
  BY DEF TypeOK, IsRunning
<1>3. Freed(run[r].seat) \in SeatType
  <2>1. seat[run[r].seat] \in SeatType
    BY <1>2 DEF TypeOK
  <2>2. [seat[run[r].seat] EXCEPT !.status = "idle"] \in SeatType
    BY <2>1 DEF SeatType
  <2> QED
    BY <2>1, <2>2 DEF Freed
<1> QED
  BY <1>1, <1>2, <1>3 DEF TypeOK, RunType

\* No operation makes the state ill typed.
LEMMA TypeStep == TypeOK /\ [Next]_vars => TypeOK'
<1> SUFFICES ASSUME TypeOK, [Next]_vars PROVE TypeOK'
  OBVIOUS
<1>1. CASE UNCHANGED vars
  BY <1>1 DEF vars, TypeOK
<1>2. ASSUME NEW u \in User, NEW a \in User, InviteHuman(a, u) \/ RemoveHuman(a, u)
      PROVE  TypeOK'
  BY <1>2 DEF InviteHuman, RemoveHuman, TypeOK, HumanStatus
<1>3. ASSUME NEW u \in User, AcceptInvitation(u) \/ LeaveHuman(u)
      PROVE  TypeOK'
  BY <1>3 DEF AcceptInvitation, LeaveHuman, TypeOK, HumanStatus
<1>4. ASSUME NEW u \in User, NEW st \in {"active", "offline"}, SetPresence(u, st)
      PROVE  TypeOK'
  BY <1>4 DEF SetPresence, TypeOK, HumanStatus
<1>5. ASSUME NEW u \in User, NEW st \in {"active", "paused"}, SetStatus(u, st)
      PROVE  TypeOK'
  BY <1>5 DEF SetStatus, TypeOK
<1>6. ASSUME NEW a \in User, NEW s \in SeatId, NEW b \in Bot, NEW agreed \in BOOLEAN,
             AddBot(a, s, b, agreed)
      PROVE  TypeOK'
  <2> DEFINE lead == \A t \in SeatId : Live(t) => ~seat[t].lead
             new  == [status |-> "idle", owner |-> BotOwner[b], bot |-> b, lead |-> lead]
  <2>1. new \in SeatType
    BY OwnerAssumption DEF SeatType
  <2>2. seat' = [seat EXCEPT ![s] = new]
    BY <1>6 DEF AddBot
  <2>3. seat' \in [SeatId -> SeatType]
    BY <2>1, <2>2 DEF TypeOK
  <2>4. seated' \in Seq(SeatId) /\ coordinator' \in SeatId \cup {None}
    BY <1>6 DEF AddBot, TypeOK
  <2>5. consent' \in [SeatId -> BOOLEAN]
    BY <1>6 DEF AddBot, TypeOK
  <2> QED
    BY <1>6, <2>3, <2>4, <2>5 DEF AddBot, TypeOK
<1>7. ASSUME NEW a \in User, NEW s \in SeatId, NEW agreed \in BOOLEAN,
             SetConsent(a, s, agreed)
      PROVE  TypeOK'
  <2>1. consent' \in [SeatId -> BOOLEAN]
    BY <1>7 DEF SetConsent, TypeOK
  <2>2. CASE agreed
    BY <1>7, <2>1, <2>2 DEF SetConsent, TypeOK
  <2>3. CASE ~agreed
    <3>1. /\ UNCHANGED <<roomStatus, human, seated, coordinator>>
          /\ run' = RunsCancelled(s) /\ seat' = [seat EXCEPT ![s] = SeatCancelled(s)]
      BY <1>7, <2>3 DEF SetConsent
    <3>2. /\ RunsCancelled(s) \in [RunId -> RunType] /\ SeatCancelled(s) \in SeatType
          /\ \A r \in RunId : RunsCancelled(s)[r].status # "none" =>
                                  RunsCancelled(s)[r].seat \in SeatId
      BY CancelType
    <3> QED
      BY <2>1, <3>1, <3>2 DEF TypeOK
  <2> QED
    BY <2>2, <2>3
<1>8. ASSUME NEW a \in User, NEW s \in SeatId, RemoveBot(a, s)
      PROVE  TypeOK'
  <2> DEFINE gone == [seat[s] EXCEPT !.status = "removed", !.lead = FALSE]
  <2>1. gone \in SeatType
    <3>1. seat[s] \in SeatType
      BY DEF TypeOK
    <3>2. [seat[s] EXCEPT !.status = "removed"] \in SeatType
      BY <3>1 DEF SeatType
    <3>3. gone = [[seat[s] EXCEPT !.status = "removed"] EXCEPT !.lead = FALSE]
      OBVIOUS
    <3> QED
      BY <3>2, <3>3 DEF SeatType
  <2>2. seat' \in [SeatId -> SeatType] /\ coordinator' \in SeatId \cup {None}
    <3>1. CASE seat[s].lead \/ coordinator = s
      <4>1. PICK t \in SeatId \cup {None} :
              /\ coordinator' = t
              /\ seat' = [u \in SeatId |->
                            IF u = s THEN gone ELSE [seat[u] EXCEPT !.lead = (u = t)]]
        BY <1>8, <3>1 DEF RemoveBot
      <4>2. \A u \in SeatId : [seat[u] EXCEPT !.lead = (u = t)] \in SeatType
        <5>1. SUFFICES ASSUME NEW u \in SeatId
                       PROVE  [seat[u] EXCEPT !.lead = (u = t)] \in SeatType
          OBVIOUS
        <5>2. seat[u] \in SeatType /\ (u = t) \in BOOLEAN
          BY DEF TypeOK
        <5> QED
          BY <5>2 DEF SeatType
      <4> QED
        BY <2>1, <4>1, <4>2
    <3>2. CASE ~(seat[s].lead \/ coordinator = s)
      BY <1>8, <2>1, <3>2 DEF RemoveBot, TypeOK
    <3> QED
      BY <3>1, <3>2
  <2> QED
    BY <1>8, <2>2, CancelType DEF RemoveBot, TypeOK
<1>9. ASSUME NEW a \in User, NEW r \in RunId, NEW s \in SeatId,
             NEW trigger \in BOOLEAN, NEW k \in StartKey \cup {None},
             StartRun(a, s, r, trigger, k)
      PROVE  TypeOK'
  BY <1>9, BeginType DEF StartRun, TypeOK
<1>10. ASSUME NEW a \in User, NEW r \in RunId, NEW old \in RunId,
              NEW asked \in SeatId \cup {None}, NEW keyed \in BOOLEAN,
              RetryRun(a, old, asked, r, keyed)
       PROVE  TypeOK'
  <2> DEFINE s == IF asked = None THEN run[old].seat ELSE asked
             k == IF keyed THEN <<old, asked>> ELSE None
  <2>1. s \in SeatId /\ k \in StartKey \cup RetryKey \cup {None}
    BY <1>10 DEF RetryRun, RetryKey, TypeOK
  <2>2. BeginRun(s, r, TRUE, k)
    BY <1>10 DEF RetryRun
  <2> QED
    BY <1>10, <2>1, <2>2, BeginType DEF RetryRun, TypeOK
<1>11. ASSUME NEW a \in User, NEW r \in RunId,
              NEW st \in {"awaiting_peer", "awaiting_user"}, AwaitRun(a, r, st)
       PROVE  TypeOK'
  BY <1>11, EndType DEF AwaitRun, TypeOK, RunStatus
<1>12. ASSUME NEW a \in User, NEW r \in RunId, NEW st \in Settled, FinishRun(a, r, st)
       PROVE  TypeOK'
  BY <1>12, EndType DEF FinishRun, TypeOK, RunStatus
<1> QED
  <2>1. CASE MemberNext
    BY <2>1, <1>2, <1>3, <1>4, <1>5 DEF MemberNext
  <2>2. CASE SeatNext
    BY <2>2, <1>6, <1>7, <1>8 DEF SeatNext
  <2>3. CASE RunNext
    BY <2>3, <1>9, <1>10, <1>11, <1>12 DEF RunNext
  <2> QED
    BY <1>1, <2>1, <2>2, <2>3 DEF Next

\* The state is well typed in every reachable state.
THEOREM TypeCorrect == Spec => []TypeOK
<1>1. Init => TypeOK
  BY OwnerAssumption DEF Init, TypeOK, HumanStatus, SeatType, RunType, NoSeat, NoRun,
     RunStatus
<1> QED
  BY <1>1, TypeStep, PTL DEF Spec
-----------------------------------------------------------------------------
(* The inductive invariant. *)

IInv ==
    /\ TypeOK
    /\ SeatBusyIffRunning
    /\ RunningHoldsLatestFence
    /\ RunningAuthorized
    /\ CoordinatorConsistent
    /\ OneRunPerKey

\* The initial state has no seat and no run.
LEMMA InitIInv == Init => IInv
<1> SUFFICES ASSUME Init PROVE IInv
  OBVIOUS
<1>1. TypeOK
  BY OwnerAssumption DEF Init, TypeOK, HumanStatus, SeatType, RunType, NoSeat, NoRun,
     RunStatus
<1>2. \A s \in SeatId : ~Live(s) /\ ~seat[s].lead /\ seat[s].status # "running"
  BY DEF Init, Live, NoSeat
<1>3. \A r \in RunId : ~IsRunning(r) /\ run[r].status = "none" /\ run[r].key = None
  BY DEF Init, IsRunning, NoRun
<1>4. coordinator = None
  BY DEF Init
<1> QED
  BY <1>1, <1>2, <1>3, <1>4, NoneAssumption
     DEF IInv, SeatBusyIffRunning, RunningHoldsLatestFence, RunningAuthorized,
         CoordinatorConsistent, OneRunPerKey, RunsOf

\* A step that leaves seats, runs, consents and the coordinator alone.
LEMMA FrameIInv ==
    ASSUME IInv, TypeOK', UNCHANGED <<seat, coordinator, consent, run>>
    PROVE  IInv'
BY DEF IInv, SeatBusyIffRunning, RunningHoldsLatestFence, RunningAuthorized,
       CoordinatorConsistent, OneRunPerKey, RunsOf, IsRunning, Live, CanRun

\* Creating a run on an idle seat that may run, for an unused key.
LEMMA BeginIInv ==
    ASSUME IInv, TypeOK',
           NEW s \in SeatId, NEW r \in RunId, NEW trigger \in BOOLEAN,
           NEW k \in StartKey \cup RetryKey \cup {None},
           BeginRun(s, r, trigger, k), Unused(k),
           Live(s), CanRun(s), seat[s].status # "running",
           UNCHANGED <<coordinator, consent>>
    PROVE  IInv'
<1> USE DEF IInv
<1>1. PICK m \in {0} \cup FencesOf(s) :
        /\ \A f \in FencesOf(s) : f <= m
        /\ run' = [run EXCEPT ![r] = [status |-> "running", seat |-> s, fence |-> m + 1,
                                      trigger |-> trigger, key |-> k]]
  BY DEF BeginRun
<1>2. m \in Nat /\ \A q \in RunsOf(s) : run[q].fence \in Nat /\ run[q].fence <= m
  BY <1>1 DEF FencesOf, RunsOf, TypeOK, RunType
<1>3. run[r].status = "none"
  BY DEF BeginRun
<1>4. /\ run'[r].status = "running" /\ run'[r].seat = s
      /\ run'[r].fence = m + 1 /\ run'[r].key = k
      /\ \A q \in RunId \ {r} : run'[q] = run[q]
  BY <1>1 DEF TypeOK
<1>5. /\ seat'[s].status = "running"
      /\ \A t \in SeatId : /\ t # s => seat'[t] = seat[t]
                           /\ seat'[t].owner = seat[t].owner
                           /\ seat'[t].lead = seat[t].lead
                           /\ Live(t)' <=> Live(t)
  BY DEF BeginRun, TypeOK, SeatType, Live
<1>6. SeatBusyIffRunning'
  BY <1>3, <1>4, <1>5 DEF SeatBusyIffRunning, IsRunning
<1>7. RunningHoldsLatestFence'
  <2> SUFFICES ASSUME NEW p \in RunId, NEW q \in RunId, p # q,
                      (q \in RunsOf(run[p].seat))', (p \in RunsOf(run[q].seat))'
               PROVE  /\ run'[p].fence # run'[q].fence
                      /\ IsRunning(p)' => run'[q].fence < run'[p].fence
    BY DEF RunningHoldsLatestFence
  <2>1. CASE p = r
    BY <1>2, <1>4, <2>1 DEF RunsOf, IsRunning
  <2>2. CASE q = r
    <3>1. ~IsRunning(p)
      BY <1>4, <2>2 DEF SeatBusyIffRunning, RunsOf, IsRunning
    <3> QED
      BY <1>2, <1>4, <2>2, <3>1 DEF RunsOf, IsRunning
  <2>3. CASE p # r /\ q # r
    BY <1>4, <2>3 DEF RunningHoldsLatestFence, RunsOf, IsRunning
  <2> QED
    BY <2>1, <2>2, <2>3
<1>8. RunningAuthorized'
  <2>1. ASSUME NEW q \in RunId, IsRunning(q)' PROVE (Live(run[q].seat) /\ CanRun(run[q].seat))'
    <3>1. CASE q = r
      BY <1>4, <1>5, <3>1 DEF CanRun, Live
    <3>2. CASE q # r
      <4>1. Live(run[q].seat) /\ CanRun(run[q].seat) /\ run[q].seat \in SeatId
        BY <1>4, <2>1, <3>2 DEF RunningAuthorized, IsRunning, TypeOK
      <4> QED
        BY <1>4, <1>5, <3>2, <4>1 DEF CanRun, Live
    <3> QED
      BY <3>1, <3>2
  <2> QED
    BY <2>1 DEF RunningAuthorized
<1>9. CoordinatorConsistent'
  BY <1>5 DEF CoordinatorConsistent, TypeOK
<1>10. OneRunPerKey'
  BY <1>4 DEF OneRunPerKey, Unused
<1> QED
  BY <1>6, <1>7, <1>8, <1>9, <1>10

\* Ending or parking the running run of a seat, which becomes idle.
LEMMA EndIInv ==
    ASSUME IInv, TypeOK', NEW r \in RunId, NEW st \in RunStatus,
           st \notin {"none", "running"}, IsRunning(r),
           run' = [run EXCEPT ![r].status = st],
           seat' = [seat EXCEPT ![run[r].seat] = Freed(run[r].seat)],
           UNCHANGED <<coordinator, consent>>
    PROVE  IInv'
<1> USE DEF IInv
<1>1. /\ run'[r].status = st
      /\ \A q \in RunId : /\ run'[q].seat = run[q].seat
                          /\ run'[q].fence = run[q].fence
                          /\ run'[q].key = run[q].key
                          /\ q # r => run'[q].status = run[q].status
  BY DEF TypeOK, RunType
<1>2. run[r].seat \in SeatId /\ seat[run[r].seat].status = "running"
  BY DEF SeatBusyIffRunning, TypeOK, IsRunning
<1>3. /\ seat'[run[r].seat].status = "idle"
      /\ \A t \in SeatId : /\ t # run[r].seat => seat'[t] = seat[t]
                           /\ seat'[t].owner = seat[t].owner
                           /\ seat'[t].lead = seat[t].lead
                           /\ Live(t)' <=> Live(t)
  BY <1>2 DEF TypeOK, SeatType, Live, Freed
<1>4. SeatBusyIffRunning'
  BY <1>1, <1>2, <1>3 DEF SeatBusyIffRunning, IsRunning
<1>5. RunningHoldsLatestFence'
  BY <1>1 DEF RunningHoldsLatestFence, RunsOf, IsRunning
<1>6. RunningAuthorized'
  BY <1>1, <1>3 DEF RunningAuthorized, IsRunning, CanRun, TypeOK
<1>7. CoordinatorConsistent'
  BY <1>3 DEF CoordinatorConsistent, TypeOK
<1>8. OneRunPerKey'
  BY <1>1 DEF OneRunPerKey
<1> QED
  BY <1>4, <1>5, <1>6, <1>7, <1>8

\* What cancelRunsForSeat does under the invariant: no run of s is running
\* afterwards and s is idle; nothing else about the seat or the runs changes.
LEMMA CancelEffect ==
    ASSUME IInv, NEW s \in SeatId
    PROVE  /\ \A q \in RunId :
                /\ RunsCancelled(s)[q].seat = run[q].seat
                /\ RunsCancelled(s)[q].fence = run[q].fence
                /\ RunsCancelled(s)[q].key = run[q].key
                /\ RunsCancelled(s)[q].status = "none" <=> run[q].status = "none"
                /\ RunsCancelled(s)[q].status = "running" <=>
                     run[q].status = "running" /\ run[q].seat # s
           /\ SeatCancelled(s).status # "running"
           /\ SeatCancelled(s).owner = seat[s].owner
           /\ SeatCancelled(s).lead = seat[s].lead
           /\ Live(s) => SeatCancelled(s).status = "idle"
<1>1. \A q \in RunId : run[q] \in RunType
  BY DEF IInv, TypeOK
<1>2. \A q \in RunId :
        LET c == [run[q] EXCEPT !.status = "cancelled"]
        IN  c.seat = run[q].seat /\ c.fence = run[q].fence /\ c.key = run[q].key
            /\ c.status = "cancelled"
  BY <1>1 DEF RunType
<1>3. seat[s] \in SeatType
  BY DEF IInv, TypeOK
<1>4. seat[s].status = "running" <=> \E r \in RunId : run[r].seat = s /\ IsRunning(r)
  BY DEF IInv, SeatBusyIffRunning
<1>5. /\ SeatCancelled(s).status # "running"
      /\ SeatCancelled(s).owner = seat[s].owner
      /\ SeatCancelled(s).lead = seat[s].lead
      /\ Live(s) => SeatCancelled(s).status = "idle"
  BY <1>3, <1>4 DEF SeatCancelled, Freed, SeatType, Live
<1> QED
  BY <1>2, <1>5 DEF RunsCancelled, IsRunning

\* Withdrawing consent or removing a seat: every conjunct that speaks of runs
\* only needs that s has no running run left and no other seat is touched.
LEMMA CancelIInv ==
    ASSUME IInv, TypeOK', NEW s \in SeatId,
           run' = RunsCancelled(s),
           seat'[s].status # "running",
           \A t \in SeatId \ {s} : /\ seat'[t].status = seat[t].status
                                   /\ seat'[t].owner = seat[t].owner
                                   /\ consent'[t] = consent[t]
    PROVE  /\ SeatBusyIffRunning'
           /\ RunningHoldsLatestFence'
           /\ RunningAuthorized'
           /\ OneRunPerKey'
<1>1. \A q \in RunId :
        /\ run'[q].seat = run[q].seat
        /\ run'[q].fence = run[q].fence
        /\ run'[q].key = run[q].key
        /\ run'[q].status = "none" <=> run[q].status = "none"
        /\ run'[q].status = "running" <=> run[q].status = "running" /\ run[q].seat # s
  BY CancelEffect
<1>2. SeatBusyIffRunning'
  BY <1>1 DEF IInv, SeatBusyIffRunning, IsRunning
<1>3. RunningHoldsLatestFence'
  BY <1>1 DEF IInv, RunningHoldsLatestFence, RunsOf, IsRunning
<1>4. RunningAuthorized'
  <2>1. ASSUME NEW q \in RunId, IsRunning(q)' PROVE (Live(run[q].seat) /\ CanRun(run[q].seat))'
    <3>1. /\ Live(run[q].seat) /\ CanRun(run[q].seat)
          /\ run[q].seat \in SeatId \ {s}
      BY <1>1, <2>1 DEF IInv, RunningAuthorized, IsRunning, TypeOK
    <3> QED
      BY <1>1, <3>1 DEF CanRun, Live
  <2> QED
    BY <2>1 DEF RunningAuthorized
<1>5. OneRunPerKey'
  BY <1>1 DEF IInv, OneRunPerKey
<1> QED
  BY <1>2, <1>3, <1>4, <1>5

\* addBotSeat.
LEMMA AddBotIInv ==
    ASSUME IInv, TypeOK', NEW a \in User, NEW s \in SeatId, NEW b \in Bot,
           NEW agreed \in BOOLEAN, AddBot(a, s, b, agreed)
    PROVE  IInv'
<1> USE DEF IInv
<1> DEFINE first == \A t \in SeatId : Live(t) => ~seat[t].lead
<1>1. /\ seat[s].status = "none" /\ run' = run
      /\ seat'[s].status = "idle" /\ (seat'[s].lead <=> first)
      /\ \A t \in SeatId \ {s} : seat'[t] = seat[t] /\ consent'[t] = consent[t]
      /\ coordinator' = IF first THEN s ELSE coordinator
  BY DEF AddBot, TypeOK
<1>2. ~Live(s) /\ s # coordinator /\ ~\E r \in RunId : run[r].seat = s /\ IsRunning(r)
  BY <1>1, NoneAssumption DEF Live, CoordinatorConsistent, SeatBusyIffRunning
<1>3. SeatBusyIffRunning'
  BY <1>1, <1>2 DEF SeatBusyIffRunning, IsRunning
<1>4. RunningHoldsLatestFence' /\ OneRunPerKey'
  BY <1>1 DEF RunningHoldsLatestFence, OneRunPerKey, RunsOf, IsRunning
<1>5. RunningAuthorized'
  <2>1. ASSUME NEW q \in RunId, IsRunning(q)' PROVE (Live(run[q].seat) /\ CanRun(run[q].seat))'
    <3>1. /\ Live(run[q].seat) /\ CanRun(run[q].seat)
          /\ run[q].seat \in SeatId \ {s}
      BY <1>1, <1>2, <2>1 DEF RunningAuthorized, IsRunning, TypeOK
    <3> QED
      BY <1>1, <3>1 DEF CanRun, Live
  <2> QED
    BY <2>1 DEF RunningAuthorized
<1>6. CoordinatorConsistent'
  <2>1. CASE first
    <3>1. coordinator = None
      BY <2>1 DEF CoordinatorConsistent, TypeOK
    <3> QED
      BY <1>1, <2>1, <3>1, NoneAssumption DEF CoordinatorConsistent, Live, TypeOK
  <2>2. CASE ~first
    <3>1. coordinator \in SeatId /\ coordinator # s /\ Live(coordinator)
      BY <1>2, <2>2 DEF CoordinatorConsistent, TypeOK
    <3> QED
      BY <1>1, <2>2, <3>1, NoneAssumption DEF CoordinatorConsistent, Live, TypeOK
  <2> QED
    BY <2>1, <2>2
<1> QED
  BY <1>3, <1>4, <1>5, <1>6

\* setBotOwnerConsent.
LEMMA SetConsentIInv ==
    ASSUME IInv, TypeOK', NEW a \in User, NEW s \in SeatId, NEW agreed \in BOOLEAN,
           SetConsent(a, s, agreed)
    PROVE  IInv'
<1> USE DEF IInv
<1>1. Live(s) /\ UNCHANGED coordinator /\ consent' = [consent EXCEPT ![s] = agreed]
  BY DEF SetConsent
<1>2. CASE agreed
  <2>1. /\ UNCHANGED <<seat, run>> /\ consent'[s]
        /\ \A t \in SeatId : consent[t] => consent'[t]
    BY <1>1, <1>2 DEF SetConsent, TypeOK
  <2>2. RunningAuthorized'
    BY <2>1 DEF RunningAuthorized, IsRunning, Live, CanRun, TypeOK
  <2>3. SeatBusyIffRunning' /\ RunningHoldsLatestFence' /\ OneRunPerKey'
    BY <2>1 DEF SeatBusyIffRunning, RunningHoldsLatestFence, OneRunPerKey, RunsOf, IsRunning
  <2>4. CoordinatorConsistent'
    BY <1>1, <2>1 DEF CoordinatorConsistent, Live
  <2> QED
    BY <2>2, <2>3, <2>4
<1>3. CASE ~agreed
  <2>1. run' = RunsCancelled(s) /\ seat' = [seat EXCEPT ![s] = SeatCancelled(s)]
    BY <1>3 DEF SetConsent
  <2>2. /\ seat'[s].status = "idle" /\ seat'[s].lead = seat[s].lead
        /\ \A t \in SeatId \ {s} : seat'[t] = seat[t] /\ consent'[t] = consent[t]
    BY <1>1, <2>1, CancelEffect DEF TypeOK
  <2>3. SeatBusyIffRunning' /\ RunningHoldsLatestFence' /\ RunningAuthorized' /\ OneRunPerKey'
    BY <2>1, <2>2, CancelIInv
  <2>4. CoordinatorConsistent'
    BY <1>1, <2>2 DEF CoordinatorConsistent, Live, TypeOK
  <2> QED
    BY <2>3, <2>4
<1> QED
  BY <1>2, <1>3

\* removeBotSeat, with the election of a successor when the coordinator goes.
LEMMA RemoveBotIInv ==
    ASSUME IInv, TypeOK', NEW a \in User, NEW s \in SeatId, RemoveBot(a, s)
    PROVE  IInv'
<1> USE DEF IInv
<1> DEFINE gone == [seat[s] EXCEPT !.status = "removed", !.lead = FALSE]
<1>1. run' = RunsCancelled(s) /\ UNCHANGED consent /\ Live(s)
  BY DEF RemoveBot
<1>2. gone.status = "removed" /\ ~gone.lead
  BY DEF TypeOK, SeatType
<1>3. CASE seat[s].lead \/ coordinator = s
  <2>1. PICK t \in SeatId \cup {None} :
          /\ FirstLiveBut(s, t)
          /\ coordinator' = t
          /\ seat' = [u \in SeatId |->
                        IF u = s THEN gone ELSE [seat[u] EXCEPT !.lead = (u = t)]]
    BY <1>3 DEF RemoveBot
  <2>2. /\ seat'[s].status = "removed" /\ ~seat'[s].lead
        /\ \A u \in SeatId \ {s} : /\ seat'[u].status = seat[u].status
                                   /\ seat'[u].owner = seat[u].owner
                                   /\ seat'[u].lead <=> u = t
    <3>1. seat'[s] = gone
      BY <2>1
    <3>2. ASSUME NEW u \in SeatId \ {s}
          PROVE  /\ seat'[u].status = seat[u].status
                 /\ seat'[u].owner = seat[u].owner
                 /\ seat'[u].lead <=> u = t
      <4>1. seat'[u] = [seat[u] EXCEPT !.lead = (u = t)] /\ seat[u] \in SeatType
        BY <2>1 DEF TypeOK
      <4> QED
        BY <4>1 DEF SeatType
    <3> QED
      BY <1>2, <3>1, <3>2
  <2>3. \/ t = None /\ \A u \in SeatId \ {s} : ~Live(u)
        \/ t \in SeatId \ {s} /\ Live(t)
    BY <2>1 DEF FirstLiveBut
  <2>4. CoordinatorConsistent'
    <3>1. \A u \in SeatId : seat'[u].lead <=> u = t
      BY <2>2, <2>3, NoneAssumption
    <3>2. \A u \in SeatId : Live(u)' <=> u # s /\ Live(u)
      BY <2>2 DEF Live
    <3> HIDE DEF gone
    <3> QED
      BY <2>1, <2>3, <3>1, <3>2, NoneAssumption DEF CoordinatorConsistent
  <2> QED
    BY <1>1, <2>2, <2>4, CancelIInv
<1>4. CASE ~(seat[s].lead \/ coordinator = s)
  <2>1. seat' = [seat EXCEPT ![s] = gone] /\ UNCHANGED coordinator
    BY <1>4 DEF RemoveBot
  <2>2. /\ seat'[s].status = "removed" /\ ~seat'[s].lead
        /\ \A u \in SeatId \ {s} : seat'[u] = seat[u]
    BY <1>2, <2>1 DEF TypeOK
  <2>3. coordinator \in SeatId \ {s} /\ Live(coordinator)
    <3>1. coordinator # s
      BY <1>4
    <3>2. coordinator # None
      BY <1>1 DEF CoordinatorConsistent
    <3> QED
      BY <3>1, <3>2 DEF CoordinatorConsistent, TypeOK
  <2>4. CoordinatorConsistent'
    BY <2>1, <2>2, <2>3, NoneAssumption DEF CoordinatorConsistent, Live
  <2> QED
    BY <1>1, <2>2, <2>4, CancelIInv
<1> QED
  BY <1>3, <1>4

\* The invariant is inductive: one step per operation.
LEMMA StepIInv == IInv /\ TypeOK' /\ [Next]_vars => IInv'
<1> SUFFICES ASSUME IInv, TypeOK', [Next]_vars PROVE IInv'
  OBVIOUS
<1>1. CASE UNCHANGED vars
  BY <1>1, FrameIInv DEF vars
<1>2. CASE MemberNext
  <2>1. UNCHANGED <<seat, coordinator, consent, run>>
    BY <1>2 DEF MemberNext, InviteHuman, RemoveHuman, AcceptInvitation, LeaveHuman,
                SetPresence, SetStatus
  <2> QED
    BY <2>1, FrameIInv
<1>3. CASE SeatNext
  BY <1>3, AddBotIInv, SetConsentIInv, RemoveBotIInv DEF SeatNext
<1>4. CASE RunNext
  <2>1. ASSUME NEW a \in User, NEW r \in RunId, NEW s \in SeatId,
               NEW trigger \in BOOLEAN, NEW k \in StartKey \cup {None},
               StartRun(a, s, r, trigger, k)
        PROVE  IInv'
    BY <2>1, BeginIInv DEF StartRun
  <2>2. ASSUME NEW a \in User, NEW r \in RunId, NEW old \in RunId,
               NEW asked \in SeatId \cup {None}, NEW keyed \in BOOLEAN,
               RetryRun(a, old, asked, r, keyed)
        PROVE  IInv'
    <3> DEFINE s == IF asked = None THEN run[old].seat ELSE asked
               k == IF keyed THEN <<old, asked>> ELSE None
    <3>1. s \in SeatId /\ k \in StartKey \cup RetryKey \cup {None}
      BY <2>2 DEF RetryRun, RetryKey, IInv, TypeOK
    <3>2. /\ BeginRun(s, r, TRUE, k) /\ Unused(k) /\ Live(s) /\ CanRun(s)
          /\ seat[s].status # "running" /\ UNCHANGED <<coordinator, consent>>
      BY <2>2 DEF RetryRun
    <3> QED
      BY <3>1, <3>2, BeginIInv
  <2>3. ASSUME NEW a \in User, NEW r \in RunId,
               NEW st \in {"awaiting_peer", "awaiting_user"}, AwaitRun(a, r, st)
        PROVE  IInv'
    BY <2>3, EndIInv DEF AwaitRun, RunStatus
  <2>4. ASSUME NEW a \in User, NEW r \in RunId, NEW st \in Settled, FinishRun(a, r, st)
        PROVE  IInv'
    BY <2>4, EndIInv DEF FinishRun, RunStatus, Settled
  <2> QED
    BY <1>4, <2>1, <2>2, <2>3, <2>4 DEF RunNext
<1> QED
  BY <1>1, <1>2, <1>3, <1>4 DEF Next

\* Every reachable state satisfies the inductive invariant.
THEOREM Invariance == Spec => []IInv
<1>1. IInv /\ [Next]_vars /\ TypeOK' => IInv'
  BY StepIInv
<1> QED
  BY <1>1, InitIInv, TypeCorrect, PTL DEF Spec

\* A seat is marked running exactly while one, and only one, of its runs is
\* running, however starts, retries, parkings, cancellations and removals of
\* any number of seats and runs interleave.
THEOREM SeatBusy == Spec => []SeatBusyIffRunning
BY Invariance, PTL DEF IInv

\* A running run holds the greatest fence of its seat and fences of a seat
\* never repeat.
THEOREM Fencing == Spec => []RunningHoldsLatestFence
BY Invariance, PTL DEF IInv

\* No run is running for a removed seat or without its bot owner's consent.
THEOREM Authorized == Spec => []RunningAuthorized
BY Invariance, PTL DEF IInv

\* The room's coordinator is a live seat, flagged as such, whenever there is
\* one to choose.
THEOREM Coordinated == Spec => []CoordinatorConsistent
BY Invariance, PTL DEF IInv

\* One idempotency key creates at most one run.
THEOREM Idempotent == Spec => []OneRunPerKey
BY Invariance, PTL DEF IInv

\* One step keeps the record of every run that has settled or parked.
LEMMA FrozenStep ==
    TypeOK /\ [Next]_vars =>
        \A r \in RunId : run[r].status \notin {"none", "running"} => run'[r] = run[r]
<1> SUFFICES ASSUME TypeOK, Next
             PROVE  \A r \in RunId :
                      run[r].status \notin {"none", "running"} => run'[r] = run[r]
  BY DEF vars
<1> SUFFICES ASSUME NEW q \in RunId, run[q].status \notin {"none", "running"}
             PROVE  run'[q] = run[q]
  OBVIOUS
<1>1. CASE MemberNext
  BY <1>1 DEF MemberNext, InviteHuman, RemoveHuman, AcceptInvitation, LeaveHuman,
              SetPresence, SetStatus
<1>2. CASE SeatNext
  <2>1. \/ run' = run
        \/ \E s \in SeatId : run' = RunsCancelled(s)
    BY <1>2 DEF SeatNext, AddBot, SetConsent, RemoveBot
  <2> QED
    BY <2>1 DEF RunsCancelled, IsRunning
<1>3. CASE RunNext
  <2>1. PICK r \in RunId :
          \/ run[r].status = "none" /\ \E new : run' = [run EXCEPT ![r] = new]
          \/ run[r].status = "running" /\ \E st : run' = [run EXCEPT ![r].status = st]
    <3>1. ASSUME NEW a \in User, NEW r \in RunId, NEW s, NEW trigger, NEW k,
                 BeginRun(s, r, trigger, k)
          PROVE  run[r].status = "none" /\ \E new : run' = [run EXCEPT ![r] = new]
      BY <3>1 DEF BeginRun
    <3>2. ASSUME NEW a \in User, NEW r \in RunId, NEW st,
                 AwaitRun(a, r, st) \/ FinishRun(a, r, st)
          PROVE  run[r].status = "running" /\ \E t : run' = [run EXCEPT ![r].status = t]
      BY <3>2 DEF AwaitRun, FinishRun, IsRunning
    <3>3. PICK a \in User, r \in RunId :
            \/ \E s \in SeatId, trigger \in BOOLEAN, k \in StartKey \cup {None} :
                 StartRun(a, s, r, trigger, k)
            \/ \E old \in RunId, asked \in SeatId \cup {None}, keyed \in BOOLEAN :
                 RetryRun(a, old, asked, r, keyed)
            \/ \E st : AwaitRun(a, r, st) \/ FinishRun(a, r, st)
      BY <1>3 DEF RunNext
    <3>4. \/ \E s, trigger, k : BeginRun(s, r, trigger, k)
          \/ \E st : AwaitRun(a, r, st) \/ FinishRun(a, r, st)
      BY <3>3 DEF StartRun, RetryRun
    <3> QED
      BY <3>1, <3>2, <3>4
  <2>2. r # q
    BY <2>1
  <2> QED
    BY <2>1, <2>2 DEF TypeOK
<1> QED
  BY <1>1, <1>2, <1>3 DEF Next

\* A run that exists goes on existing, for the same seat and under its key.
LEMMA RunStays ==
    TypeOK /\ [Next]_vars =>
        \A r \in RunId : run[r].status # "none" =>
            /\ run'[r].status # "none"
            /\ run'[r].seat = run[r].seat /\ run'[r].key = run[r].key
<1> SUFFICES ASSUME TypeOK, Next, NEW q \in RunId, run[q].status # "none"
             PROVE  /\ run'[q].status # "none"
                    /\ run'[q].seat = run[q].seat /\ run'[q].key = run[q].key
  BY DEF vars
<1> USE DEF TypeOK
<1>1. CASE MemberNext
  BY <1>1 DEF MemberNext, InviteHuman, RemoveHuman, AcceptInvitation, LeaveHuman,
              SetPresence, SetStatus
<1>2. CASE SeatNext
  <2>1. \/ run' = run
        \/ \E s \in SeatId : run' = RunsCancelled(s)
    BY <1>2 DEF SeatNext, AddBot, SetConsent, RemoveBot
  <2> QED
    BY <2>1 DEF RunsCancelled, RunType
<1>3. CASE RunNext
  <2>1. PICK a \in User, r \in RunId :
          \/ \E s \in SeatId, trigger \in BOOLEAN, k \in StartKey \cup {None} :
               StartRun(a, s, r, trigger, k)
          \/ \E old \in RunId, asked \in SeatId \cup {None}, keyed \in BOOLEAN :
               RetryRun(a, old, asked, r, keyed)
          \/ \E st \in {"awaiting_peer", "awaiting_user"} \cup Settled :
               AwaitRun(a, r, st) \/ FinishRun(a, r, st)
    BY <1>3 DEF RunNext
  <2>2. CASE \E s, trigger, k : BeginRun(s, r, trigger, k)
    BY <2>2 DEF BeginRun
  <2>3. CASE \E st \in {"awaiting_peer", "awaiting_user"} \cup Settled :
               AwaitRun(a, r, st) \/ FinishRun(a, r, st)
    <3>1. PICK st \in {"awaiting_peer", "awaiting_user"} \cup Settled :
            run' = [run EXCEPT ![r].status = st]
      BY <2>3 DEF AwaitRun, FinishRun
    <3>2. st # "none" /\ run[q] \in RunType
      BY DEF Settled
    <3> QED
      BY <3>1, <3>2 DEF RunType
  <2> QED
    BY <2>1, <2>2, <2>3 DEF StartRun, RetryRun
<1> QED
  BY <1>1, <1>2, <1>3 DEF Next

\* No operation changes a run that has settled or parked.
THEOREM Frozen == Spec => SettledRunsFrozen
<1>1. TypeOK /\ [Next]_vars =>
        [\A r \in RunId : run[r].status \notin {"none", "running"} => run'[r] = run[r]]_vars
  BY FrozenStep
<1> QED
  BY <1>1, TypeCorrect, PTL DEF Spec, SettledRunsFrozen

=============================================================================
