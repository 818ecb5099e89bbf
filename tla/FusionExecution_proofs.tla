------------------------ MODULE FusionExecution_proofs ------------------------
(* Proofs about FusionExecution for every set of seats, runs, messages,     *)
(* envelopes and approvals and any number of crashes.                       *)
EXTENDS FusionExecution, FusionMailbox_proofs

-----------------------------------------------------------------------------
(* What the operations on runs do to the runs. *)

\* A start creates one running run, of the seat and key it was asked for.
LEMMA StartEffect ==
    ASSUME TypeOK, NEW a \in User, NEW s \in SeatId, NEW r \in RunId, NEW k,
           StartRun(a, s, r, TRUE, k)
    PROVE  /\ run[r].status = "none" /\ run'[r].status = "running" /\ run'[r].key = k
           /\ \A q \in RunId : q # r => run'[q] = run[q]
BY DEF StartRun, BeginRun, TypeOK

\* So does a retry, under a key that no job has.
LEMMA RetryEffect ==
    ASSUME TypeOK, NEW a \in User, NEW old \in RunId, NEW r \in RunId,
           RetryRun(a, old, None, r, TRUE)
    PROVE  /\ run[old].status # "none"
           /\ run[r].status = "none" /\ run'[r].status = "running" /\ run'[r].key \notin Job
           /\ \A q \in RunId : q # r => run'[q] = run[q]
<1>1. <<old, None>> \notin Job
  BY KeyAssumption, JobAssumption DEF RetryKey
<1> QED
  BY <1>1 DEF RetryRun, BeginRun, TypeOK

\* Parking or finishing changes the status of the one running run.
LEMMA EndEffect ==
    ASSUME TypeOK, NEW a \in User, NEW r \in RunId, NEW st,
           AwaitRun(a, r, st) \/ FinishRun(a, r, st)
    PROVE  /\ IsRunning(r) /\ run'[r].status = st /\ run'[r].key = run[r].key
           /\ \A q \in RunId : q # r => run'[q] = run[q]
BY DEF AwaitRun, FinishRun, TypeOK, RunType

\* Withdrawing consent cancels running runs.
LEMMA ConsentEffect ==
    ASSUME TypeOK, NEW a \in User, NEW s \in SeatId, NEW agreed \in BOOLEAN,
           SetConsent(a, s, agreed)
    PROVE  \A q \in RunId :
              /\ run'[q].key = run[q].key
              /\ run'[q] = run[q] \/ (IsRunning(q) /\ run'[q].status = "cancelled")
<1>1. run' = run \/ run' = RunsCancelled(s)
  BY DEF SetConsent
<1>2. \A q \in RunId : /\ [run[q] EXCEPT !.status = "cancelled"].key = run[q].key
                       /\ [run[q] EXCEPT !.status = "cancelled"].status = "cancelled"
  BY DEF TypeOK, RunType
<1> QED
  BY <1>1, <1>2 DEF RunsCancelled

-----------------------------------------------------------------------------
(* The calls a tick has still to make. *)

\* What a call names exists and is what the call is for, as long as the
\* call is due or its item waits in the drain.
GoodCall(j) ==
    /\ Why(j) \in {"mailbox", "redeliver"} => What(j) \in Env /\ Sent(What(j))
    /\ Why(j) = "approval" => What(j) \in Approval /\ approval[What(j)].status # "none"
    /\ Why(j) = "resume" =>
          What(j) \in RunId /\ What(j) \in confirmed /\ run[What(j)].status = "blocked"
    /\ Why(j) = "park" => \/ What(j) \in Env /\ Question(What(j))
                          \/ What(j) \in Approval /\ approval[What(j)].status # "none"

\* A call is the three things it was made from.
LEMMA CallParts ==
    \A w, x, s : Why(For(w, x, s)) = w /\ What(For(w, x, s)) = x /\ To(For(w, x, s)) = s
BY DEF Why, What, To, For

\* The jobs and calls by their kinds.
LEMMA JobsMade ==
    ASSUME NEW s \in SeatId
    PROVE  /\ \A m \in Msg : For("message", m, s) \in Job
           /\ \A e \in Env : For("mailbox", e, s) \in Job /\ For("redeliver", e, s) \in Job
           /\ \A p \in Approval : For("approval", p, s) \in Job
           /\ \A r \in RunId : For("resume", r, s) \in Job /\ For("finish", r, s) \in Call
           /\ \A x \in Env \cup Approval : For("park", x, s) \in Call
BY DEF For, Job, Call

\* A job names what its kind says, and a seat.
LEMMA JobParts ==
    ASSUME NEW j \in Job
    PROVE  /\ To(j) \in SeatId
           /\ Why(j) \in {"message", "mailbox", "redeliver", "approval", "resume"}
           /\ Why(j) = "message" => What(j) \in Msg
           /\ Why(j) \in {"mailbox", "redeliver"} => What(j) \in Env
           /\ Why(j) = "approval" => What(j) \in Approval
           /\ Why(j) = "resume" => What(j) \in RunId
BY DEF Why, What, To, Job

-----------------------------------------------------------------------------
(* The inductive invariant. *)

Parked(r) == run[r].status \in {"awaiting_peer", "awaiting_user"}

ParkReason(r) ==
    /\ run[r].status = "awaiting_peer" => \E e \in Env : Question(e) /\ env[e].cause = r
    /\ run[r].status = "awaiting_user" =>
          \E p \in Approval : approval[p].status # "none" /\ approval[p].run = r

\* From the end of the recovery until a close, a running run has a turn.
RunningHasTurn ==
    phase \in {"up", "draining"} => \A r \in RunId : IsRunning(r) => r \in turn

ExecInv ==
    /\ ExecTypeOK
    /\ \A j \in due \cup items : GoodCall(j)
    /\ RunningHasTurn
    /\ \A r \in turn : run[r].status # "none"
    /\ \A r \in RunId : ParkReason(r)
    /\ BlockedNeedsUser
    /\ \A e \in Env \cap confirmed : Sent(e)

\* The room moves as FusionAuthority and FusionMailbox say, or not at all.
MailMove == EnvelopeNext \/ ApprovalNext \/ UNCHANGED mailVars

\* What is shown of every step.
ExecStep == ExecInv' /\ [Next]_vars /\ MailMove

\* What the room's and the mailbox's steps keep.
LEMMA Kept ==
    ASSUME TypeOK, MailInv, [Next]_vars, MailMove
    PROVE  /\ MailKept
           /\ \A e \in Env : Question(e) => Question(e)'
           /\ \A r \in RunId :
                 /\ run[r].status # "none" => run'[r].status # "none" /\ run'[r].key = run[r].key
                 /\ run[r].status = "blocked" => run'[r].status = "blocked"
<1>1. MailKept
  <2>1. CASE UNCHANGED mailVars
    BY <2>1 DEF mailVars, MailKept
  <2> QED
    BY <2>1, FinalStep DEF MailMove
<1>2. \A e \in Env : Question(e) => Question(e)'
  BY <1>1 DEF MailKept, Question, Sent
<1>3. \A r \in RunId : run[r].status = "blocked" => run'[r].status = "blocked"
  BY FrozenStep
<1> QED
  BY <1>1, <1>2, <1>3, RunStays

\* What is due stays in order while the room moves.
LEMMA CallsStay ==
    ASSUME TypeOK, MailInv, [Next]_vars, MailMove, confirmed \subseteq confirmed'
    PROVE  \A j : GoodCall(j) => GoodCall(j)'
<1>1. \A e \in Env : Sent(e) => Sent(e)'
  BY Kept DEF MailKept, Sent
<1>2. \A p \in Approval : approval[p].status # "none" => approval'[p].status # "none"
  BY Kept DEF MailKept
<1> QED
  BY <1>1, <1>2, Kept DEF GoodCall, Why, What

\* The invariant is kept by a step of the room that adds good calls only,
\* parks a run for a reason, gives a new run the key of a call that was due,
\* and a running run a turn.
LEMMA ExecFrame ==
    ASSUME TypeOK, MailInv, ExecInv, ExecTypeOK', [Next]_vars, MailMove,
           confirmed \subseteq confirmed',
           \A e \in Env : e \in confirmed' => e \in confirmed \/ Sent(e)',
           \A j \in due' \cup items' : j \in due \cup items \/ GoodCall(j)',
           \A r \in RunId : Parked(r)' => run'[r].status = run[r].status \/ ParkReason(r)',
           \A r \in RunId : \/ run'[r].key = run[r].key
                            \/ run'[r].key \notin Job
                            \/ run'[r].key \in due,
           \A r \in turn' : r \in turn \/ run'[r].status # "none",
           RunningHasTurn'
    PROVE  ExecStep
<1>1. \A j \in due' \cup items' : GoodCall(j)'
  BY CallsStay DEF ExecInv
<1>2. \A r \in RunId : ParkReason(r)'
  <2> SUFFICES ASSUME NEW r \in RunId, Parked(r)', run'[r].status = run[r].status
               PROVE  ParkReason(r)'
    BY DEF ParkReason, Parked
  <2>1. ParkReason(r)
    BY DEF ExecInv
  <2>2. ASSUME NEW e \in Env, Question(e), env[e].cause = r
        PROVE  Question(e)' /\ env'[e].cause = r
    BY <2>2, Kept DEF MailKept, Question, Sent
  <2>3. ASSUME NEW p \in Approval, approval[p].status # "none", approval[p].run = r
        PROVE  approval'[p].status # "none" /\ approval'[p].run = r
    BY <2>3, Kept DEF MailKept
  <2> QED
    BY <2>1, <2>2, <2>3 DEF ParkReason, Parked
<1>3. BlockedNeedsUser'
  <2> SUFFICES ASSUME NEW q \in RunId, NEW r \in RunId, NEW s \in SeatId,
                      run'[r].key = For("resume", q, s)
               PROVE  q \in confirmed' /\ run'[q].status = "blocked"
    BY DEF BlockedNeedsUser
  <2>1. For("resume", q, s) \in Job
    BY JobsMade
  <2>2. CASE run'[r].key = run[r].key
    BY <2>2, Kept DEF ExecInv, BlockedNeedsUser
  <2>3. CASE run'[r].key \in due
    BY <2>3, Kept, CallParts DEF ExecInv, GoodCall
  <2> QED
    BY <2>1, <2>2, <2>3
<1>4. \A e \in Env \cap confirmed' : Sent(e)'
  BY Kept DEF ExecInv, MailKept, Sent
<1>5. \A r \in turn' : run'[r].status # "none"
  BY Kept DEF ExecInv, ExecTypeOK
<1> QED
  BY <1>1, <1>2, <1>3, <1>4, <1>5 DEF ExecInv, ExecStep

\* The common case: no run changes.
LEMMA QuietFrame ==
    ASSUME TypeOK, MailInv, ExecInv, UNCHANGED vars, MailMove,
           source' = source, target' \in [Msg -> SUBSET SeatId],
           confirmed \subseteq confirmed', confirmed' \subseteq RunId \cup Env,
           \A e \in Env : e \in confirmed' => e \in confirmed \/ Sent(e)',
           posted' \subseteq RunId, crashes' \in 0..MaxCrashes,
           processed' \subseteq Job, stored' \subseteq Job, phase' \in Phase,
           turn' \subseteq turn, due' \subseteq Job \cup Call, items' \subseteq Job,
           \A j \in due' \cup items' : j \in due \cup items \/ GoodCall(j)',
           RunningHasTurn'
    PROVE  ExecStep
<1>1. run' = run /\ [Next]_vars
  BY DEF vars
<1>2. ExecTypeOK'
  BY <1>1 DEF ExecInv, ExecTypeOK
<1> QED
  BY <1>1, <1>2, ExecFrame DEF Parked

-----------------------------------------------------------------------------
(* What users do. *)

\* A message is given to seats of the room.
LEMMA PostExec ==
    ASSUME TypeOK, MailInv, ExecInv, NEW u \in User, NEW m \in Msg,
           (\E seats \in SUBSET SeatId : PostMessage(u, m, seats)) \/ RepostMessage(u, m)
    PROVE  ExecStep
<1>1. PICK seats \in SUBSET SeatId :
        /\ UNCHANGED <<roomVars, phase, turn, source, confirmed, posted, workerVars, crashes>>
        /\ due' \subseteq {For("message", m, s) : s \in seats}
        /\ target' \in [Msg -> SUBSET SeatId]
  <2>1. CASE RepostMessage(u, m)
    BY <2>1 DEF RepostMessage, Handled, ExecInv, ExecTypeOK
  <2>2. ASSUME NEW seats \in SUBSET SeatId, PostMessage(u, m, seats)
        PROVE  /\ UNCHANGED <<roomVars, phase, turn, source, confirmed, posted, workerVars,
                              crashes>>
               /\ due' \subseteq {For("message", m, s) : s \in seats}
               /\ target' \in [Msg -> SUBSET SeatId]
    BY <2>2 DEF PostMessage, Handled, ExecInv, ExecTypeOK
  <2> QED
    BY <2>1, <2>2
<1>2. due' \subseteq Job /\ \A j \in due' : GoodCall(j)'
  BY <1>1, JobsMade, CallParts DEF GoodCall
<1>3. UNCHANGED vars /\ MailMove
  BY <1>1 DEF roomVars, MailMove
<1> QED
  BY <1>1, <1>2, <1>3, QuietFrame
  DEF roomVars, vars, workerVars, ExecInv, ExecTypeOK, RunningHasTurn, IsRunning

\* A request that is resolved, now or before, wakes the run that made it.
LEMMA ResolveExec ==
    ASSUME TypeOK, MailInv, ExecInv, NEW u \in User, NEW p \in Approval,
           NEW decision \in {"approved", "denied"}, Resolve(u, p, decision)
    PROVE  ExecStep
<1> DEFINE s == run[approval[p].run].seat
<1>1. /\ approval[p].status # "none" /\ UNCHANGED vars /\ MailMove
      /\ due' \subseteq {For("approval", p, s)}
      /\ UNCHANGED <<phase, turn, source, target, confirmed, posted, workerVars, crashes>>
  <2>1. CASE approval[p].status = "pending"
    BY <2>1 DEF Resolve, ResolveUserApproval, MailMove, ApprovalNext, Handled
  <2>2. CASE approval[p].status # "pending"
    BY <2>2 DEF Resolve, MailMove, roomVars, Handled
  <2> QED
    BY <2>1, <2>2
<1>2. s \in SeatId
  BY <1>1 DEF MailInv, ApprovalRefers, TypeOK
<1>3. approval'[p].status # "none"
  BY <1>1, Kept DEF MailKept
<1> HIDE DEF s
<1>4. due' \subseteq Job /\ \A j \in due' : GoodCall(j)'
  BY <1>1, <1>2, <1>3, JobsMade, CallParts DEF GoodCall
<1> QED
  BY <1>1, <1>4, QuietFrame
  DEF vars, workerVars, ExecInv, ExecTypeOK, RunningHasTurn, IsRunning

\* A blocked run is resumed once a user has confirmed it.
LEMMA ConfirmRunExec ==
    ASSUME TypeOK, MailInv, ExecInv, NEW u \in User, NEW r \in RunId, ConfirmBlockedRun(u, r)
    PROVE  ExecStep
<1>1. /\ run[r].status = "blocked" /\ UNCHANGED vars /\ MailMove
      /\ due' \subseteq {For("resume", r, run[r].seat)} /\ confirmed' = confirmed \cup {r}
      /\ UNCHANGED <<phase, turn, source, target, posted, workerVars, crashes>>
  BY DEF ConfirmBlockedRun, roomVars, MailMove, Handled
<1>2. run[r].seat \in SeatId /\ run' = run
  BY <1>1 DEF TypeOK, vars
<1>3. due' \subseteq Job /\ \A j \in due' : GoodCall(j)'
  BY <1>1, <1>2, JobsMade, CallParts DEF GoodCall
<1> QED
  BY <1>1, <1>3, QuietFrame, IdAssumption
  DEF vars, workerVars, ExecInv, ExecTypeOK, RunningHasTurn, IsRunning

\* Only a sent envelope has a delivery.
LEMMA OutboxIsSent == MailInv => \A e \in Env : env[e].delivery = "outbox" => Sent(e)
BY DEF MailInv, MailTypeOK, Sent

\* An envelope that was confirmed stays sent.
LEMMA ConfirmEnvelopeExec ==
    ASSUME TypeOK, MailInv, ExecInv, NEW u \in User, NEW e \in Env,
           ConfirmEnvelope(u, e)
    PROVE  ExecStep
<1>1. /\ Sent(e) /\ UNCHANGED vars /\ MailMove
      /\ due' \subseteq {For("redeliver", e, env[e].to)} /\ confirmed' = confirmed \cup {e}
      /\ UNCHANGED <<phase, turn, source, target, posted, workerVars, crashes>>
  <2>1. CASE e \in confirmed
    BY <2>1 DEF ConfirmEnvelope, ExecInv, roomVars, MailMove, Handled
  <2>2. CASE e \notin confirmed
    BY <2>2, OutboxIsSent DEF ConfirmEnvelope, ConfirmOutbox, MailMove, EnvelopeNext, Handled
  <2> QED
    BY <2>1, <2>2
<1>2. env[e].to \in SeatId /\ Sent(e)'
  BY <1>1, Kept DEF MailInv, EnvelopeRefers, MailKept, Sent
<1>3. due' \subseteq Job /\ \A j \in due' : GoodCall(j)'
  BY <1>1, <1>2, JobsMade, CallParts DEF GoodCall
<1> QED
  BY <1>1, <1>2, <1>3, QuietFrame
  DEF vars, workerVars, ExecInv, ExecTypeOK, RunningHasTurn, IsRunning

\* A new run has a source, and the others keep theirs.
LEMMA SourceOfNew ==
    ASSUME TypeOK, ExecInv, NEW r \in RunId, NEW m \in Msg, source' = [source EXCEPT ![r] = m],
           run'[r].status # "none",
           \A q \in RunId : q # r => run'[q] = run[q]
    PROVE  /\ source' \in [RunId -> Msg \cup {None}]
           /\ \A q \in RunId : source'[q] = None <=> run'[q].status = "none"
BY IdAssumption DEF ExecInv, ExecTypeOK

\* Ending runs leaves the sources as they are.
LEMMA SourceOfOld ==
    ASSUME TypeOK, ExecInv, [Next]_vars, source' = source,
           \A q \in RunId : run[q].status = "none" => run'[q].status = "none"
    PROVE  /\ source' \in [RunId -> Msg \cup {None}]
           /\ \A q \in RunId : source'[q] = None <=> run'[q].status = "none"
BY RunStays DEF ExecInv, ExecTypeOK

\* A retry makes a run that is executed at once.
LEMMA RetryExec ==
    ASSUME TypeOK, MailInv, ExecInv, NEW u \in User, NEW old \in RunId, NEW r \in RunId,
           Retry(u, old, r)
    PROVE  ExecStep
<1>1. /\ RetryRun(u, old, None, r, TRUE) /\ source' = [source EXCEPT ![r] = source[old]]
      /\ turn' = IF phase = "up" THEN turn \cup {r} ELSE turn
      /\ Serving
      /\ UNCHANGED <<mailVars, phase, due, target, confirmed, posted, workerVars, crashes>>
  BY DEF Retry, Idle
<1>2. /\ run[old].status # "none" /\ run[r].status = "none" /\ run'[r].status = "running"
      /\ run'[r].key \notin Job /\ \A q \in RunId : q # r => run'[q] = run[q]
  BY <1>1, RetryEffect
<1>3. source[old] \in Msg
  BY <1>2 DEF ExecInv, ExecTypeOK
<1>4. ExecTypeOK'
  BY <1>1, <1>2, <1>3, SourceOfNew DEF ExecInv, ExecTypeOK, workerVars
<1>5. [Next]_vars /\ MailMove
  BY <1>1 DEF Next, RunNext, MailMove
<1>6. RunningHasTurn'
  BY <1>1, <1>2 DEF Serving, ExecInv, RunningHasTurn, IsRunning
<1> QED
  BY <1>1, <1>2, <1>4, <1>5, <1>6, ExecFrame DEF Parked, workerVars

\* Steps that only end runs, for whatever reason.
LEMMA EndsExec ==
    ASSUME TypeOK, MailInv, ExecInv, [Next]_vars, UNCHANGED mailVars,
           \A q \in RunId : /\ run'[q].key = run[q].key
                            /\ \/ run'[q] = run[q]
                               \/ IsRunning(q) /\ run'[q].status \in Settled,
           UNCHANGED <<phase, source, target, confirmed, posted, workerVars, crashes>>,
           due' \subseteq due, turn' \subseteq turn,
           phase \in {"up", "draining"} =>
              \A q \in RunId : IsRunning(q)' /\ q \in turn => q \in turn'
    PROVE  ExecStep
<1>1. ExecTypeOK'
  <2>1. \A q \in RunId : run[q].status = "none" => run'[q].status = "none"
    BY DEF IsRunning
  <2> QED
    BY <2>1, SourceOfOld DEF ExecInv, ExecTypeOK, workerVars
<1>2. RunningHasTurn'
  BY DEF ExecInv, RunningHasTurn, IsRunning, Settled
<1>3. \A q \in RunId : Parked(q)' => run'[q].status = run[q].status
  BY DEF Parked, Settled
<1> QED
  BY <1>1, <1>2, <1>3, ExecFrame DEF MailMove, workerVars

\* A user cancels a run or an owner decides about his bot.
LEMMA CancelExec ==
    ASSUME TypeOK, MailInv, ExecInv, NEW u \in User,
           \/ \E r \in RunId : Cancel(u, r)
           \/ \E s \in SeatId, agreed \in BOOLEAN : Consent(u, s, agreed)
    PROVE  ExecStep
<1>1. ASSUME NEW r \in RunId, Cancel(u, r) PROVE ExecStep
  <2>1. /\ FinishRun(u, r, "cancelled")
        /\ UNCHANGED <<mailVars, phase, due, turn, source, target, confirmed, posted,
                       workerVars, crashes>>
    BY <1>1 DEF Cancel
  <2>2. [Next]_vars
    BY <2>1 DEF Next, RunNext, Settled
  <2>3. \A q \in RunId : /\ run'[q].key = run[q].key
                         /\ \/ run'[q] = run[q]
                            \/ IsRunning(q) /\ run'[q].status \in Settled
    BY <2>1, EndEffect DEF Settled
  <2> QED
    BY <2>1, <2>2, <2>3, EndsExec
<1>2. ASSUME NEW s \in SeatId, NEW agreed \in BOOLEAN, Consent(u, s, agreed) PROVE ExecStep
  <2>1. /\ SetConsent(u, s, agreed)
        /\ UNCHANGED <<mailVars, phase, due, turn, source, target, confirmed, posted,
                       workerVars, crashes>>
    BY <1>2 DEF Consent
  <2>2. [Next]_vars
    BY <2>1 DEF Next, SeatNext
  <2>3. \A q \in RunId : /\ run'[q].key = run[q].key
                         /\ \/ run'[q] = run[q]
                            \/ IsRunning(q) /\ run'[q].status \in Settled
    BY <2>1, ConsentEffect DEF Settled
  <2> QED
    BY <2>1, <2>2, <2>3, EndsExec
<1> QED
  BY <1>1, <1>2

-----------------------------------------------------------------------------
(* Starting and dropping what is due. *)

\* Whatever a job is for, it leads back to a user's message.
LEMMA SourceExists ==
    ASSUME TypeOK, MailInv, ExecInv, NEW j \in Job, GoodCall(j)
    PROVE  SourceOf(j) \in Msg
<1>1. \A r \in RunId : run[r].status # "none" => source[r] \in Msg
  BY DEF ExecInv, ExecTypeOK
<1>2. CASE Why(j) = "message"
  BY <1>2, JobParts DEF SourceOf
<1>3. CASE Why(j) \in {"mailbox", "redeliver"}
  BY <1>3 DEF SourceOf, GoodCall, MailInv, EnvelopeRefers
<1>4. CASE Why(j) = "approval"
  BY <1>1, <1>4 DEF SourceOf, GoodCall, MailInv, ApprovalRefers
<1>5. CASE Why(j) = "resume"
  BY <1>1, <1>5 DEF SourceOf, GoodCall
<1> QED
  BY <1>2, <1>3, <1>4, <1>5, JobParts

\* A start gives the run a turn, the key of its job and a source.
LEMMA StartExec ==
    ASSUME TypeOK, MailInv, ExecInv, NEW j \in Job, NEW r \in RunId, Start(j, r)
    PROVE  ExecStep
<1>1. /\ j \in due /\ StartRun(Owner, To(j), r, TRUE, j)
      /\ source' = [source EXCEPT ![r] = SourceOf(j)]
      /\ turn' = turn \cup {r} /\ due' = due \ {j}
      /\ UNCHANGED <<mailVars, phase, target, confirmed, posted, workerVars, crashes>>
  BY DEF Start
<1>2. /\ To(j) \in SeatId /\ Owner \in User /\ j \in StartKey
  BY JobParts, JobAssumption, OwnerAssumption
<1>3. /\ run[r].status = "none" /\ run'[r].status = "running" /\ run'[r].key = j
      /\ \A q \in RunId : q # r => run'[q] = run[q]
  BY <1>1, <1>2, StartEffect
<1>4. SourceOf(j) \in Msg
  BY <1>1, SourceExists DEF ExecInv
<1>5. ExecTypeOK'
  <2>1. /\ source' \in [RunId -> Msg \cup {None}]
        /\ \A q \in RunId : source'[q] = None <=> run'[q].status = "none"
    BY <1>1, <1>3, <1>4, SourceOfNew
  <2> QED
    BY <1>1, <2>1 DEF ExecInv, ExecTypeOK, workerVars
<1>6. [Next]_vars /\ MailMove
  BY <1>1, <1>2 DEF Next, RunNext, MailMove
<1>7. RunningHasTurn'
  BY <1>1, <1>3 DEF ExecInv, RunningHasTurn, IsRunning
<1> QED
  BY <1>1, <1>3, <1>5, <1>6, <1>7, ExecFrame DEF Parked, workerVars

\* What cannot start is forgotten.
LEMMA DropExec ==
    ASSUME TypeOK, MailInv, ExecInv, NEW j \in Job, Drop(j)
    PROVE  ExecStep
<1>1. /\ due' = due \ {j} /\ UNCHANGED vars /\ MailMove
      /\ UNCHANGED <<phase, turn, source, target, confirmed, posted, workerVars, crashes>>
  BY DEF Drop, roomVars, MailMove
<1> QED
  BY <1>1, QuietFrame
  DEF vars, workerVars, ExecInv, ExecTypeOK, RunningHasTurn, IsRunning

-----------------------------------------------------------------------------
(* What turns do. *)

\* A tool call that moves the mailbox and leaves good calls behind.
LEMMA ToolFrame ==
    ASSUME TypeOK, MailInv, ExecInv, UNCHANGED vars, MailMove,
           due' \subseteq Job \cup Call, \A j \in due' : GoodCall(j)',
           UNCHANGED <<phase, turn, source, target, confirmed, posted, workerVars, crashes>>
    PROVE  ExecStep
BY QuietFrame DEF vars, workerVars, ExecInv, ExecTypeOK, RunningHasTurn, IsRunning

\* An envelope that is sent is there, of the kind it was sent as.
LEMMA SendEffect ==
    ASSUME MailInv, ExecInv, NEW r \in RunId, NEW to \in SeatId, NEW e \in Env,
           NEW kind \in {"message", "question"},
           SendMailbox(Owner, r, to, kind, e, source[r])
    PROVE  MailMove /\ UNCHANGED vars /\ env'[e].kind = kind
<1>1. source[r] \in Msg
  BY DEF SendMailbox, IsRunning, ExecInv, ExecTypeOK
<1>2. MailMove
  BY <1>1, OwnerAssumption DEF MailMove, EnvelopeNext
<1> QED
  BY <1>2 DEF SendMailbox, MailInv, MailTypeOK

\* The host tools: the sent envelope or request is there for what is due.
LEMMA ToolExec ==
    ASSUME TypeOK, MailInv, ExecInv, ToolNext
    PROVE  ExecStep
<1>1. ASSUME NEW r \in RunId, NEW to \in SeatId, NEW e \in Env, RoomSend(r, to, e)
      PROVE  ExecStep
  <2>1. UNCHANGED vars /\ MailMove /\ env'[e].kind = "message"
    BY <1>1, SendEffect DEF RoomSend
  <2>2. /\ due' \subseteq {For("mailbox", e, to)}
        /\ UNCHANGED <<phase, turn, source, target, confirmed, posted, workerVars, crashes>>
    BY <1>1 DEF RoomSend, Handled
  <2>3. due' \subseteq Job \cup Call /\ \A j \in due' : GoodCall(j)'
    BY <2>1, <2>2, JobsMade, CallParts DEF GoodCall, Sent
  <2> QED
    BY <2>1, <2>2, <2>3, ToolFrame
<1>2. ASSUME NEW r \in RunId, NEW to \in SeatId, NEW e \in Env, RoomAsk(r, to, e)
      PROVE  ExecStep
  <2>1. UNCHANGED vars /\ MailMove /\ env'[e].kind = "question"
    BY <1>2, SendEffect DEF RoomAsk
  <2>2. /\ due' = {For("park", e, run[r].seat)} /\ run[r].seat \in SeatId
        /\ UNCHANGED <<phase, turn, source, target, confirmed, posted, workerVars, crashes>>
    BY <1>2 DEF RoomAsk, CanCallTools, IsRunning, TypeOK
  <2>3. due' \subseteq Job \cup Call /\ \A j \in due' : GoodCall(j)'
    BY <2>1, <2>2, JobsMade, CallParts DEF GoodCall, Question
  <2> QED
    BY <2>1, <2>2, <2>3, ToolFrame
<1>3. ASSUME NEW r \in RunId, NEW q \in Env, NEW e \in Env, RoomReply(r, q, e)
      PROVE  ExecStep
  <2> DEFINE s == run[env[q].cause].seat
  <2>1. /\ ReplyMailbox(Owner, q, r, e) /\ due' \subseteq {For("mailbox", e, s)}
        /\ UNCHANGED <<phase, turn, source, target, confirmed, posted, workerVars, crashes>>
    BY <1>3 DEF RoomReply, Handled
  <2>2. s \in SeatId
    BY <2>1 DEF ReplyMailbox, Question, MailInv, EnvelopeRefers, Sent, TypeOK
  <2>3. UNCHANGED vars /\ MailMove /\ env'[e].kind = "reply"
    BY <2>1, OwnerAssumption DEF ReplyMailbox, MailMove, EnvelopeNext, MailInv, MailTypeOK
  <2> HIDE DEF s
  <2>4. due' \subseteq Job \cup Call /\ \A j \in due' : GoodCall(j)'
    BY <2>1, <2>2, <2>3, JobsMade, CallParts DEF GoodCall, Sent
  <2> QED
    BY <2>1, <2>3, <2>4, ToolFrame
<1>4. ASSUME NEW r \in RunId, NEW e \in Env, RoomSendAgain(r, e)
      PROVE  ExecStep
  <2>1. /\ Sent(e) /\ UNCHANGED vars /\ UNCHANGED env /\ MailMove
        /\ due' \subseteq {For("mailbox", e, env[e].to)}
        /\ UNCHANGED <<phase, turn, source, target, confirmed, posted, workerVars, crashes>>
    BY <1>4 DEF RoomSendAgain, roomVars, mailVars, MailMove, Handled, Sent
  <2>2. env[e].to \in SeatId
    BY <2>1 DEF MailInv, EnvelopeRefers
  <2>3. due' \subseteq Job \cup Call /\ \A j \in due' : GoodCall(j)'
    BY <2>1, <2>2, JobsMade, CallParts DEF GoodCall, Sent
  <2> QED
    BY <2>1, <2>3, ToolFrame
<1>5. ASSUME NEW r \in RunId, NEW p \in Approval, RoomRequestUser(r, p)
      PROVE  ExecStep
  <2>1. /\ RequestUserApproval(Owner, r, p)
        /\ due' = {For("park", p, run[r].seat)} /\ run[r].seat \in SeatId
        /\ UNCHANGED <<phase, turn, source, target, confirmed, posted, workerVars, crashes>>
    BY <1>5 DEF RoomRequestUser, CanCallTools, IsRunning, TypeOK
  <2>2. UNCHANGED vars /\ MailMove /\ approval'[p].status # "none"
    BY <2>1, OwnerAssumption
    DEF RequestUserApproval, MailMove, ApprovalNext, MailInv, MailTypeOK
  <2>3. due' \subseteq Job \cup Call /\ \A j \in due' : GoodCall(j)'
    BY <2>1, <2>2, JobsMade, CallParts DEF GoodCall
  <2> QED
    BY <2>1, <2>2, <2>3, ToolFrame
<1> QED
  BY <1>1, <1>2, <1>3, <1>4, <1>5 DEF ToolNext

\* Parking a run that is on record as waiting.
LEMMA ParkFrame ==
    ASSUME TypeOK, MailInv, ExecInv, NEW r \in RunId, NEW st \in {"awaiting_peer", "awaiting_user"},
           AwaitRun(Owner, r, st), UNCHANGED mailVars,
           due' \subseteq Job, \A j \in due' : GoodCall(j)', ParkReason(r)',
           UNCHANGED <<phase, turn, source, target, confirmed, posted, workerVars, crashes>>
    PROVE  ExecStep
<1>1. /\ IsRunning(r) /\ run'[r].status = st /\ run'[r].key = run[r].key
      /\ \A q \in RunId : q # r => run'[q] = run[q]
  BY EndEffect, OwnerAssumption
<1>2. [Next]_vars /\ MailMove
  BY OwnerAssumption DEF Next, RunNext, MailMove
<1>3. ExecTypeOK'
  <2>1. \A q \in RunId : run[q].status = "none" => run'[q].status = "none"
    BY <1>1 DEF IsRunning
  <2> QED
    BY <1>2, <2>1, SourceOfOld DEF ExecInv, ExecTypeOK, workerVars
<1>4. RunningHasTurn'
  BY <1>1 DEF ExecInv, RunningHasTurn, IsRunning
<1>5. \A q \in RunId : Parked(q)' => run'[q].status = run[q].status \/ ParkReason(q)'
  BY <1>1
<1> QED
  BY <1>1, <1>2, <1>3, <1>4, <1>5, ExecFrame DEF workerVars

\* The asker parks with its question sent, and its peer is woken.
LEMMA ParkAskerExec ==
    ASSUME TypeOK, MailInv, ExecInv, NEW e \in Env, ParkAsker(e)
    PROVE  ExecStep
<1>1. Question(e)
  BY CallParts, IdAssumption DEF ParkAsker, Pending, ExecInv, GoodCall
<1>2. Sent(e) /\ env[e].to \in SeatId /\ env[e].cause \in RunId
  BY <1>1 DEF MailInv, EnvelopeRefers, Question, Sent
<1>3. PICK r \in RunId : env[e].cause = r
  BY <1>2
<1>4. /\ AwaitRun(Owner, r, "awaiting_peer")
      /\ due' \subseteq {For("mailbox", e, env[e].to)} /\ UNCHANGED mailVars
      /\ UNCHANGED <<phase, turn, source, target, confirmed, posted, workerVars, crashes>>
  BY <1>3 DEF ParkAsker, Handled
<1>5. Sent(e)' /\ Question(e)' /\ env'[e].cause = r
  BY <1>1, <1>2, <1>3, <1>4 DEF mailVars, Sent, Question
<1>6. run'[r].status = "awaiting_peer"
  BY <1>4, EndEffect, OwnerAssumption
<1>7. ParkReason(r)'
  BY <1>5, <1>6 DEF ParkReason
<1>8. due' \subseteq Job /\ \A j \in due' : GoodCall(j)'
  BY <1>2, <1>4, <1>5, JobsMade, CallParts DEF GoodCall
<1> QED
  BY <1>4, <1>7, <1>8, ParkFrame

\* The requester parks with its request on record.
LEMMA ParkForUserExec ==
    ASSUME TypeOK, MailInv, ExecInv, NEW p \in Approval, ParkForUser(p)
    PROVE  ExecStep
<1>1. approval[p].status # "none"
  BY CallParts, IdAssumption DEF ParkForUser, Pending, ExecInv, GoodCall
<1>2. PICK r \in RunId : approval[p].run = r
  BY <1>1 DEF MailInv, ApprovalRefers
<1>3. /\ AwaitRun(Owner, r, "awaiting_user") /\ due' = {} /\ UNCHANGED mailVars
      /\ UNCHANGED <<phase, turn, source, target, confirmed, posted, workerVars, crashes>>
  BY <1>2 DEF ParkForUser
<1>4. approval' = approval /\ run'[r].status = "awaiting_user"
  BY <1>3, EndEffect, OwnerAssumption DEF mailVars
<1>5. ParkReason(r)'
  BY <1>1, <1>2, <1>4 DEF ParkReason
<1> QED
  BY <1>3, <1>5, ParkFrame

\* A turn that returned posts its message and has its run finished next.
LEMMA TurnReturnsExec ==
    ASSUME TypeOK, MailInv, ExecInv, NEW r \in RunId, TurnReturns(r)
    PROVE  ExecStep
<1>1. /\ UNCHANGED vars /\ MailMove /\ posted' = posted \cup {r}
      /\ due' = {For("finish", r, run[r].seat)} /\ r \in turn
      /\ UNCHANGED <<phase, turn, source, target, confirmed, workerVars, crashes>>
  BY DEF TurnReturns, roomVars, MailMove
<1>2. run[r].seat \in SeatId
  BY <1>1 DEF ExecInv, TypeOK
<1>3. due' \subseteq Call /\ \A j \in due' : GoodCall(j)'
  BY <1>1, <1>2, JobsMade, CallParts DEF GoodCall
<1> QED
  BY <1>1, <1>3, QuietFrame
  DEF vars, workerVars, ExecInv, ExecTypeOK, RunningHasTurn, IsRunning

\* Finishing a run leaves it not running.
LEMMA FinishedEffect ==
    ASSUME TypeOK, NEW r \in RunId, NEW st \in Settled, Finished(r, st)
    PROVE  /\ [Next]_vars /\ run'[r].status # "running"
           /\ \A q \in RunId : /\ run'[q].key = run[q].key
                               /\ \/ run'[q] = run[q]
                                  \/ IsRunning(q) /\ run'[q].status \in Settled
           /\ \A q \in RunId : q # r => run'[q] = run[q]
<1>1. CASE IsRunning(r)
  <2>1. FinishRun(Owner, r, st)
    BY <1>1 DEF Finished
  <2>2. [Next]_vars
    BY <2>1, OwnerAssumption DEF Next, RunNext
  <2> QED
    BY <2>1, <2>2, EndEffect, OwnerAssumption DEF Settled
<1>2. CASE ~IsRunning(r)
  BY <1>2 DEF Finished, vars, IsRunning
<1> QED
  BY <1>1, <1>2

\* A turn leaves with its run finished, well or badly.
LEMMA EndTurnExec ==
    ASSUME TypeOK, MailInv, ExecInv, NEW r \in RunId, EndTurn(r) \/ TurnFails(r)
    PROVE  ExecStep
<1>1. PICK st \in Settled : Finished(r, st)
  BY DEF EndTurn, TurnFails, Settled
<1>2. /\ turn' = turn \ {r} /\ due' \subseteq due
      /\ UNCHANGED <<mailVars, phase, source, target, confirmed, posted, workerVars, crashes>>
  BY DEF EndTurn, TurnFails
<1>3. \A q \in RunId : IsRunning(q)' /\ q \in turn => q \in turn'
  BY <1>1, <1>2, FinishedEffect DEF IsRunning
<1> QED
  BY <1>1, <1>2, <1>3, FinishedEffect, EndsExec

-----------------------------------------------------------------------------
(* The life of the process. *)

\* Whatever the process forgets, only the room and the worker's file stay.
LEMMA ForgottenExec ==
    ASSUME TypeOK, MailInv, ExecInv, Forgotten, crashes' \in 0..MaxCrashes,
           UNCHANGED <<roomVars, source, target, confirmed, posted, stored>>
    PROVE  ExecStep
<1>1. UNCHANGED vars /\ MailMove
  BY DEF roomVars, MailMove
<1>2. RunningHasTurn'
  BY DEF Forgotten, RunningHasTurn
<1> QED
  BY <1>1, <1>2, QuietFrame DEF Forgotten, ExecInv, ExecTypeOK, Phase

\* What can be drained exists.
LEMMA DrainableGood ==
    ASSUME TypeOK, MailInv
    PROVE  Drainable \subseteq Job /\ \A j \in Drainable : GoodCall(j)
<1>1. ASSUME NEW e \in Env, MailboxOutbox(e)
      PROVE  For("redeliver", e, env[e].to) \in Job /\ GoodCall(For("redeliver", e, env[e].to))
  <2>1. Sent(e) /\ env[e].to \in SeatId
    BY <1>1, OutboxIsSent DEF MailboxOutbox, MailInv, EnvelopeRefers
  <2> QED
    BY <2>1, JobsMade, CallParts DEF GoodCall
<1>2. ASSUME NEW p \in Approval, ApprovedAwaitingResume(p)
      PROVE  /\ For("approval", p, run[approval[p].run].seat) \in Job
             /\ GoodCall(For("approval", p, run[approval[p].run].seat))
  <2>1. approval[p].status # "none" /\ run[approval[p].run].seat \in SeatId
    BY <1>2 DEF ApprovedAwaitingResume, MailInv, ApprovalRefers, TypeOK
  <2> QED
    BY <2>1, JobsMade, CallParts DEF GoodCall
<1> QED
  BY <1>1, <1>2 DEF Drainable

\* Starting up, draining and closing.
LEMMA ProcessExec ==
    ASSUME TypeOK, MailInv, ExecInv, ProcessNext
    PROVE  ExecStep
<1>1. CASE Crash
  BY <1>1, ForgottenExec, CrashAssumption DEF Crash, ExecInv, ExecTypeOK
<1>2. CASE Closed
  BY <1>2, ForgottenExec DEF Closed, ExecInv, ExecTypeOK
<1>3. CASE Close \/ Boot
  <2>1. /\ UNCHANGED vars /\ MailMove /\ phase' \in {"closing", "recovering"}
        /\ UNCHANGED <<due, turn, source, target, confirmed, posted, workerVars, crashes>>
    BY <1>3 DEF Close, Boot, roomVars, MailMove
  <2>2. RunningHasTurn'
    BY <2>1 DEF RunningHasTurn
  <2> QED
    BY <2>1, <2>2, QuietFrame DEF workerVars, ExecInv, ExecTypeOK, Phase
<1>4. CASE BeginDrain
  <2>1. /\ UNCHANGED vars /\ UNCHANGED mailVars /\ phase' = "draining" /\ items' = Drainable
        /\ \A r \in RunId : ~IsRunning(r)
        /\ UNCHANGED <<due, turn, source, target, confirmed, posted, processed, stored, crashes>>
    BY <1>4 DEF BeginDrain, roomVars
  <2>2. RunningHasTurn' /\ MailMove
    BY <2>1 DEF RunningHasTurn, IsRunning, vars, MailMove
  <2>3. items' \subseteq Job /\ \A j \in items' : GoodCall(j)'
    BY <2>1, <2>2, DrainableGood, CallsStay
  <2> QED
    BY <2>1, <2>2, <2>3, QuietFrame DEF ExecInv, ExecTypeOK, Phase
<1>5. CASE EndDrain
  <2>1. /\ UNCHANGED vars /\ MailMove /\ phase = "draining" /\ phase' = "up"
        /\ stored' \in {stored, processed}
        /\ UNCHANGED <<due, turn, source, target, confirmed, posted, items, processed, crashes>>
    BY <1>5 DEF EndDrain, roomVars, MailMove
  <2>2. RunningHasTurn'
    BY <2>1 DEF RunningHasTurn, IsRunning, vars, ExecInv
  <2> QED
    BY <2>1, <2>2, QuietFrame DEF ExecInv, ExecTypeOK, Phase
<1>6. ASSUME NEW r \in RunId, Recover(r) PROVE ExecStep
  <2>1. /\ FinishRun(Owner, r, "blocked") /\ phase = "recovering"
        /\ UNCHANGED <<mailVars, phase, due, turn, source, target, confirmed, posted,
                       workerVars, crashes>>
    BY <1>6 DEF Recover
  <2>2. [Next]_vars
    BY <2>1, OwnerAssumption DEF Next, RunNext, Settled
  <2>3. \A q \in RunId : /\ run'[q].key = run[q].key
                         /\ \/ run'[q] = run[q]
                            \/ IsRunning(q) /\ run'[q].status \in Settled
    BY <2>1, EndEffect, OwnerAssumption DEF Settled
  <2> QED
    BY <2>1, <2>2, <2>3, EndsExec
<1>7. ASSUME NEW j \in Job, Drain(j) PROVE ExecStep
  <2>1. /\ UNCHANGED vars /\ MailMove /\ j \in items /\ items' = items \ {j}
        /\ due' \in {due, {j}} /\ processed' \in {processed, processed \cup {j}}
        /\ UNCHANGED <<phase, turn, source, target, confirmed, posted, stored, crashes>>
    <3>1. ConfirmOutbox(Owner, What(j)) /\ Why(j) = "redeliver" => UNCHANGED vars /\ MailMove
      BY JobParts, OwnerAssumption DEF ConfirmOutbox, MailMove, EnvelopeNext
    <3>2. UNCHANGED roomVars => UNCHANGED vars /\ MailMove
      BY DEF roomVars, MailMove
    <3> QED
      BY <1>7, <3>1, <3>2 DEF Drain
  <2>2. RunningHasTurn'
    BY <2>1 DEF RunningHasTurn, IsRunning, vars, ExecInv
  <2> QED
    BY <2>1, <2>2, QuietFrame DEF ExecInv, ExecTypeOK
<1> QED
  BY <1>1, <1>2, <1>3, <1>4, <1>5, <1>6, <1>7 DEF ProcessNext

-----------------------------------------------------------------------------
(* The specification. *)

\* Nothing is due and nobody runs in a room that has just been opened.
LEMMA ExecReady == ExecInit => ExecInv
<1> SUFFICES ASSUME ExecInit PROVE ExecInv
  OBVIOUS
<1>1. \A r \in RunId : run[r].status = "none" /\ run[r].key = None
  BY DEF ExecInit, MailInit, RoomInit, NoRun
<1>2. ExecTypeOK
  BY <1>1, CrashAssumption DEF ExecInit, ExecTypeOK, Phase
<1>3. \A r, q \in RunId : \A s \in SeatId : run[r].key # For("resume", q, s)
  BY <1>1, JobsMade, JobAssumption, NoneAssumption
<1>4. due = {} /\ items = {} /\ turn = {} /\ confirmed = {}
  BY DEF ExecInit
<1> QED
  BY <1>1, <1>2, <1>3, <1>4
  DEF ExecInv, RunningHasTurn, IsRunning, ParkReason, BlockedNeedsUser

\* Every step of the bridge, its users and its process keeps the invariant,
\* and moves the room and the mailbox as their own modules say.
LEMMA ExecKeeps ==
    ASSUME TypeOK, MailInv, ExecInv, ExecNext
    PROVE  ExecStep
<1>1. CASE UserNext
  BY <1>1, PostExec, ResolveExec, ConfirmRunExec, ConfirmEnvelopeExec, RetryExec, CancelExec
  DEF UserNext
<1>2. CASE ToolNext
  BY <1>2, ToolExec
<1>3. CASE TickNext
  BY <1>3, StartExec, DropExec, ParkAskerExec, ParkForUserExec, EndTurnExec DEF TickNext
<1>4. CASE TurnNext
  BY <1>4, TurnReturnsExec, EndTurnExec DEF TurnNext
<1>5. CASE ProcessNext
  BY <1>5, ProcessExec
<1> QED
  BY <1>1, <1>2, <1>3, <1>4, <1>5 DEF ExecNext

\* The invariants of the room, the mailbox and the bridge hold together.
THEOREM ExecInvariance == ExecSpec => [](IInv /\ MailInv /\ ExecInv)
<1>1. ExecInit => IInv /\ MailInv /\ ExecInv
  BY RoomReady, MailReady, ExecReady DEF ExecInit, MailInit
<1>2. IInv /\ MailInv /\ ExecInv /\ [ExecNext]_execVars => IInv' /\ MailInv' /\ ExecInv'
  <2> SUFFICES ASSUME IInv, MailInv, ExecInv, [ExecNext]_execVars
               PROVE  IInv' /\ MailInv' /\ ExecInv'
    OBVIOUS
  <2>1. TypeOK
    BY DEF IInv
  <2>2. CASE UNCHANGED execVars
    <3>1. UNCHANGED vars /\ MailMove
      BY <2>2 DEF execVars, MailMove
    <3>2. ExecStep
      BY <2>1, <2>2, <3>1, QuietFrame
      DEF execVars, vars, ExecInv, ExecTypeOK, RunningHasTurn, IsRunning
    <3> QED
      BY <2>1, <3>2, TypeStep, StepIInv, MailStep DEF ExecStep, MailMove
  <2>3. CASE ExecNext
    BY <2>1, <2>3, ExecKeeps, TypeStep, StepIInv, MailStep DEF ExecStep, MailMove
  <2> QED
    BY <2>2, <2>3
<1> QED
  BY <1>1, <1>2, PTL DEF ExecSpec

\* Every variable of the bridge and the worker is well typed.
THEOREM ExecTypeCorrect == ExecSpec => []ExecTypeOK
BY ExecInvariance, PTL DEF ExecInv

\* While the room is served, a running run has a turn of this very process,
\* however often the process has died and wherever (recoverInterruptedRuns,
\* execute).
THEOREM NoOrphans == ExecSpec => []NoOrphanRun
<1>1. ExecInv => NoOrphanRun
  BY DEF ExecInv, RunningHasTurn, NoOrphanRun
<1> QED
  BY <1>1, ExecInvariance, PTL

\* A parked run has its question or its request on record (the host tools'
\* order of dispatches).
THEOREM Recoverable == ExecSpec => []ParkedHasReason
<1>1. ExecInv => ParkedHasReason
  BY DEF ExecInv, ParkReason, ParkedHasReason
<1> QED
  BY <1>1, ExecInvariance, PTL

\* Blocked work is resumed only after a user confirmed it, and the blocked
\* run stays blocked (classifyOutboxDrain, confirmResumeBlockedRun).
THEOREM NoBlindReplay == ExecSpec => []BlockedNeedsUser
BY ExecInvariance, PTL DEF ExecInv

\* One run per key of the bridge, over any number of restarts.
THEOREM OneRun == ExecSpec => []OneRunPerJob
<1>1. IInv => OneRunPerJob
  BY DEF IInv, OneRunPerJob
<1> QED
  BY <1>1, ExecInvariance, PTL

\* What the room's and the mailbox's modules promise holds under the
\* bridge: its steps are theirs.
THEOREM Composition ==
    ExecSpec => /\ [](TypeOK /\ SeatBusyIffRunning /\ RunningAuthorized)
                /\ [](AnsweredByOneReply /\ DepthLimitsChain)
                /\ SettledRunsFrozen
                /\ DecisionsAreFinal
<1>1. IInv => TypeOK /\ SeatBusyIffRunning /\ RunningAuthorized
  BY DEF IInv
<1>2. MailInv => AnsweredByOneReply /\ DepthLimitsChain
  BY DEF MailInv
<1>3. IInv /\ MailInv /\ ExecInv /\ [ExecNext]_execVars =>
         [\A r \in RunId : run[r].status \notin {"none", "running"} => run'[r] = run[r]]_vars
  BY <1>1, ExecKeeps, FrozenStep DEF ExecStep, execVars
<1>4. IInv /\ MailInv /\ ExecInv /\ [ExecNext]_execVars => [MailFinal]_mailVars
  BY <1>1, ExecKeeps, FinalStep DEF ExecStep, execVars, MailMove
<1> QED
  BY <1>1, <1>2, <1>3, <1>4, ExecInvariance, PTL
  DEF ExecSpec, SettledRunsFrozen, DecisionsAreFinal, MailFinal

=============================================================================
