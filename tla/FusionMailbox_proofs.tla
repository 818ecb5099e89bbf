------------------------ MODULE FusionMailbox_proofs ------------------------
(* Proofs about FusionMailbox for every set of runs, envelopes, approvals  *)
(* and root messages and every depth limit.  What the mailbox operations   *)
(* preserve is proved once for any step that moves the room as             *)
(* FusionAuthority does, so that it holds wherever they are used.          *)
EXTENDS FusionMailbox, FusionAuthority_proofs, WellFoundedInduction

-----------------------------------------------------------------------------
(* The maximum of a bounded set of numbers. *)

\* A bounded, non-empty set of natural numbers has a greatest element.
LEMMA MaxOfBounded ==
    ASSUME NEW S, S \subseteq Nat, S # {}, NEW b \in Nat, \A x \in S : x <= b
    PROVE  Max(S) \in S /\ \A x \in S : x <= Max(S)
<1> DEFINE T == {b - x : x \in S}
<1>1. T \subseteq Nat /\ T # {}
  OBVIOUS
<1>2. PICK t \in T : \A y \in T : ~(<<y, t>> \in OpToRel(<, Nat))
  <2> HIDE DEF T
  <2> QED
    BY <1>1, NatLessThanWellFounded, WFMin
<1>3. PICK m \in S : t = b - m
  OBVIOUS
<1>4. ASSUME NEW x \in S PROVE x <= m
  <2>1. ~(b - x < b - m)
    BY <1>1, <1>2, <1>3 DEF OpToRel
  <2> QED
    BY <2>1
<1>5. \E x \in S : \A y \in S : x >= y
  BY <1>4
<1> QED
  BY <1>5 DEF Max

-----------------------------------------------------------------------------
(* The inductive invariant: what an envelope and an approval refer to      *)
(* exists, and a reply belongs to a question that is answered.             *)

EnvelopeRefers(e) ==
    /\ ~Sent(e) => env[e].state = "none"
    /\ Sent(e) =>
        /\ env[e].from \in SeatId /\ env[e].to \in SeatId /\ env[e].root \in Msg
        /\ env[e].cause \in RunId /\ run[env[e].cause].status # "none"
        /\ env[e].depth <= MaxDepth

ReplyRefers(e) ==
    env[e].kind = "reply" => env[e].ask \in Env /\ Question(env[e].ask)

ApprovalRefers(p) ==
    approval[p].status # "none" =>
        approval[p].run \in RunId /\ run[approval[p].run].status # "none"

MailInv ==
    /\ MailTypeOK
    /\ \A e \in Env : EnvelopeRefers(e) /\ ReplyRefers(e)
    /\ \A p \in Approval : ApprovalRefers(p)
    /\ AnsweredByOneReply
    /\ DepthLimitsChain

\* The depth of a new envelope is above every depth its root message has had.
LEMMA NextDepthExceeds ==
    ASSUME MailInv, NEW m \in Msg
    PROVE  /\ NextDepth(m) \in Nat
           /\ \A e \in Env : Sent(e) /\ env[e].root = m => env[e].depth < NextDepth(m)
<1>1. /\ DepthsOf(m) \subseteq Nat
      /\ \A d \in DepthsOf(m) : d <= MaxDepth
  BY DEF DepthsOf, MailInv, MailTypeOK, EnvType, EnvelopeRefers
<1>2. CASE DepthsOf(m) = {}
  BY <1>2 DEF NextDepth, DepthsOf
<1>3. CASE DepthsOf(m) # {}
  <2>1. /\ Max(DepthsOf(m)) \in DepthsOf(m)
        /\ \A d \in DepthsOf(m) : d <= Max(DepthsOf(m))
    BY <1>1, <1>3, MaxOfBounded, DepthAssumption
  <2>2. Max(DepthsOf(m)) \in Nat /\ NextDepth(m) = Max(DepthsOf(m)) + 1
    BY <1>1, <1>3, <2>1 DEF NextDepth
  <2>3. ASSUME NEW e \in Env, Sent(e), env[e].root = m
        PROVE  env[e].depth < NextDepth(m)
    <3>1. env[e].depth \in DepthsOf(m)
      BY <2>3 DEF DepthsOf
    <3> QED
      BY <1>1, <2>1, <2>2, <3>1
  <2> QED
    BY <2>2, <2>3
<1> QED
  BY <1>2, <1>3

\* A step that leaves the mailbox alone keeps the invariant: runs stay.
LEMMA RoomStepMail ==
    ASSUME TypeOK, MailInv, [Next]_vars, UNCHANGED mailVars
    PROVE  MailInv'
<1>1. MailTypeOK' /\ AnsweredByOneReply' /\ DepthLimitsChain'
  BY DEF MailInv, mailVars, MailTypeOK, AnsweredByOneReply, DepthLimitsChain,
         Question, Reply
<1>2. \A e \in Env : EnvelopeRefers(e)' /\ ReplyRefers(e)'
  BY RunStays DEF MailInv, mailVars, EnvelopeRefers, ReplyRefers, Sent, Question
<1>3. \A p \in Approval : ApprovalRefers(p)'
  BY RunStays DEF MailInv, mailVars, ApprovalRefers
<1> QED
  BY <1>1, <1>2, <1>3 DEF MailInv

\* An envelope that is sent is new and deeper than all others of its root.
LEMMA SendMail ==
    ASSUME TypeOK, MailInv, NEW a \in User, NEW r \in RunId, NEW to \in SeatId,
           NEW kind \in {"message", "question"}, NEW e \in Env, NEW m \in Msg,
           SendMailbox(a, r, to, kind, e, m)
    PROVE  MailInv'
<1> DEFINE new == [kind |-> kind, from |-> run[r].seat, to |-> to, cause |-> r, root |-> m,
                   ask |-> None, depth |-> NextDepth(m), state |-> "pending",
                   delivery |-> "outbox"]
<1>1. /\ env' = [env EXCEPT ![e] = new] /\ approval' = approval /\ run' = run
      /\ env \in [Env -> EnvType] /\ ~Sent(e) /\ NextDepth(m) <= MaxDepth
      /\ run[r].status = "running" /\ run[r].seat \in SeatId
  BY DEF SendMailbox, vars, MailInv, MailTypeOK, IsRunning, TypeOK
<1>2. NextDepth(m) \in Nat
  BY NextDepthExceeds
<1>3. new \in EnvType
  BY <1>1, <1>2 DEF EnvType
<1>4. /\ env' \in [Env -> EnvType] /\ env'[e] = new
      /\ \A x \in Env : x # e => env'[x] = env[x]
  BY <1>1, <1>3
<1>5. MailTypeOK'
  BY <1>1, <1>4 DEF MailInv, MailTypeOK
<1>6. \A x \in Env : EnvelopeRefers(x)' /\ ReplyRefers(x)'
  <2>1. EnvelopeRefers(e)' /\ ReplyRefers(e)'
    BY <1>1, <1>4 DEF EnvelopeRefers, ReplyRefers, Sent
  <2>2. ASSUME NEW x \in Env, x # e PROVE EnvelopeRefers(x)' /\ ReplyRefers(x)'
    BY <1>1, <1>4, <2>2 DEF MailInv, EnvelopeRefers, ReplyRefers, Sent, Question
  <2> QED
    BY <2>1, <2>2
<1>7. \A p \in Approval : ApprovalRefers(p)'
  BY <1>1 DEF MailInv, ApprovalRefers
<1>8. AnsweredByOneReply'
  <2> SUFFICES ASSUME NEW q \in Env, Question(q)'
               PROVE  /\ env'[q].state = "answered" <=> \E x \in Env : Reply(x, q)'
                      /\ \A x, f \in Env : Reply(x, q)' /\ Reply(f, q)' => x = f
    BY DEF AnsweredByOneReply
  <2>1. \A x \in Env : Reply(x, q)' <=> Reply(x, q)
    BY <1>1, <1>4 DEF Reply, Sent
  <2>2. CASE q = e
    BY <1>1, <1>4, <2>1, <2>2 DEF MailInv, ReplyRefers, Reply, Question, Sent
  <2>3. CASE q # e
    BY <1>4, <2>1, <2>3 DEF MailInv, AnsweredByOneReply, Question
  <2> QED
    BY <2>2, <2>3
<1>9. DepthLimitsChain'
  BY <1>1, <1>2, <1>4, NextDepthExceeds
  DEF MailInv, DepthLimitsChain, Sent, MailTypeOK, EnvType
<1> QED
  BY <1>5, <1>6, <1>7, <1>8, <1>9 DEF MailInv

\* An answer closes its question, which was open and hence had none yet.
LEMMA ReplyMail ==
    ASSUME TypeOK, MailInv, NEW a \in User, NEW r \in RunId, NEW q \in Env, NEW e \in Env,
           ReplyMailbox(a, q, r, e)
    PROVE  MailInv'
<1> DEFINE closed == [env[q] EXCEPT !.state = "answered"]
           new == [kind |-> "reply", from |-> env[q].to, to |-> env[q].from, cause |-> r,
                   root |-> env[q].root, ask |-> q, depth |-> env[q].depth,
                   state |-> "answered", delivery |-> "none"]
<1>1. /\ approval' = approval /\ run' = run /\ run[r].status = "running"
      /\ env \in [Env -> EnvType] /\ ~Sent(e) /\ Question(q) /\ Open(q) /\ q # e
  BY DEF ReplyMailbox, vars, MailInv, MailTypeOK, IsRunning, Sent, Question
<1>2. env' = [env EXCEPT ![q].state = "answered", ![e] = new]
  BY DEF ReplyMailbox
<1>3. /\ env'[q] = closed /\ env'[e] = new
      /\ \A x \in Env : x # e /\ x # q => env'[x] = env[x]
  BY <1>1, <1>2
<1>4. /\ closed.kind = env[q].kind /\ closed.from = env[q].from /\ closed.to = env[q].to
      /\ closed.cause = env[q].cause /\ closed.root = env[q].root
      /\ closed.depth = env[q].depth /\ closed.delivery = env[q].delivery
      /\ closed.state = "answered"
      /\ new.kind = "reply" /\ new.ask = q /\ new.delivery = "none" /\ new.cause = r
      /\ new.from = env[q].to /\ new.to = env[q].from /\ new.root = env[q].root
      /\ new.depth = env[q].depth
  BY <1>1 DEF EnvType
<1>5. /\ env[q].from \in SeatId /\ env[q].to \in SeatId /\ env[q].root \in Msg
      /\ env[q].depth \in Nat /\ env[q].depth <= MaxDepth
  BY <1>1 DEF MailInv, EnvelopeRefers, Sent, Question, EnvType
<1>6. closed \in EnvType /\ new \in EnvType
  BY <1>1, <1>5 DEF EnvType
<1>7. MailTypeOK'
  <2>1. [env EXCEPT ![q].state = "answered"] = [env EXCEPT ![q] = closed]
    OBVIOUS
  <2>2. [env EXCEPT ![q] = closed] \in [Env -> EnvType]
    BY <1>1, <1>6
  <2>3. env' = [[env EXCEPT ![q] = closed] EXCEPT ![e] = new]
    BY <1>2, <2>1
  <2>4. env' \in [Env -> EnvType]
    BY <1>6, <2>2, <2>3
  <2> HIDE DEF closed, new
  <2> QED
    BY <1>1, <1>3, <1>4, <2>4 DEF MailInv, MailTypeOK
<1> HIDE DEF closed, new
<1>8. \A x \in Env : EnvelopeRefers(x)' /\ ReplyRefers(x)'
  <2>1. \A x \in Env : Question(x) => Question(x)'
    BY <1>1, <1>3, <1>4 DEF Question, Sent
  <2>2. EnvelopeRefers(e)' /\ ReplyRefers(e)'
    BY <1>1, <1>3, <1>4, <1>5, <2>1 DEF EnvelopeRefers, ReplyRefers, Sent
  <2>3. EnvelopeRefers(q)' /\ ReplyRefers(q)'
    BY <1>1, <1>3, <1>4 DEF MailInv, EnvelopeRefers, ReplyRefers, Sent, Question
  <2>4. ASSUME NEW x \in Env, x # e, x # q PROVE EnvelopeRefers(x)' /\ ReplyRefers(x)'
    BY <1>1, <1>3, <2>1, <2>4 DEF MailInv, EnvelopeRefers, ReplyRefers, Sent
  <2> QED
    BY <2>2, <2>3, <2>4
<1>9. \A p \in Approval : ApprovalRefers(p)'
  BY <1>1 DEF MailInv, ApprovalRefers
<1>10. AnsweredByOneReply'
  <2>1. ~ \E x \in Env : Reply(x, q)
    BY <1>1 DEF MailInv, AnsweredByOneReply, Open
  <2>2. \A x, f \in Env : Reply(x, f)' <=> Reply(x, f) \/ (x = e /\ f = q)
    BY <1>1, <1>3, <1>4 DEF Reply, Sent, Question
  <2>3. \A f \in Env : f # q /\ Question(f)' =>
                          Question(f) /\ env'[f].state = env[f].state
    BY <1>3, <1>4 DEF Question
  <2> SUFFICES ASSUME NEW f \in Env, Question(f)'
               PROVE  /\ env'[f].state = "answered" <=> \E x \in Env : Reply(x, f)'
                      /\ \A x, y \in Env : Reply(x, f)' /\ Reply(y, f)' => x = y
    BY DEF AnsweredByOneReply
  <2>4. CASE f = q
    BY <1>3, <1>4, <2>1, <2>2, <2>4
  <2>5. CASE f # q
    BY <2>2, <2>3, <2>5 DEF MailInv, AnsweredByOneReply
  <2> QED
    BY <2>4, <2>5
<1>11. DepthLimitsChain'
  <2>1. \A x \in Env : env'[x].kind \in {"message", "question"} =>
                          /\ x # e
                          /\ env'[x].kind = env[x].kind /\ env'[x].depth = env[x].depth
                          /\ env'[x].root = env[x].root
    BY <1>3, <1>4
  <2> QED
    BY <2>1 DEF MailInv, DepthLimitsChain
<1> QED
  BY <1>7, <1>8, <1>9, <1>10, <1>11 DEF MailInv

\* Only the delivery of an envelope changes when it is dispatched.
LEMMA ConfirmMail ==
    ASSUME TypeOK, MailInv, NEW a \in User, NEW e \in Env, ConfirmOutbox(a, e)
    PROVE  MailInv'
<1>1. /\ approval' = approval /\ run' = run /\ env[e].delivery = "outbox"
      /\ env' = [env EXCEPT ![e].delivery = "dispatched"] /\ env \in [Env -> EnvType]
  BY DEF ConfirmOutbox, vars, MailInv, MailTypeOK
<1>2. \A x \in Env :
        /\ env'[x].kind = env[x].kind /\ env'[x].from = env[x].from
        /\ env'[x].to = env[x].to /\ env'[x].cause = env[x].cause
        /\ env'[x].root = env[x].root /\ env'[x].ask = env[x].ask
        /\ env'[x].depth = env[x].depth /\ env'[x].state = env[x].state
        /\ env'[x].delivery # env[x].delivery => env[x].delivery = "outbox"
  BY <1>1 DEF EnvType
<1>3. MailTypeOK'
  <2>1. [env[e] EXCEPT !.delivery = "dispatched"] \in EnvType
    BY <1>1 DEF EnvType
  <2>2. env' \in [Env -> EnvType]
    BY <1>1, <2>1
  <2> QED
    BY <1>1, <1>2, <2>2 DEF MailInv, MailTypeOK
<1>4. \A x \in Env : EnvelopeRefers(x)' /\ ReplyRefers(x)'
  BY <1>1, <1>2 DEF MailInv, EnvelopeRefers, ReplyRefers, Sent, Question
<1>5. \A p \in Approval : ApprovalRefers(p)'
  BY <1>1 DEF MailInv, ApprovalRefers
<1>6. AnsweredByOneReply' /\ DepthLimitsChain'
  BY <1>2 DEF MailInv, AnsweredByOneReply, DepthLimitsChain, Reply, Question
<1> QED
  BY <1>3, <1>4, <1>5, <1>6 DEF MailInv

\* Whatever happens to the approvals, no envelope is touched.
LEMMA ApprovalKeepsEnvelopes ==
    ASSUME MailInv, env' = env, run' = run
    PROVE  /\ \A e \in Env : EnvelopeRefers(e)' /\ ReplyRefers(e)'
           /\ AnsweredByOneReply' /\ DepthLimitsChain'
BY DEF MailInv, EnvelopeRefers, ReplyRefers, Sent, Question, AnsweredByOneReply,
       DepthLimitsChain, Reply

\* A request refers to a running run.
LEMMA RequestMail ==
    ASSUME TypeOK, MailInv, NEW a \in User, NEW r \in RunId, NEW p \in Approval,
           RequestUserApproval(a, r, p)
    PROVE  MailInv'
<1>1. env' = env /\ run' = run
  BY DEF RequestUserApproval, vars
<1>2. MailTypeOK' /\ \A x \in Approval : ApprovalRefers(x)'
  BY <1>1 DEF RequestUserApproval, MailInv, MailTypeOK, ApprovalRefers, IsRunning
<1> QED
  BY <1>1, <1>2, ApprovalKeepsEnvelopes DEF MailInv

\* A decision changes the status of a request, and what it refers to stays.
LEMMA ResolveMail ==
    ASSUME TypeOK, MailInv, NEW a \in User, NEW p \in Approval,
           NEW decision \in {"approved", "denied"}, ResolveUserApproval(a, p, decision)
    PROVE  MailInv'
<1>1. env' = env /\ run' = run
  BY DEF ResolveUserApproval, vars
<1>2. [approval[p] EXCEPT !.status = decision] \in
         [status: {"none", "pending", "approved", "denied"}, run: RunId \cup {None}]
  BY DEF MailInv, MailTypeOK
<1>3. /\ approval' = [approval EXCEPT ![p].status = decision]
      /\ approval[p].status = "pending"
  BY DEF ResolveUserApproval
<1>4. MailTypeOK' /\ \A x \in Approval : ApprovalRefers(x)'
  BY <1>1, <1>2, <1>3 DEF MailInv, MailTypeOK, ApprovalRefers
<1> QED
  BY <1>1, <1>4, ApprovalKeepsEnvelopes DEF MailInv

-----------------------------------------------------------------------------
(* The specification.                                                      *)

\* A room whose seats have all been added satisfies the room's invariant.
LEMMA RoomReady == RoomInit => IInv
<1> SUFFICES ASSUME RoomInit PROVE IInv
  OBVIOUS
<1>1. Seated[1] \in SeatId
  BY SeatedAssumption
<1>2. TypeOK
  BY <1>1, SeatedAssumption, OwnerAssumption
  DEF RoomInit, TypeOK, HumanStatus, SeatType, RunType, NoRun, RunStatus
<1>3. SeatBusyIffRunning /\ RunningHoldsLatestFence /\ RunningAuthorized /\ OneRunPerKey
  BY DEF RoomInit, SeatBusyIffRunning, RunningHoldsLatestFence, RunningAuthorized,
         OneRunPerKey, RunsOf, IsRunning, NoRun
<1>4. CoordinatorConsistent
  BY <1>1, NoneAssumption DEF RoomInit, CoordinatorConsistent, Live
<1> QED
  BY <1>2, <1>3, <1>4 DEF IInv

\* No envelope and no approval at the start.
LEMMA MailReady == MailInit => MailInv
BY DEF MailInit, MailInv, MailTypeOK, EnvType, NoEnv, NoApproval, EnvelopeRefers, ReplyRefers,
       ApprovalRefers, AnsweredByOneReply, DepthLimitsChain, Sent, Question

\* Whatever moves the mailbox does so by its operations, and the room by
\* FusionAuthority's: together they keep the mailbox's invariant.
LEMMA MailStep ==
    ASSUME TypeOK, MailInv, [Next]_vars, EnvelopeNext \/ ApprovalNext \/ UNCHANGED mailVars
    PROVE  MailInv'
<1>1. CASE EnvelopeNext
  BY <1>1, SendMail, ReplyMail, ConfirmMail DEF EnvelopeNext
<1>2. CASE ApprovalNext
  BY <1>2, RequestMail, ResolveMail DEF ApprovalNext
<1>3. CASE UNCHANGED mailVars
  BY <1>3, RoomStepMail
<1> QED
  BY <1>1, <1>2, <1>3

\* The operations of the mailbox leave the room alone, and the turns of
\* MailNext move it as FusionAuthority does.
LEMMA MailIsRoomStep == MailNext => [Next]_vars
<1>1. EnvelopeNext \/ ApprovalNext => UNCHANGED vars
  BY DEF EnvelopeNext, ApprovalNext, SendMailbox, ReplyMailbox, ConfirmOutbox,
         RequestUserApproval, ResolveUserApproval
<1>2. TurnRunNext => RunNext \/ SeatNext
  BY DEF TurnRunNext, RunNext, SeatNext, Settled
<1> QED
  BY <1>1, <1>2 DEF MailNext, Next

\* The room's and the mailbox's invariants hold in every reachable state.
THEOREM MailInvariance == MailSpec => [](IInv /\ MailInv)
<1>1. MailInit => IInv /\ MailInv
  BY RoomReady, MailReady DEF MailInit
<1>2. IInv /\ MailInv /\ [MailNext]_<<vars, mailVars>> => IInv' /\ MailInv'
  <2> SUFFICES ASSUME IInv, MailInv, [MailNext]_<<vars, mailVars>>
               PROVE  IInv' /\ MailInv'
    OBVIOUS
  <2>1. [Next]_vars
    BY MailIsRoomStep
  <2>2. EnvelopeNext \/ ApprovalNext \/ UNCHANGED mailVars
    BY DEF MailNext, TurnRunNext
  <2>3. TypeOK
    BY DEF IInv
  <2> QED
    BY <2>1, <2>2, <2>3, TypeStep, StepIInv, MailStep
<1> QED
  BY <1>1, <1>2, PTL DEF MailSpec

\* The mailbox is well typed.
THEOREM MailTypeCorrect == MailSpec => []MailTypeOK
BY MailInvariance, PTL DEF MailInv

\* A question is answered exactly when it has its one reply (replyMailbox).
THEOREM OneAnswer == MailSpec => []AnsweredByOneReply
BY MailInvariance, PTL DEF MailInv

\* The envelopes of a root message are numbered without repetition and
\* never beyond the hard depth limit (sendMailbox).
THEOREM DepthLimit == MailSpec => []DepthLimitsChain
BY MailInvariance, PTL DEF MailInv

\* No operation of the mailbox takes back an answer, a dispatch or a
\* decision, or changes what a sent envelope or a request refers to.
MailFinal ==
    /\ \A e \in Env : env[e].state = "answered" => env'[e].state = "answered"
    /\ \A e \in Env : env[e].delivery # "none" /\ env'[e].delivery # env[e].delivery
                        => env[e].delivery = "outbox"
    /\ \A e \in Env : env[e].kind = "reply" => env'[e] = env[e]
    /\ \A p \in Approval : approval[p].status \in {"approved", "denied"}
                              => approval'[p] = approval[p]

\* What a sent envelope and a request refer to never changes.
MailKept ==
    /\ \A e \in Env : Sent(e) =>
          /\ env'[e].kind = env[e].kind /\ env'[e].cause = env[e].cause
          /\ env'[e].from = env[e].from /\ env'[e].to = env[e].to
          /\ env'[e].root = env[e].root
    /\ \A p \in Approval : approval[p].status # "none" =>
          approval'[p].run = approval[p].run /\ approval'[p].status # "none"

LEMMA FinalStep ==
    ASSUME MailInv, EnvelopeNext \/ ApprovalNext
    PROVE  MailFinal /\ MailKept
<1> DEFINE Kept == MailFinal /\ MailKept
<1> USE DEF MailFinal, MailKept
<1>1. /\ env \in [Env -> EnvType]
      /\ approval \in [Approval -> [status: {"none", "pending", "approved", "denied"},
                                    run: RunId \cup {None}]]
      /\ \A e \in Env : env[e].delivery # "none" => env[e].kind \in {"message", "question"}
  BY DEF MailInv, MailTypeOK
<1>2. ASSUME NEW a \in User, NEW r \in RunId, NEW to \in SeatId,
             NEW kind \in {"message", "question"}, NEW e \in Env, NEW m \in Msg,
             SendMailbox(a, r, to, kind, e, m)
      PROVE  /\ approval' = approval /\ ~Sent(e)
             /\ \A x \in Env : x # e => env'[x] = env[x]
  BY <1>1, <1>2 DEF SendMailbox
<1>3. ASSUME NEW a \in User, NEW r \in RunId, NEW q \in Env, NEW e \in Env,
             ReplyMailbox(a, q, r, e)
      PROVE  /\ approval' = approval /\ ~Sent(e) /\ Question(q) /\ env[q].state # "answered"
             /\ env'[q] = [env[q] EXCEPT !.state = "answered"]
             /\ \A x \in Env : x # e /\ x # q => env'[x] = env[x]
  BY <1>1, <1>3 DEF ReplyMailbox, Open, Question, Sent
<1>4. ASSUME NEW a \in User, NEW e \in Env, ConfirmOutbox(a, e)
      PROVE  /\ approval' = approval /\ env[e].delivery = "outbox"
             /\ env' = [env EXCEPT ![e].delivery = "dispatched"]
  BY <1>4 DEF ConfirmOutbox
<1>5. ASSUME NEW a \in User, NEW r \in RunId, NEW to \in SeatId,
             NEW kind \in {"message", "question"}, NEW e \in Env, NEW m \in Msg,
             SendMailbox(a, r, to, kind, e, m)
      PROVE  Kept
  <2>1. env[e].kind = "none" /\ env[e].delivery = "none" /\ env[e].state = "none"
    BY <1>1, <1>2, <1>5 DEF Sent, MailInv, EnvelopeRefers
  <2> QED
    BY <1>2, <1>5, <2>1 DEF Sent
<1>6. ASSUME NEW a \in User, NEW r \in RunId, NEW q \in Env, NEW e \in Env,
             ReplyMailbox(a, q, r, e)
      PROVE  Kept
  <2>1. env[e].kind = "none" /\ env[e].delivery = "none" /\ env[e].state = "none"
    BY <1>1, <1>3, <1>6 DEF Sent, MailInv, EnvelopeRefers
  <2>2. env[q].kind = "question" /\ q # e
    <3>1. env[q].kind = "question"
      BY <1>3, <1>6 DEF Question
    <3> QED
      BY <2>1, <3>1
  <2>3. /\ env'[q].kind = env[q].kind /\ env'[q].cause = env[q].cause
        /\ env'[q].from = env[q].from /\ env'[q].to = env[q].to
        /\ env'[q].root = env[q].root /\ env'[q].delivery = env[q].delivery
        /\ env'[q].state = "answered"
    <3>1. env[q] \in EnvType /\ env'[q] = [env[q] EXCEPT !.state = "answered"]
      BY <1>1, <1>3, <1>6
    <3> QED
      BY <3>1 DEF EnvType
  <2>4. approval' = approval /\ \A x \in Env : x # e /\ x # q => env'[x] = env[x]
    BY <1>1, <1>6 DEF ReplyMailbox
  <2>5. MailFinal
    BY <2>1, <2>2, <2>3, <2>4
  <2>6. MailKept
    BY <2>1, <2>2, <2>3, <2>4 DEF Sent
  <2> QED
    BY <2>5, <2>6
<1>7. ASSUME NEW a \in User, NEW e \in Env, ConfirmOutbox(a, e)
      PROVE  Kept
  <2>1. env[e].kind \in {"message", "question"} /\ env[e].delivery = "outbox"
    BY <1>1, <1>4, <1>7
  <2>2. /\ env'[e].kind = env[e].kind /\ env'[e].cause = env[e].cause
        /\ env'[e].from = env[e].from /\ env'[e].to = env[e].to
        /\ env'[e].root = env[e].root /\ env'[e].state = env[e].state
        /\ \A x \in Env : x # e => env'[x] = env[x]
    BY <1>1, <1>4, <1>7 DEF EnvType
  <2> QED
    BY <1>4, <1>7, <2>1, <2>2 DEF Sent
<1>8. CASE EnvelopeNext
  BY <1>5, <1>6, <1>7, <1>8 DEF EnvelopeNext
<1>9. CASE ApprovalNext
  BY <1>1, <1>9 DEF ApprovalNext, RequestUserApproval, ResolveUserApproval
<1> QED
  BY <1>8, <1>9

\* Answers, dispatches and decisions are final.
THEOREM Final == MailSpec => DecisionsAreFinal
<1>1. MailInv /\ [MailNext]_<<vars, mailVars>> => [MailFinal]_mailVars
  BY FinalStep DEF MailNext, TurnRunNext
<1> QED
  BY <1>1, MailInvariance, PTL DEF MailSpec, DecisionsAreFinal, MailFinal
=============================================================================
