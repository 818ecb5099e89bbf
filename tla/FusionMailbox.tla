--------------------------- MODULE FusionMailbox ---------------------------
(***************************************************************************)
(* Mailbox envelopes and user approvals of a Fusion room                   *)
(* (packages/core/src/collaboration/fusion-room-authority.ts), on top of   *)
(* the members, seats and runs of FusionAuthority, and the list of         *)
(* continuations that is derived from them after a restart                 *)
(* (fusion-room-continuation.ts).                                          *)
(*                                                                         *)
(* Room, seats and members are those of a room whose bots have all been    *)
(* added; the operations that change them stay in FusionAuthority.  Texts  *)
(* and their size limits are left out.  The authority never sets           *)
(* stopReason, so no envelope of a Fusion room can be continued after a    *)
(* depth stop and continueDepthStop has no action.                         *)
(***************************************************************************)
EXTENDS FusionAuthority, FiniteSetsExt

CONSTANTS
    Online,     \* the members that are online; the others are offline
    Seated,     \* the seats of the room in array order
    BotAt,      \* the bot profile a seat is a copy of
    Msg,        \* ids of root messages
    Env,        \* ids given to envelopes
    Approval,   \* ids given to approval requests
    MaxDepth    \* the hard depth limit, 10 in the code

ASSUME SeatedAssumption ==
    /\ Seated \in Seq(SeatId) /\ Len(Seated) > 0
    /\ \A s \in SeatId : \E i \in DOMAIN Seated : Seated[i] = s
    /\ BotAt \in [SeatId -> Bot]
ASSUME OnlineAssumption == Owner \in Online /\ Online \subseteq User
ASSUME DepthAssumption == MaxDepth \in Nat

VARIABLES
    env,       \* env[e]: the mailbox entry with id e
    approval   \* approval[p]: the approvals entry with id p

mailVars == <<env, approval>>

NoEnv == [kind |-> "none", from |-> None, to |-> None, cause |-> None, root |-> None,
          ask |-> None, depth |-> 0, state |-> "none", delivery |-> "none"]
NoApproval == [status |-> "none", run |-> None]

-----------------------------------------------------------------------------
\* A room of which every bot seat has been added, all of them consented to.
RoomInit ==
    /\ roomStatus = "active"
    /\ human = [u \in User |-> IF u \in Online THEN "active" ELSE "offline"]
    /\ seat = [s \in SeatId |-> [status |-> "idle", owner |-> BotOwner[BotAt[s]],
                                 bot |-> BotAt[s], lead |-> s = Seated[1]]]
    /\ seated = Seated
    /\ coordinator = Seated[1]
    /\ consent = [s \in SeatId |-> TRUE]
    /\ run = [r \in RunId |-> NoRun]

MailInit ==
    /\ RoomInit
    /\ env = [e \in Env |-> NoEnv]
    /\ approval = [p \in Approval |-> NoApproval]

Sent(e)     == env[e].kind # "none"
Question(e) == env[e].kind = "question"
Open(e)     == env[e].state \in {"pending", "delivered"}
Reply(e, q) == env[e].kind = "reply" /\ env[e].ask = q

-----------------------------------------------------------------------------
(* Envelopes. *)

DepthsOf(m) == {env[e].depth : e \in {x \in Env : Sent(x) /\ env[x].root = m}}

\* Mutant of NextDepth: only the sender's own chain is counted.
NextDepthOfRun(m) == 0

\* One more than the deepest envelope of the same root message.
NextDepth(m) == IF DepthsOf(m) = {} THEN 0 ELSE Max(DepthsOf(m)) + 1

SendMailbox(a, r, to, kind, e, m) ==
    LET from == run[r].seat IN
    /\ ActiveRoom /\ Active(a)
    /\ IsRunning(r)
    /\ Live(from) /\ Live(to) /\ CanRun(from) /\ CanRun(to)
    /\ from # to
    /\ NextDepth(m) <= MaxDepth
    /\ ~Sent(e)
    /\ env' = [env EXCEPT ![e] =
                 [kind |-> kind, from |-> from, to |-> to, cause |-> r, root |-> m,
                  ask |-> None, depth |-> NextDepth(m), state |-> "pending",
                  delivery |-> "outbox"]]
    /\ UNCHANGED <<vars, approval>>

\* Mutant of ReplyMailbox: the reply is appended, the question stays open.
ReplyLeavingOpen(a, q, r, e) ==
    LET from == env[q].to
        to   == env[q].from
    IN
    /\ ActiveRoom /\ Active(a)
    /\ Question(q) /\ Open(q)
    /\ Live(from) /\ Live(to) /\ CanRun(from) /\ CanRun(to)
    /\ IsRunning(r) /\ run[r].seat = from
    /\ ~Sent(e)
    /\ env' = [env EXCEPT ![e] =
                 [kind |-> "reply", from |-> from, to |-> to, cause |-> r,
                  root |-> env[q].root, ask |-> q, depth |-> env[q].depth,
                  state |-> "answered", delivery |-> "none"]]
    /\ UNCHANGED <<vars, approval>>

\* Only the seat that was asked answers, once; the question's delivery is
\* left as it is.
ReplyMailbox(a, q, r, e) ==
    LET from == env[q].to
        to   == env[q].from
    IN
    /\ ActiveRoom /\ Active(a)
    /\ Question(q) /\ Open(q)
    /\ Live(from) /\ Live(to) /\ CanRun(from) /\ CanRun(to)
    /\ IsRunning(r) /\ run[r].seat = from
    /\ ~Sent(e)
    /\ env' = [env EXCEPT
                 ![q].state = "answered",
                 ![e] = [kind |-> "reply", from |-> from, to |-> to, cause |-> r,
                         root |-> env[q].root, ask |-> q, depth |-> env[q].depth,
                         state |-> "answered", delivery |-> "none"]]
    /\ UNCHANGED <<vars, approval>>

\* Mutant of ConfirmOutbox: it does not test the delivery.
ConfirmAnyEnvelope(a, e) ==
    /\ ActiveRoom /\ Active(a)
    /\ Sent(e)
    /\ env' = [env EXCEPT ![e].delivery = "dispatched"]
    /\ UNCHANGED <<vars, approval>>

\* confirmResumeMailboxOutbox, first call for the envelope.
ConfirmOutbox(a, e) ==
    /\ ActiveRoom /\ Active(a)
    /\ env[e].delivery = "outbox"
    /\ env' = [env EXCEPT ![e].delivery = "dispatched"]
    /\ UNCHANGED <<vars, approval>>

-----------------------------------------------------------------------------
(* Approvals. *)

RequestUserApproval(a, r, p) ==
    LET s == run[r].seat IN
    /\ ActiveRoom /\ Active(a)
    /\ IsRunning(r)
    /\ Live(s) /\ CanRun(s)
    /\ approval[p].status = "none"
    /\ approval' = [approval EXCEPT ![p] = [status |-> "pending", run |-> r]]
    /\ UNCHANGED <<vars, env>>

\* Mutant of ResolveUserApproval: a later decision replaces an earlier one.
ResolveAgain(a, p, decision) ==
    /\ ActiveRoom /\ Active(a)
    /\ approval[p].status # "none"
    /\ approval' = [approval EXCEPT ![p].status = decision]
    /\ UNCHANGED <<vars, env>>

ResolveUserApproval(a, p, decision) ==
    /\ ActiveRoom /\ Active(a)
    /\ approval[p].status = "pending"
    /\ approval' = [approval EXCEPT ![p].status = decision]
    /\ UNCHANGED <<vars, env>>

-----------------------------------------------------------------------------
(* listFusionContinuations: what a restarted process can see of unfinished *)
(* work.                                                                   *)

MailboxOutbox(e) == env[e].delivery = "outbox" /\ env[e].state \notin {"cancelled", "expired"}

ApprovedAwaitingResume(p) ==
    /\ approval[p].status = "approved"
    /\ run[approval[p].run].status \in {"running", "awaiting_peer", "awaiting_user"}

-----------------------------------------------------------------------------
EnvelopeNext ==
    \E a \in User, e \in Env :
        \/ \E r \in RunId, to \in SeatId, kind \in {"message", "question"}, m \in Msg :
             SendMailbox(a, r, to, kind, e, m)
        \/ \E r \in RunId, q \in Env : ReplyMailbox(a, q, r, e)
        \/ ConfirmOutbox(a, e)

ApprovalNext ==
    \E a \in User, p \in Approval :
        \/ \E r \in RunId : RequestUserApproval(a, r, p)
        \/ \E decision \in {"approved", "denied"} : ResolveUserApproval(a, p, decision)

\* How a run settles plays no part here: one outcome stands for all.
TurnRunNext ==
    /\ \E a \in User :
         \/ \E s \in SeatId, r \in RunId : StartRun(a, s, r, TRUE, None)
         \/ \E r \in RunId, st \in {"awaiting_peer", "awaiting_user"} : AwaitRun(a, r, st)
         \/ \E r \in RunId : FinishRun(a, r, "completed")
         \/ \E s \in SeatId, agreed \in BOOLEAN : SetConsent(a, s, agreed)
    /\ UNCHANGED mailVars

MailNext == EnvelopeNext \/ ApprovalNext \/ TurnRunNext

MailSpec == MailInit /\ [][MailNext]_<<vars, mailVars>>

-----------------------------------------------------------------------------
EnvType == [kind: {"none", "message", "question", "reply"},
            from: SeatId \cup {None}, to: SeatId \cup {None},
            cause: RunId \cup {None}, root: Msg \cup {None}, ask: Env \cup {None},
            depth: Nat, state: {"none", "pending", "delivered", "answered"},
            delivery: {"none", "outbox", "dispatched"}]

\* The type of the mailbox; only sent envelopes carry a delivery.
MailTypeOK ==
    /\ env \in [Env -> EnvType]
    /\ approval \in [Approval -> [status: {"none", "pending", "approved", "denied"},
                                  run: RunId \cup {None}]]
    /\ \A e \in Env : env[e].delivery # "none" => env[e].kind \in {"message", "question"}

(* A question is answered exactly when it has a reply, and it never has    *)
(* two, whichever runs of the asked seat try to answer and in which order. *)
AnsweredByOneReply ==
    \A q \in Env : Question(q) =>
        /\ env[q].state = "answered" <=> \E e \in Env : Reply(e, q)
        /\ \A e, f \in Env : Reply(e, q) /\ Reply(f, q) => e = f

(* Agents cannot talk without end: what is sent on behalf of one root      *)
(* message is numbered without repetition and never beyond the hard limit, *)
(* however many runs of however many seats take part.                      *)
DepthLimitsChain ==
    \A e \in Env : env[e].kind \in {"message", "question"} =>
        /\ env[e].depth <= MaxDepth
        /\ \A f \in Env : env[f].kind \in {"message", "question"} /\ env[f].root = env[e].root
                            /\ env[f].depth = env[e].depth => e = f

(* Decisions are final: an answered question, a dispatched envelope and a  *)
(* resolved approval never go back, and a decided approval never changes.  *)
DecisionsAreFinal ==
    [][/\ \A e \in Env : env[e].state = "answered" => env'[e].state = "answered"
       /\ \A e \in Env : env[e].delivery # "none" /\ env'[e].delivery # env[e].delivery
                            => env[e].delivery = "outbox"
       /\ \A e \in Env : env[e].kind = "reply" => env'[e] = env[e]
       /\ \A p \in Approval : approval[p].status \in {"approved", "denied"}
                                => approval'[p] = approval[p]]_mailVars

(* What the comment on listFusionContinuations says: an envelope is listed *)
(* for redelivery when its delivery is "outbox" and it is not terminal.    *)
OnlyOpenEnvelopesListed == \A e \in Env : MailboxOutbox(e) => env[e].state # "answered"

=============================================================================
