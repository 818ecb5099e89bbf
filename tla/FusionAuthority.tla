-------------------------- MODULE FusionAuthority --------------------------
(***************************************************************************)
(* The control core of FusionRoomAuthority                                 *)
(* (packages/core/src/collaboration/fusion-room-authority.ts): who is in   *)
(* the room, which bot seats it has, which seat coordinates, whose owner   *)
(* consents, and the life of the runs (one model turn each) of the seats.  *)
(*                                                                         *)
(* Every method of the class is synchronous, so a call that succeeds is    *)
(* one action and a call that throws changes nothing and has no action.    *)
(* The event log is abstracted to the one entry of it later calls read:    *)
(* the idempotency key on the event that created a run.  Texts, names and  *)
(* clock values are left out.                                              *)
(***************************************************************************)
EXTENDS Naturals, Sequences

CONSTANTS
    User,       \* accounts that can be human members
    Owner,      \* ownerUserId, fixed when the room is created
    Bot,        \* bot profiles
    BotOwner,   \* the owner of a profile, which a seat of it copies
    SeatId,     \* ids given to bot seats, one per addition
    RunId,      \* ids given to runs, one per run
    StartKey,   \* idempotency keys of start-run calls
    None        \* "undefined"

RetryKey == RunId \X (SeatId \cup {None})
    \* the renderer's retry key names the run and the seat asked for

ASSUME OwnerAssumption == Owner \in User /\ BotOwner \in [Bot -> User]
ASSUME NoneAssumption ==
    /\ None \notin User
    /\ None \notin SeatId
    /\ None \notin StartKey
    /\ None \notin RetryKey
ASSUME KeyAssumption == StartKey \cap RetryKey = {}
    \* the gateway scopes a key by its action type

VARIABLES
    roomStatus,  \* status of the room; an archived room behaves as a paused one
    human,       \* human[u]: the status of u's humanMembers entry
    seat,        \* seat[s]: the botSeats entry with id s
    seated,      \* the ids of botSeats in array order
    coordinator, \* coordinatorSeatId
    consent,     \* botOwnerConsents
    run          \* run[r]: the runs entry with id r

vars == <<roomStatus, human, seat, seated, coordinator, consent, run>>

HumanStatus == {"none", "invited", "active", "offline", "left", "removed"}
Settled     == {"completed", "failed", "cancelled", "blocked"}
RunStatus   == {"none", "running", "awaiting_peer", "awaiting_user"} \cup Settled

NoSeat == [status |-> "none", owner |-> None, bot |-> None, lead |-> FALSE]
NoRun  == [status |-> "none", seat |-> None, fence |-> 0,
           trigger |-> FALSE, key |-> None]

-----------------------------------------------------------------------------
Init ==
    /\ roomStatus = "active"
    /\ human = [u \in User |-> IF u = Owner THEN "active" ELSE "none"]
    /\ seat = [s \in SeatId |-> NoSeat]
    /\ seated = << >>
    /\ coordinator = None
    /\ consent = [s \in SeatId |-> FALSE]
    /\ run = [r \in RunId |-> NoRun]

ActiveRoom  == roomStatus = "active"
Active(u)   == human[u] = "active"
IsOwner(u)  == u = Owner /\ Active(u)
Live(s)     == seat[s].status \in {"idle", "running"}
CanRun(s)   == seat[s].owner = Owner \/ consent[s]
RunsOf(s)   == {r \in RunId : run[r].status # "none" /\ run[r].seat = s}
IsRunning(r) == run[r].status = "running"

-----------------------------------------------------------------------------
(* Human members. *)

InviteHuman(a, u) ==
    /\ ActiveRoom /\ IsOwner(a)
    /\ ~Active(u)
    /\ human' = [human EXCEPT ![u] = "invited"]
    /\ UNCHANGED <<roomStatus, seat, seated, coordinator, consent, run>>

AcceptInvitation(u) ==
    /\ ActiveRoom
    /\ human[u] = "invited"
    /\ human' = [human EXCEPT ![u] = "active"]
    /\ UNCHANGED <<roomStatus, seat, seated, coordinator, consent, run>>

LeaveHuman(u) ==
    /\ ActiveRoom
    /\ u # Owner
    /\ human[u] \notin {"none", "left", "removed"}
    /\ human' = [human EXCEPT ![u] = "left"]
    /\ UNCHANGED <<roomStatus, seat, seated, coordinator, consent, run>>

RemoveHuman(a, u) ==
    /\ ActiveRoom /\ IsOwner(a)
    /\ u # Owner
    /\ human[u] \notin {"none", "removed"}
    /\ human' = [human EXCEPT ![u] = "removed"]
    /\ UNCHANGED <<roomStatus, seat, seated, coordinator, consent, run>>

SetPresence(u, st) ==
    /\ human[u] \in {"active", "offline"}
    /\ human' = [human EXCEPT ![u] = st]
    /\ UNCHANGED <<roomStatus, seat, seated, coordinator, consent, run>>

-----------------------------------------------------------------------------
(* Runs that end because of something that happens to their seat: *)
(* cancelRunsForSeat calls finishRunInternal for each running run. *)

\* Mutant of RunsCancelled: the seat's status is written into the run.
RunsCancelledAsSeat(s) ==
    [r \in RunId |-> IF run[r].seat = s /\ IsRunning(r)
                     THEN [run[r] EXCEPT !.status = "removed"]
                     ELSE run[r]]

RunsCancelled(s) ==
    [r \in RunId |-> IF run[r].seat = s /\ IsRunning(r)
                     THEN [run[r] EXCEPT !.status = "cancelled"]
                     ELSE run[r]]

\* finishRunInternal and awaitRun free the seat of the run they end.
Freed(s) ==
    IF seat[s].status = "running" THEN [seat[s] EXCEPT !.status = "idle"] ELSE seat[s]

\* Mutant of SeatCancelled: finishRunInternal forgets to free the seat.
SeatStaysBusy(s) == seat[s]

SeatCancelled(s) ==
    IF \E r \in RunId : run[r].seat = s /\ IsRunning(r) THEN Freed(s) ELSE seat[s]

-----------------------------------------------------------------------------
(* Bot seats. *)

AddBot(a, s, b, agreed) ==
    /\ ActiveRoom
    /\ a \in {Owner, BotOwner[b]} /\ Active(a)
    /\ seat[s].status = "none"
    /\ \A t \in SeatId : Live(t) => seat[t].bot # b
    /\ LET lead == \A t \in SeatId : Live(t) => ~seat[t].lead
       IN  /\ seat' = [seat EXCEPT ![s] =
                         [status |-> "idle", owner |-> BotOwner[b], bot |-> b, lead |-> lead]]
           /\ coordinator' = IF lead THEN s ELSE coordinator
    /\ seated' = Append(seated, s)
    /\ consent' = [consent EXCEPT ![s] = (BotOwner[b] = a /\ agreed)]
    /\ UNCHANGED <<roomStatus, human, run>>

\* Mutant of SetConsent: withdrawing consent is only recorded.
SetConsentKeepingRuns(a, s, agreed) ==
    /\ Active(a)
    /\ Live(s) /\ seat[s].owner = a
    /\ consent' = [consent EXCEPT ![s] = agreed]
    /\ UNCHANGED <<roomStatus, human, seat, seated, coordinator, run>>

SetConsent(a, s, agreed) ==
    /\ Active(a)
    /\ Live(s) /\ seat[s].owner = a
    /\ consent' = [consent EXCEPT ![s] = agreed]
    /\ \/ agreed /\ UNCHANGED <<seat, run>>
       \/ /\ ~agreed
          /\ run' = RunsCancelled(s)
          /\ seat' = [seat EXCEPT ![s] = SeatCancelled(s)]
    /\ UNCHANGED <<roomStatus, human, seated, coordinator>>

\* Mutant of FirstLiveBut: nobody succeeds a coordinator.
NoSuccessor(s, t) == t = None

\* t is the first seat of the array, other than s, that is not removed.
FirstLiveBut(s, t) ==
    \/ t = None /\ \A u \in SeatId \ {s} : ~Live(u)
    \/ /\ t \in SeatId \ {s} /\ Live(t)
       /\ \E i \in DOMAIN seated :
            /\ seated[i] = t
            /\ \A j \in 1..(i - 1) : seated[j] = s \/ ~Live(seated[j])

RemoveBot(a, s) ==
    /\ IsOwner(a)
    /\ Live(s)
    /\ run' = RunsCancelled(s)
    /\ LET gone == [seat[s] EXCEPT !.status = "removed", !.lead = FALSE] IN
       IF seat[s].lead \/ coordinator = s
       THEN \E t \in SeatId \cup {None} :
              /\ FirstLiveBut(s, t)
              /\ coordinator' = t
              /\ seat' = [u \in SeatId |->
                            IF u = s THEN gone
                            ELSE [seat[u] EXCEPT !.lead = (u = t)]]
       ELSE /\ seat' = [seat EXCEPT ![s] = gone]
            /\ UNCHANGED coordinator
    /\ UNCHANGED <<roomStatus, human, seated, consent>>

-----------------------------------------------------------------------------
(* Runs. *)

FencesOf(s) == {run[r].fence : r \in RunsOf(s)}

\* Mutant of BeginRun: the fence counts the running runs of the seat only.
BeginRunRefenced(s, r, trigger, k) ==
    /\ run[r].status = "none"
    /\ run' = [run EXCEPT ![r] = [status |-> "running", seat |-> s, fence |-> 1,
                                 trigger |-> trigger, key |-> k]]
    /\ seat' = [seat EXCEPT ![s].status = "running"]

\* What startRun, retryRun and continueDepthStop do once their guards hold:
\* a new run with a fence above every fence its seat has had.
BeginRun(s, r, trigger, k) ==
    /\ run[r].status = "none"
    /\ \E m \in {0} \cup FencesOf(s) :
         /\ \A f \in FencesOf(s) : f <= m
         /\ run' = [run EXCEPT ![r] =
                      [status |-> "running", seat |-> s, fence |-> m + 1,
                       trigger |-> trigger, key |-> k]]
    /\ seat' = [seat EXCEPT ![s].status = "running"]

\* Mutant of Unused: the idempotency key is not looked up.
AnyKey(k) == TRUE

\* A keyed call that finds the run an earlier call with the key created
\* returns that run and changes nothing.
Unused(k) == k = None \/ \A r \in RunId : run[r].key # k

StartRun(a, s, r, trigger, k) ==
    /\ ActiveRoom /\ Active(a)
    /\ Live(s) /\ CanRun(s)
    /\ seat[s].status # "running"
    /\ Unused(k)
    /\ BeginRun(s, r, trigger, k)
    /\ UNCHANGED <<roomStatus, human, seated, coordinator, consent>>

RetryRun(a, old, asked, r, keyed) ==
    LET s == IF asked = None THEN run[old].seat ELSE asked
        k == IF keyed THEN <<old, asked>> ELSE None
    IN  /\ ActiveRoom /\ Active(a)
        /\ run[old].status \in {"failed", "cancelled"}
        /\ run[old].trigger
        /\ Live(s) /\ CanRun(s)
        /\ Unused(k)
        /\ seat[s].status # "running"
        /\ BeginRun(s, r, TRUE, k)
        /\ UNCHANGED <<roomStatus, human, seated, coordinator, consent>>

\* awaitRun: the run parks, waiting for a peer's reply or for the user, and
\* its seat is free for another run.
AwaitRun(a, r, st) ==
    /\ ActiveRoom /\ Active(a)
    /\ IsRunning(r)
    /\ run' = [run EXCEPT ![r].status = st]
    /\ seat' = [seat EXCEPT ![run[r].seat] = Freed(run[r].seat)]
    /\ UNCHANGED <<roomStatus, human, seated, coordinator, consent>>

\* Mutant of FinishRun: it does not test that the run is still running.
FinishAnyRun(a, r, st) ==
    /\ human[a] \notin {"none", "left", "removed"}
    /\ run[r].status # "none"
    /\ run' = [run EXCEPT ![r].status = st]
    /\ seat' = [seat EXCEPT ![run[r].seat] = Freed(run[r].seat)]
    /\ UNCHANGED <<roomStatus, human, seated, coordinator, consent>>

FinishRun(a, r, st) ==
    /\ human[a] \notin {"none", "left", "removed"}
    /\ IsRunning(r)
    /\ run' = [run EXCEPT ![r].status = st]
    /\ seat' = [seat EXCEPT ![run[r].seat] = Freed(run[r].seat)]
    /\ UNCHANGED <<roomStatus, human, seated, coordinator, consent>>

SetStatus(a, st) ==
    /\ IsOwner(a)
    /\ roomStatus' = st
    /\ UNCHANGED <<human, seat, seated, coordinator, consent, run>>

-----------------------------------------------------------------------------
MemberNext ==
    \E u \in User :
        \/ \E a \in User : InviteHuman(a, u) \/ RemoveHuman(a, u)
        \/ AcceptInvitation(u)
        \/ LeaveHuman(u)
        \/ \E st \in {"active", "offline"} : SetPresence(u, st)
        \/ \E st \in {"active", "paused"} : SetStatus(u, st)

SeatNext ==
    \E a \in User, s \in SeatId :
        \/ \E b \in Bot, agreed \in BOOLEAN : AddBot(a, s, b, agreed)
        \/ \E agreed \in BOOLEAN : SetConsent(a, s, agreed)
        \/ RemoveBot(a, s)

RunNext ==
    \E a \in User, r \in RunId :
        \/ \E s \in SeatId, trigger \in BOOLEAN, k \in StartKey \cup {None} :
             StartRun(a, s, r, trigger, k)
        \/ \E old \in RunId, asked \in SeatId \cup {None}, keyed \in BOOLEAN :
             RetryRun(a, old, asked, r, keyed)
        \/ \E st \in {"awaiting_peer", "awaiting_user"} : AwaitRun(a, r, st)
        \/ \E st \in Settled : FinishRun(a, r, st)

Next == MemberNext \/ SeatNext \/ RunNext

Spec == Init /\ [][Next]_vars

-----------------------------------------------------------------------------
SeatType == [status: {"none", "idle", "running", "removed"},
             owner: User \cup {None}, bot: Bot \cup {None}, lead: BOOLEAN]
RunType  == [status: RunStatus, seat: SeatId \cup {None}, fence: Nat,
             trigger: BOOLEAN, key: StartKey \cup RetryKey \cup {None}]

\* The type of every variable; a run that exists names a seat.
TypeOK ==
    /\ roomStatus \in {"active", "paused"}
    /\ human \in [User -> HumanStatus]
    /\ seat \in [SeatId -> SeatType]
    /\ seated \in Seq(SeatId)
    /\ coordinator \in SeatId \cup {None}
    /\ consent \in [SeatId -> BOOLEAN]
    /\ run \in [RunId -> RunType]
    /\ \A r \in RunId : run[r].status # "none" => run[r].seat \in SeatId

(* A seat is marked running exactly while one run of it is running, and it *)
(* never has two: the mark is what startRun, retryRun and the depth-stop   *)
(* continuation test, and six operations must keep it in step with runs.   *)
SeatBusyIffRunning ==
    /\ \A s \in SeatId :
         seat[s].status = "running" <=> \E r \in RunId : run[r].seat = s /\ IsRunning(r)
    /\ \A r, q \in RunId :
         IsRunning(r) /\ IsRunning(q) /\ run[r].seat = run[q].seat => r = q

(* Fencing: a running run holds the greatest fence of its seat, and no two *)
(* runs of a seat share a fence, so a (run, fence) pair from an earlier    *)
(* turn can never pass for the current one.                                *)
RunningHoldsLatestFence ==
    \A r, q \in RunId :
        r # q /\ q \in RunsOf(run[r].seat) /\ r \in RunsOf(run[q].seat) =>
            /\ run[r].fence # run[q].fence
            /\ IsRunning(r) => run[q].fence < run[r].fence

(* No bot runs without authority: a running run's seat is not removed, and *)
(* the seat is the room owner's own or its owner consents right now, even  *)
(* when consent was withdrawn or the seat removed in the middle of a turn. *)
RunningAuthorized ==
    \A r \in RunId : IsRunning(r) => Live(run[r].seat) /\ CanRun(run[r].seat)

(* The two records of who coordinates agree: coordinatorSeatId names the   *)
(* one live seat flagged isCoordinator, and there is one whenever the room *)
(* has a live seat, whatever order seats are added and removed in.         *)
CoordinatorConsistent ==
    /\ \A s \in SeatId : seat[s].lead <=> s = coordinator
    /\ coordinator = None <=> \A s \in SeatId : ~Live(s)
    /\ coordinator # None => Live(coordinator)

(* At most one run is ever created for one idempotency key, however often  *)
(* the call is repeated and whatever happens to the run in between.        *)
OneRunPerKey ==
    \A r, q \in RunId : run[r].key # None /\ run[r].key = run[q].key => r = q

(* A run that has settled, or has parked waiting for a peer or the user,   *)
(* is never revived or rewritten: late results, cancellations and retries  *)
(* leave its record alone.                                                 *)
SettledRunsFrozen ==
    [][\A r \in RunId : run[r].status \notin {"none", "running"} => run'[r] = run[r]]_vars

=============================================================================
