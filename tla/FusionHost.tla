---------------------------- MODULE FusionHost ------------------------------
(***************************************************************************)
(* Several FusionRoomHosts (one per application process) that serve one    *)
(* room from one snapshot store                                            *)
(* (packages/core/src/collaboration/fusion-room-host.ts and                *)
(* apps/electron/src/main/lib/collaboration/fusion-room-snapshot-store.ts).*)
(*                                                                         *)
(* A snapshot is abstracted to the updates it contains, in order, the      *)
(* number of its events, which is what save() compares, and whether the    *)
(* owner is active, which is what restoring it requires.  dispatch() is    *)
(* synchronous: within a process it is one step, and its save compares and *)
(* writes under the store's lock, so it is one step for the others too.    *)
(* createRoom() reads the store outside the lock, so it is two.            *)
(* The save is taken to be atomic; AtomicJson models the write itself.     *)
(***************************************************************************)
EXTENDS Naturals, Sequences, Functions

CONSTANTS
    Host,     \* processes that run a FusionRoomHost on the store
    Creator,  \* the Hosts whose user creates the room
    Update,   \* one accepted call each; a caller may repeat a keyed one
    Kind,     \* what the update does to the event log, see below
    None

(* "logged":  the action appends an event under its idempotency key        *)
(* "silent":  it changes the room, but its key is one an earlier event     *)
(*            already has, so event() appends nothing (commit-file,        *)
(*            lock and finish-run do not look the key up themselves)       *)
(* "offline", "online": the owner's presence call, always an event         *)
ASSUME KindAssumption == Kind \in [Update -> {"logged", "silent", "offline", "online"}]
ASSUME HostAssumption == Creator \subseteq Host /\ Host \cap Update = {}
ASSUME NoneAssumption == None \notin [hist : Seq(Host \cup Update), events : Nat,
                                      present : BOOLEAN] \cup Seq(Host \cup Update)

VARIABLES
    store,    \* the persisted snapshot, None before the room exists
    mem,      \* mem[h]: the room in Host h's rooms map, None when not cached
    creating, \* the Hosts inside createRoom, past its check
    shown,    \* shown[h]: the room as h's subscribers last saw it
    acked     \* updates whose callers were told they succeeded

vars == <<store, mem, creating, shown, acked>>

Snapshot == [hist : Seq(Host \cup Update), events : Nat, present : BOOLEAN]

Init ==
    /\ store = None
    /\ mem = [h \in Host |-> None]
    /\ creating = {}
    /\ shown = [h \in Host |-> None]
    /\ acked = {}

-----------------------------------------------------------------------------
\* The room as its constructor leaves it: owned by h's user, one event.
Created(h) == [hist |-> <<h>>, events |-> 1, present |-> TRUE]

\* Mutant of Applied: a repeated call is not recognised by its key.
AppliedAgain(s, u) ==
    [hist |-> Append(s.hist, u),
     events |-> IF Kind[u] = "silent" THEN s.events ELSE s.events + 1,
     present |-> IF Kind[u] \in {"offline", "online"}
                 THEN Kind[u] = "online" ELSE s.present]

\* The snapshot with update u applied; a repeated call finds its key there.
Applied(s, u) ==
    IF u \in Range(s.hist) THEN s
    ELSE [hist |-> Append(s.hist, u),
          events |-> IF Kind[u] = "silent" THEN s.events ELSE s.events + 1,
          present |-> IF Kind[u] \in {"offline", "online"}
                      THEN Kind[u] = "online" ELSE s.present]

EventCount == IF store = None THEN 0 ELSE store.events

\* validateSnapshot: only a room whose owner is active can be restored.
Restorable(s) == s.present

\* Mutant of BeginCreate: createRoom does not look in the store.
BeginCreateUnlessCached(h) ==
    /\ h \in Creator \ creating
    /\ mem[h] = None
    /\ creating' = creating \cup {h}
    /\ UNCHANGED <<store, mem, shown, acked>>

\* Mutant of BeginCreate: createRoom does not look at the rooms it holds.
BeginCreateUnlessStored(h) ==
    /\ h \in Creator \ creating
    /\ store = None
    /\ creating' = creating \cup {h}
    /\ UNCHANGED <<store, mem, shown, acked>>

\* createRoom finds the room neither in its map nor in the store.
BeginCreate(h) ==
    /\ h \in Creator \ creating
    /\ mem[h] = None
    /\ store = None
    /\ creating' = creating \cup {h}
    /\ UNCHANGED <<store, mem, shown, acked>>

\* It saves the new room, without an expected event count.
SaveCreated(h) ==
    /\ h \in creating
    /\ store' = Created(h)
    /\ mem' = [mem EXCEPT ![h] = Created(h)]
    /\ creating' = creating \ {h}
    /\ acked' = acked \cup {h}
    /\ UNCHANGED shown

\* The save throws (store locked, disk error) after the room entered the map.
CreateFails(h) ==
    /\ h \in creating
    /\ mem' = [mem EXCEPT ![h] = Created(h)]
    /\ creating' = creating \ {h}
    /\ UNCHANGED <<store, shown, acked>>

\* room(): the first use of a room in a process restores it from the store.
Load(h) ==
    /\ h \notin creating
    /\ mem[h] = None
    /\ store # None /\ Restorable(store)
    /\ mem' = [mem EXCEPT ![h] = store]
    /\ UNCHANGED <<store, creating, shown, acked>>

Subscribe(h) ==
    /\ mem[h] # None
    /\ shown' = [shown EXCEPT ![h] = mem[h].hist]
    /\ UNCHANGED <<store, mem, creating, acked>>

\* Mutant of Notified: the old event count is read after the action.
NotifiedNever(h, s) == shown

\* notify(): subscribers are told when the action appended events.
Notified(h, s) ==
    IF shown[h] # None /\ s.events > mem[h].events
    THEN [shown EXCEPT ![h] = s.hist] ELSE shown

\* A call h's room accepts, or one of the keyed calls it already contains.
Accepts(h, u) ==
    /\ mem[h] # None
    /\ Kind[u] = "logged" \/ u \notin Range(mem[h].hist)
    /\ Kind[u] = "silent" =>
         \E v \in Update : Kind[v] = "logged" /\ v \in Range(mem[h].hist)

\* Mutant of Dispatch: save() gets no expected event count.
DispatchUnchecked(h, u) ==
    /\ Accepts(h, u)
    /\ LET s == Applied(mem[h], u)
       IN  /\ store' = s
           /\ mem' = [mem EXCEPT ![h] = s]
           /\ shown' = Notified(h, s)
    /\ acked' = acked \cup {u}
    /\ UNCHANGED creating

\* The action is applied, saved over the same number of events, announced.
Dispatch(h, u) ==
    /\ Accepts(h, u)
    /\ mem[h].events = EventCount
    /\ LET s == Applied(mem[h], u)
       IN  /\ store' = s
           /\ mem' = [mem EXCEPT ![h] = s]
           /\ shown' = Notified(h, s)
    /\ acked' = acked \cup {u}
    /\ UNCHANGED creating

\* The process stops after the save and before the answer.
DispatchThenCrash(h, u) ==
    /\ Accepts(h, u)
    /\ mem[h].events = EventCount
    /\ store' = Applied(mem[h], u)
    /\ mem' = [mem EXCEPT ![h] = None]
    /\ shown' = [shown EXCEPT ![h] = None]
    /\ UNCHANGED <<creating, acked>>

\* The save is refused as stale, or fails.  The Host then restores the room
\* it had before, which changes nothing (no action), unless that room cannot
\* be restored: then the map keeps the room with the refused update.
RollbackFails(h, u) ==
    /\ Accepts(h, u)
    /\ ~Restorable(mem[h])
    /\ mem' = [mem EXCEPT ![h] = Applied(mem[h], u)]
    /\ UNCHANGED <<store, creating, shown, acked>>

\* The process ends; a new one starts with an empty map.
Crash(h) ==
    /\ mem' = [mem EXCEPT ![h] = None]
    /\ shown' = [shown EXCEPT ![h] = None]
    /\ creating' = creating \ {h}
    /\ UNCHANGED <<store, acked>>

-----------------------------------------------------------------------------
CreateNext == \E h \in Host : BeginCreate(h) \/ SaveCreated(h) \/ CreateFails(h)

ServeNext ==
    \E h \in Host, u \in Update :
        Dispatch(h, u) \/ DispatchThenCrash(h, u) \/ RollbackFails(h, u)

LifeNext == \E h \in Host : Load(h) \/ Subscribe(h) \/ Crash(h)

Next == CreateNext \/ ServeNext \/ LifeNext

Spec == Init /\ [][Next]_vars

\* A process that is asked to restores the room, and a client whose update
\* was refused keeps asking.  Nothing obliges a process to end.
FairSpec ==
    /\ Spec
    /\ \A h \in Host : WF_vars(Load(h)) /\ WF_vars(SaveCreated(h) \/ CreateFails(h))
    /\ \A h \in Host, u \in Update : WF_vars(Dispatch(h, u))

-----------------------------------------------------------------------------
TypeOK ==
    /\ store \in Snapshot \cup {None}
    /\ mem \in [Host -> Snapshot \cup {None}]
    /\ creating \subseteq {h \in Host : mem[h] = None}
    /\ shown \in [Host -> Seq(Host \cup Update) \cup {None}]
    /\ acked \subseteq Host \cup Update

PrefixOf(a, b) == \A i \in DOMAIN a : i \in DOMAIN b /\ a[i] = b[i]

\* The cached room of every Host (FusionRoomHost.rooms) is an earlier state
\* of the persisted room, or a room whose creation could not be saved: what
\* a Host answers reads with once was the truth, never a fork of it.
CachesArePrefixes ==
    \A h \in Host : mem[h] # None =>
        IF store = None THEN mem[h] = Created(h)
        ELSE PrefixOf(mem[h].hist, store.hist)

\* A subscriber's last notification carries the room as its Host has it
\* (FusionRoomHost.notify): no change of the room goes unannounced.
ShownIsCurrent ==
    \A h \in Host : shown[h] # None => mem[h] # None /\ shown[h] = mem[h].hist

\* An update whose caller was told it succeeded is in the persisted room: no
\* other Host has overwritten it (FusionRoomSnapshotStore.save: "reject a
\* stale writer instead of overwriting another Host's update").
AckedDurable ==
    store # None => acked \subseteq Range(store.hist)

\* A Host whose cached room fell behind the persisted one, and which can
\* therefore save nothing, catches up (the conflict's message asks the
\* caller to reload and retry).
StaleHostCatchesUp ==
    \A h \in Host :
        mem[h] # None /\ store # None /\ mem[h].events # EventCount ~>
            mem[h] = None \/ mem[h].events = EventCount

\* Together the Hosts implement one growing log of updates.
Persisted == IF store = None THEN << >> ELSE store.hist
Log == INSTANCE RoomLog WITH Entry <- Host \cup Update, log <- Persisted
ImplementsRoomLog == Log!Spec
=============================================================================
