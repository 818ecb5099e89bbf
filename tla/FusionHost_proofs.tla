-------------------------- MODULE FusionHost_proofs -------------------------
(* Proofs about FusionHost for any number of Hosts and updates, when one   *)
(* Host creates the room and every action appends an event, which is what  *)
(* makes the event count that save() compares a version of the room.  The  *)
(* invariant ties each cached room to the persisted one: it is a prefix of *)
(* it, so an equal count means an equal room, and a save that passes the   *)
(* comparison extends the persisted room by one update.  For updates of    *)
(* every kind: types, and that a single Host loses nothing.                *)
EXTENDS FusionHost, SequenceTheorems, TLAPS

OneCreator == \A g, h \in Creator : g = h
AllLogged  == \A u \in Update : Kind[u] = "logged"

-----------------------------------------------------------------------------
(* Sequences. *)

\* Appending adds one element to what a sequence holds.
LEMMA RangeAppend ==
    ASSUME NEW S, NEW s \in Seq(S), NEW e \in S
    PROVE  Range(Append(s, e)) = Range(s) \cup {e}
<1>1. DOMAIN s = 1..Len(s) /\ Len(s) \in Nat
  BY LenProperties
<1>2. DOMAIN Append(s, e) = 1..(Len(s) + 1)
  BY AppendProperties, LenProperties
<1>3. \A i \in 1..Len(s) : Append(s, e)[i] = s[i]
  BY AppendProperties
<1>4. Append(s, e)[Len(s) + 1] = e
  BY AppendProperties
<1>5. ASSUME NEW x \in Range(Append(s, e)) PROVE x \in Range(s) \cup {e}
  <2>1. PICK i \in 1..(Len(s) + 1) : x = Append(s, e)[i]
    BY <1>2 DEF Range
  <2>2. CASE i = Len(s) + 1
    BY <1>4, <2>1, <2>2
  <2>3. CASE i # Len(s) + 1
    BY <1>1, <1>3, <2>1, <2>3 DEF Range
  <2> QED
    BY <2>2, <2>3
<1>6. ASSUME NEW x \in Range(s) \cup {e} PROVE x \in Range(Append(s, e))
  <2>1. CASE x = e
    BY <1>1, <1>2, <1>4, <2>1 DEF Range
  <2>2. CASE x \in Range(s)
    BY <1>1, <1>2, <1>3, <2>2 DEF Range
  <2> QED
    BY <2>1, <2>2
<1> QED
  BY <1>5, <1>6

\* A prefix stays one when the longer sequence grows.
LEMMA PrefixAppend ==
    ASSUME NEW S, NEW s \in Seq(S), NEW t \in Seq(S), NEW e \in S, PrefixOf(s, t)
    PROVE  PrefixOf(s, Append(t, e))
BY AppendProperties, LenProperties DEF PrefixOf

\* A prefix as long as the whole is the whole.
LEMMA PrefixEqual ==
    ASSUME NEW S, NEW s \in Seq(S), NEW t \in Seq(S), PrefixOf(s, t), Len(s) = Len(t)
    PROVE  s = t
BY SeqEqual, LenProperties DEF PrefixOf

-----------------------------------------------------------------------------
\* The event count is a version number: it tells how many updates there are.
Counted(s) == s.events = Len(s.hist) /\ s.present

IInv ==
    /\ TypeOK
    /\ store # None => Counted(store)
    /\ \A h \in Host : mem[h] # None => Counted(mem[h])
    /\ CachesArePrefixes
    /\ store = None => \A h \in Host : mem[h] # None => h \in Creator
    /\ creating # {} => store = None /\ creating \subseteq Creator
    /\ acked \subseteq Range(Persisted)
    /\ ShownIsCurrent

\* What an accepted save over the expected event count means: the cached
\* room is the persisted one, and the new one has at most one update more.
LEMMA SaveExtends ==
    ASSUME IInv, AllLogged, NEW h \in Host, NEW u \in Update,
           Accepts(h, u), mem[h].events = EventCount
    PROVE  /\ store # None /\ store \in Snapshot /\ mem[h] = store
           /\ Applied(store, u) \in Snapshot /\ Counted(Applied(store, u))
           /\ \/ Applied(store, u) = store /\ u \in Range(store.hist)
              \/ /\ Applied(store, u).hist = Append(store.hist, u)
                 /\ Applied(store, u).events = store.events + 1
                 /\ u \notin Range(store.hist)
<1>1. mem[h] \in Snapshot /\ mem[h] # None /\ Counted(mem[h])
  BY DEF IInv, TypeOK, Accepts
<1>2. store # None
  <2>1. SUFFICES ASSUME store = None PROVE FALSE
    OBVIOUS
  <2>2. mem[h] = Created(h)
    BY <1>1, <2>1 DEF IInv, CachesArePrefixes
  <2> QED
    BY <2>1, <2>2 DEF Created, EventCount
<1>3. store \in Snapshot /\ Counted(store)
  BY <1>2 DEF IInv, TypeOK
<1>4. PrefixOf(mem[h].hist, store.hist)
  BY <1>1, <1>2 DEF IInv, CachesArePrefixes
<1>5. mem[h].hist = store.hist
  <2>1. mem[h].hist \in Seq(Host \cup Update) /\ store.hist \in Seq(Host \cup Update)
    BY <1>1, <1>3 DEF Snapshot
  <2>2. Len(mem[h].hist) = Len(store.hist)
    BY <1>1, <1>2, <1>3 DEF Counted, EventCount
  <2> QED
    BY <1>4, <2>1, <2>2, PrefixEqual
<1>6. mem[h] = store
  BY <1>1, <1>2, <1>3, <1>5 DEF Snapshot, Counted, EventCount
<1>7. CASE u \in Range(store.hist)
  BY <1>2, <1>3, <1>6, <1>7 DEF Applied
<1>8. CASE u \notin Range(store.hist)
  <2>1. Applied(store, u) = [hist |-> Append(store.hist, u),
                             events |-> store.events + 1, present |-> store.present]
    BY <1>8 DEF Applied, AllLogged
  <2>2. /\ store.hist \in Seq(Host \cup Update) /\ u \in Host \cup Update
        /\ store.events \in Nat /\ store.present \in BOOLEAN
    BY <1>3 DEF Snapshot
  <2>3. /\ Append(store.hist, u) \in Seq(Host \cup Update)
        /\ Len(Append(store.hist, u)) = Len(store.hist) + 1
    BY <2>2, AppendProperties
  <2>4. Applied(store, u) \in Snapshot
    BY <2>1, <2>2, <2>3 DEF Snapshot
  <2>5. Counted(Applied(store, u))
    BY <1>3, <2>1, <2>3 DEF Counted
  <2> QED
    BY <1>2, <1>3, <1>6, <1>8, <2>1, <2>4, <2>5
<1> QED
  BY <1>7, <1>8

\* None stands for no room and no list of updates.
LEMMA NoneIsNeither == None \notin Snapshot /\ None \notin Seq(Host \cup Update)
BY NoneAssumption DEF Snapshot

\* A new room is a well-formed snapshot.
LEMMA CreatedFacts ==
    ASSUME NEW h \in Host
    PROVE  Created(h) \in Snapshot /\ Counted(Created(h))
<1>1. <<h>> \in Seq(Host \cup Update) /\ Len(<<h>>) = 1
  OBVIOUS
<1> QED
  BY <1>1 DEF Created, Snapshot, Counted

\* The steps of creating a room keep the invariant.
LEMMA CreateStep ==
    ASSUME IInv, OneCreator, CreateNext
    PROVE  IInv'
<1>1. PICK h \in Host : BeginCreate(h) \/ SaveCreated(h) \/ CreateFails(h)
  BY DEF CreateNext
<1>2. CASE BeginCreate(h)
  <2>1. h \in Creator /\ store = None /\ creating' = creating \cup {h} /\ mem[h] = None
        /\ UNCHANGED <<store, mem, shown, acked>>
    BY <1>2 DEF BeginCreate
  <2>2. TypeOK'
    BY <2>1 DEF IInv, TypeOK
  <2>3. CachesArePrefixes' /\ ShownIsCurrent' /\ acked' \subseteq Range(Persisted')
    BY <2>1 DEF IInv, CachesArePrefixes, ShownIsCurrent, Persisted
  <2>4. /\ store' # None => Counted(store)'
        /\ \A g \in Host : mem'[g] # None => Counted(mem[g])'
        /\ store' = None => \A g \in Host : mem'[g] # None => g \in Creator
        /\ creating' # {} => store' = None /\ creating' \subseteq Creator
    BY <2>1 DEF IInv, Counted
  <2> QED
    BY <2>2, <2>3, <2>4 DEF IInv
<1>3. CASE SaveCreated(h) \/ CreateFails(h)
  <2>1. h \in creating /\ h \in Creator /\ store = None /\ mem[h] = None
    BY <1>3 DEF IInv, TypeOK, SaveCreated, CreateFails
  <2>2. \A g \in Host : mem[g] = None
    BY <2>1 DEF IInv, OneCreator
  <2>3. creating' = {} /\ acked = {}
    <3>1. creating' = creating \ {h}
      BY <1>3 DEF SaveCreated, CreateFails
    <3>2. Range(Persisted) = {}
      BY <2>1 DEF Persisted, Range
    <3> QED
      BY <2>1, <3>1, <3>2 DEF IInv, OneCreator
  <2>4. /\ mem' = [mem EXCEPT ![h] = Created(h)] /\ shown' = shown
        /\ \/ store' = Created(h) /\ acked' = {h}
           \/ store' = None /\ acked' = {}
    BY <1>3, <2>1, <2>3 DEF SaveCreated, CreateFails
  <2>5. /\ Created(h) \in Snapshot /\ Counted(Created(h)) /\ Created(h) # None
        /\ Created(h).hist = <<h>> /\ Range(<<h>>) = {h}
    <3>1. Created(h) \in Snapshot /\ Counted(Created(h)) /\ Created(h) # None
      BY CreatedFacts, NoneIsNeither
    <3>2. Created(h).hist = <<h>>
      BY DEF Created
    <3>3. DOMAIN <<h>> = {1} /\ <<h>>[1] = h
      OBVIOUS
    <3> QED
      BY <3>1, <3>2, <3>3 DEF Range
  <2>6. \A g \in Host : mem'[g] = IF g = h THEN Created(h) ELSE None
    BY <2>2, <2>4 DEF IInv, TypeOK
  <2>7. TypeOK'
    <3>1. store' \in Snapshot \cup {None}
      BY <2>4, <2>5
    <3>2. mem' \in [Host -> Snapshot \cup {None}]
      BY <2>4, <2>5 DEF IInv, TypeOK
    <3> QED
      BY <2>3, <2>4, <3>1, <3>2 DEF IInv, TypeOK
  <2>8. CachesArePrefixes'
    <3>1. PrefixOf(Created(h).hist, Created(h).hist)
      BY DEF PrefixOf
    <3> QED
      BY <2>4, <2>5, <2>6, <3>1 DEF CachesArePrefixes
  <2>9. ShownIsCurrent'
    BY <2>2, <2>4 DEF IInv, ShownIsCurrent
  <2>10. acked' \subseteq Range(Persisted')
    BY <2>4, <2>5 DEF Persisted
  <2>11. /\ store' # None => Counted(store)'
         /\ \A g \in Host : mem'[g] # None => Counted(mem[g])'
         /\ store' = None => \A g \in Host : mem'[g] # None => g \in Creator
    BY <2>1, <2>4, <2>5, <2>6 DEF Counted
  <2> QED
    BY <2>3, <2>7, <2>8, <2>9, <2>10, <2>11 DEF IInv
<1> QED
  BY <1>1, <1>2, <1>3

\* The steps of a Host's life keep the invariant.
LEMMA LifeStep ==
    ASSUME IInv, LifeNext
    PROVE  IInv'
<1>1. PICK h \in Host : Load(h) \/ Subscribe(h) \/ Crash(h)
  BY DEF LifeNext
<1>2. store' = store /\ acked' = acked /\ creating' \subseteq creating
  BY <1>1 DEF Load, Subscribe, Crash
<1>3. CASE Load(h)
  <2>1. /\ mem' = [mem EXCEPT ![h] = store] /\ store # None /\ h \notin creating
        /\ mem[h] = None /\ creating' = creating /\ shown' = shown
    BY <1>3 DEF Load
  <2>2. \A g \in Host : mem'[g] = IF g = h THEN store ELSE mem[g]
    BY <2>1 DEF IInv, TypeOK
  <2>3. TypeOK'
    BY <1>2, <2>1, <2>2 DEF IInv, TypeOK
  <2>4. CachesArePrefixes'
    <3>1. PrefixOf(store.hist, store.hist)
      BY DEF PrefixOf
    <3> QED
      BY <1>2, <2>1, <2>2, <3>1 DEF IInv, CachesArePrefixes
  <2>5. ShownIsCurrent'
    BY <2>1, <2>2 DEF IInv, ShownIsCurrent
  <2>6. \A g \in Host : mem'[g] # None => Counted(mem[g])'
    BY <1>2, <2>1, <2>2 DEF IInv, Counted
  <2> QED
    BY <1>2, <2>1, <2>3, <2>4, <2>5, <2>6 DEF IInv, Persisted, Counted
<1>4. CASE Subscribe(h)
  <2>1. /\ shown' = [shown EXCEPT ![h] = mem[h].hist] /\ mem[h] # None
        /\ mem' = mem /\ creating' = creating
    BY <1>4 DEF Subscribe
  <2>2. mem[h].hist \in Seq(Host \cup Update)
    BY <2>1 DEF IInv, TypeOK, Snapshot
  <2>3. TypeOK' /\ ShownIsCurrent'
    BY <1>2, <2>1, <2>2 DEF IInv, TypeOK, ShownIsCurrent
  <2> QED
    BY <1>2, <2>1, <2>3 DEF IInv, CachesArePrefixes, Persisted, Counted
<1>5. CASE Crash(h)
  <2>1. /\ mem' = [mem EXCEPT ![h] = None] /\ shown' = [shown EXCEPT ![h] = None]
        /\ creating' = creating \ {h}
    BY <1>5 DEF Crash
  <2>2. \A g \in Host : /\ mem'[g] = IF g = h THEN None ELSE mem[g]
                        /\ shown'[g] = IF g = h THEN None ELSE shown[g]
    BY <2>1 DEF IInv, TypeOK
  <2>3. TypeOK'
    BY <1>2, <2>1, <2>2 DEF IInv, TypeOK
  <2>4. CachesArePrefixes' /\ ShownIsCurrent'
    BY <1>2, <2>2 DEF IInv, CachesArePrefixes, ShownIsCurrent
  <2>5. \A g \in Host : mem'[g] # None => Counted(mem[g])'
    BY <2>2 DEF IInv, Counted
  <2>6. store' = None => \A g \in Host : mem'[g] # None => g \in Creator
    BY <1>2, <2>2 DEF IInv
  <2> QED
    BY <1>2, <2>3, <2>4, <2>5, <2>6 DEF IInv, Persisted, Counted
<1> QED
  BY <1>1, <1>3, <1>4, <1>5

\* The steps of serving a call keep the invariant.
LEMMA ServeStep ==
    ASSUME IInv, AllLogged, ServeNext
    PROVE  IInv'
<1>1. PICK h \in Host, u \in Update :
        Dispatch(h, u) \/ DispatchThenCrash(h, u) \/ RollbackFails(h, u)
  BY DEF ServeNext
<1>2. ~RollbackFails(h, u)
  BY DEF RollbackFails, Accepts, Restorable, IInv, Counted
<1>3. Accepts(h, u) /\ mem[h].events = EventCount /\ store' = Applied(store, u)
  <2>1. Accepts(h, u) /\ mem[h].events = EventCount
    BY <1>1, <1>2 DEF Dispatch, DispatchThenCrash
  <2> QED
    BY <1>1, <1>2, <2>1, SaveExtends DEF Dispatch, DispatchThenCrash
<1>4. /\ store # None /\ store \in Snapshot /\ mem[h] = store
      /\ store' \in Snapshot /\ Counted(store)'
      /\ \/ store' = store /\ u \in Range(store.hist)
         \/ /\ store'.hist = Append(store.hist, u)
            /\ store'.events = store.events + 1
  BY <1>3, SaveExtends DEF Counted
<1>5. store' # None
  BY <1>4, NoneIsNeither
<1>6. creating = {} /\ creating' = {}
  BY <1>1, <1>2, <1>4 DEF IInv, Dispatch, DispatchThenCrash
<1>7. /\ u \in Range(store'.hist) /\ Range(store.hist) \subseteq Range(store'.hist)
      /\ \A g \in Host : mem[g] # None => PrefixOf(mem[g].hist, store'.hist)
  <2>1. store.hist \in Seq(Host \cup Update)
    BY <1>4 DEF Snapshot
  <2>2. \A g \in Host : mem[g] # None =>
           mem[g].hist \in Seq(Host \cup Update) /\ PrefixOf(mem[g].hist, store.hist)
    BY <1>4 DEF IInv, TypeOK, Snapshot, CachesArePrefixes
  <2>3. CASE store' = store /\ u \in Range(store.hist)
    BY <2>2, <2>3
  <2>4. CASE store'.hist = Append(store.hist, u)
    BY <2>1, <2>2, <2>4, RangeAppend, PrefixAppend
  <2> QED
    BY <1>4, <2>3, <2>4
<1>8. acked' \subseteq Range(Persisted')
  <2>1. acked \subseteq Range(store.hist)
    BY <1>4 DEF IInv, Persisted
  <2>2. acked' \in {acked, acked \cup {u}}
    BY <1>1, <1>2 DEF Dispatch, DispatchThenCrash
  <2> QED
    BY <1>5, <1>7, <2>1, <2>2 DEF Persisted
<1>9. \/ /\ mem' = [mem EXCEPT ![h] = store']
         /\ shown' = Notified(h, store')
      \/ /\ mem' = [mem EXCEPT ![h] = None]
         /\ shown' = [shown EXCEPT ![h] = None]
  BY <1>1, <1>2, <1>3, <1>4 DEF Dispatch, DispatchThenCrash
<1>10. \A g \in Host : \/ g # h /\ mem'[g] = mem[g]
                       \/ g = h /\ mem'[g] \in {store', None}
  BY <1>9 DEF IInv, TypeOK
<1>11. ShownIsCurrent' /\ shown' \in [Host -> Seq(Host \cup Update) \cup {None}]
  <2>1. store'.hist \in Seq(Host \cup Update)
    BY <1>4 DEF Snapshot
  <2>2. CASE mem' = [mem EXCEPT ![h] = store'] /\ shown' = Notified(h, store')
    <3>1. mem'[h] = store' /\ \A g \in Host \ {h} : mem'[g] = mem[g]
      BY <2>2 DEF IInv, TypeOK
    <3>2. CASE shown[h] # None /\ store'.events > mem[h].events
      <4>1. shown' = [shown EXCEPT ![h] = store'.hist]
        BY <2>2, <3>2 DEF Notified
      <4> QED
        BY <1>5, <2>1, <3>1, <4>1 DEF IInv, TypeOK, ShownIsCurrent
    <3>3. CASE shown[h] = None
      <4>1. shown' = shown
        BY <2>2, <3>3 DEF Notified
      <4> QED
        BY <3>1, <3>3, <4>1 DEF IInv, TypeOK, ShownIsCurrent
    <3>4. CASE ~(store'.events > mem[h].events) /\ shown[h] # None
      <4>1. shown' = shown
        BY <2>2, <3>4 DEF Notified
      <4>2. store' = store
        BY <1>4, <3>4 DEF Snapshot
      <4> QED
        BY <1>4, <3>1, <4>1, <4>2 DEF IInv, TypeOK, ShownIsCurrent
    <3> QED
      BY <3>2, <3>3, <3>4
  <2>3. CASE mem' = [mem EXCEPT ![h] = None] /\ shown' = [shown EXCEPT ![h] = None]
    BY <2>3 DEF IInv, TypeOK, ShownIsCurrent
  <2> QED
    BY <1>9, <2>2, <2>3
<1>12. TypeOK'
  <2>1. mem' \in [Host -> Snapshot \cup {None}]
    BY <1>4, <1>9 DEF IInv, TypeOK
  <2>2. acked' \subseteq Host \cup Update
    BY <1>1, <1>2 DEF Dispatch, DispatchThenCrash, IInv, TypeOK
  <2> QED
    BY <1>4, <1>6, <1>11, <2>1, <2>2 DEF TypeOK
<1>13. CachesArePrefixes'
  <2>1. PrefixOf(store'.hist, store'.hist)
    BY DEF PrefixOf
  <2> QED
    BY <1>5, <1>7, <1>10, <2>1 DEF CachesArePrefixes
<1>14. \A g \in Host : mem'[g] # None => Counted(mem[g])'
  BY <1>4, <1>10 DEF IInv, Counted
<1> QED
  BY <1>4, <1>5, <1>6, <1>8, <1>11, <1>12, <1>13, <1>14 DEF IInv

-----------------------------------------------------------------------------
\* The invariant: every Host's room is a prefix of the persisted room, every
\* acknowledged update is in it, and event counts are versions.
THEOREM Invariance ==
    ASSUME OneCreator, AllLogged
    PROVE  Spec => []IInv
<1>1. Init => IInv
  <2> SUFFICES ASSUME Init PROVE IInv
    OBVIOUS
  <2> USE DEF Init
  <2>1. TypeOK
    BY DEF TypeOK
  <2> QED
    BY <2>1 DEF IInv, CachesArePrefixes, ShownIsCurrent
<1>2. IInv /\ [Next]_vars => IInv'
  <2> SUFFICES ASSUME IInv, [Next]_vars PROVE IInv'
    OBVIOUS
  <2>1. CASE UNCHANGED vars
    BY <2>1 DEF vars, IInv, TypeOK, CachesArePrefixes, ShownIsCurrent, Counted, Persisted
  <2>2. CASE CreateNext
    BY <2>2, CreateStep
  <2>3. CASE ServeNext
    BY <2>3, ServeStep
  <2>4. CASE LifeNext
    BY <2>4, LifeStep
  <2> QED
    BY <2>1, <2>2, <2>3, <2>4 DEF Next
<1> QED
  BY <1>1, <1>2, PTL DEF Spec

\* What a Host answers reads with is always an earlier state of the one
\* persisted room, never a fork of it.
THEOREM Prefixes ==
    ASSUME OneCreator, AllLogged
    PROVE  Spec => []CachesArePrefixes
BY Invariance, PTL DEF IInv

\* No update whose caller was told it succeeded is ever overwritten.
THEOREM Durable ==
    ASSUME OneCreator, AllLogged
    PROVE  Spec => []AckedDurable
<1>1. IInv => AckedDurable
  BY DEF IInv, AckedDurable, Persisted
<1> QED
  BY <1>1, Invariance, PTL

\* Subscribers have been told of every change of their Host's room.
THEOREM Shown ==
    ASSUME OneCreator, AllLogged
    PROVE  Spec => []ShownIsCurrent
BY Invariance, PTL DEF IInv

\* The Hosts, their crashes and their callers' retries implement one log
\* that grows at its end and holds no update twice.
THEOREM Refinement ==
    ASSUME OneCreator, AllLogged
    PROVE  Spec => ImplementsRoomLog
<1>1. Init => Log!Init
  BY DEF Init, Log!Init, Persisted
<1>2. IInv /\ [Next]_vars => [Log!Next]_<<Persisted, acked>>
  <2> SUFFICES ASSUME IInv, [Next]_vars PROVE [Log!Next]_<<Persisted, acked>>
    OBVIOUS
  <2>1. CASE UNCHANGED vars \/ LifeNext
    BY <2>1 DEF vars, LifeNext, Load, Subscribe, Crash, Persisted
  <2>2. CASE CreateNext
    <3>1. PICK h \in Host : BeginCreate(h) \/ SaveCreated(h) \/ CreateFails(h)
      BY <2>2 DEF CreateNext
    <3>2. CASE BeginCreate(h) \/ CreateFails(h)
      BY <3>2 DEF BeginCreate, CreateFails, Persisted
    <3>3. CASE SaveCreated(h)
      <4>1. store = None /\ store' = Created(h) /\ acked' = acked \cup {h}
        BY <3>3 DEF SaveCreated, IInv
      <4>2. store' # None
        BY <4>1, CreatedFacts, NoneIsNeither
      <4>3. Persisted = << >> /\ Persisted' = <<h>>
        BY <4>1, <4>2 DEF Persisted, Created
      <4>4. Log!Commit(h)
        BY <4>1, <4>3 DEF Log!Commit, Log!Range
      <4> QED
        BY <4>4 DEF Log!Next
    <3> QED
      BY <3>1, <3>2, <3>3
  <2>3. CASE ServeNext
    <3>1. PICK h \in Host, u \in Update :
            Dispatch(h, u) \/ DispatchThenCrash(h, u) \/ RollbackFails(h, u)
      BY <2>3 DEF ServeNext
    <3>2. ~RollbackFails(h, u)
      BY DEF RollbackFails, Accepts, Restorable, IInv, Counted
    <3>3. /\ Accepts(h, u) /\ mem[h].events = EventCount
          /\ store' = Applied(mem[h], u) /\ acked' \in {acked, acked \cup {u}}
      BY <3>1, <3>2 DEF Dispatch, DispatchThenCrash
    <3>4. /\ store # None /\ mem[h] = store /\ store' \in Snapshot
          /\ \/ store' = store /\ u \in Range(store.hist)
             \/ store'.hist = Append(store.hist, u) /\ u \notin Range(store.hist)
      BY <3>3, SaveExtends
    <3>5. Persisted = store.hist /\ Persisted' = store'.hist
      BY <3>4, NoneIsNeither DEF Persisted
    <3>6. CASE store' = store /\ u \in Range(store.hist)
      <4>1. Persisted' = Persisted
        BY <3>5, <3>6
      <4>2. acked' = acked \/ Log!Acknowledge(u)
        BY <3>3, <3>5, <3>6, <4>1 DEF Log!Acknowledge, Range, Log!Range
      <4> QED
        BY <4>1, <4>2 DEF Log!Next
    <3>7. CASE store'.hist = Append(store.hist, u) /\ u \notin Range(store.hist)
      <4>1. Log!Commit(u)
        BY <3>3, <3>5, <3>7 DEF Log!Commit, Range, Log!Range
      <4> QED
        BY <4>1 DEF Log!Next
    <3> QED
      BY <3>4, <3>6, <3>7
  <2> QED
    BY <2>1, <2>2, <2>3 DEF Next
<1> QED
  BY <1>1, <1>2, Invariance, PTL DEF Spec, ImplementsRoomLog, Log!Spec

\* Applying an update leaves a snapshot.
LEMMA AppliedTyped ==
    ASSUME NEW s \in Snapshot, NEW u \in Update
    PROVE  Applied(s, u) \in Snapshot
<1>1. s.hist \in Seq(Host \cup Update) /\ s.events \in Nat /\ s.present \in BOOLEAN
  BY DEF Snapshot
<1>2. Append(s.hist, u) \in Seq(Host \cup Update)
  BY <1>1, AppendProperties
<1>3. (IF Kind[u] = "silent" THEN s.events ELSE s.events + 1) \in Nat
  BY <1>1
<1>4. (IF Kind[u] \in {"offline", "online"}
        THEN Kind[u] = "online" ELSE s.present) \in BOOLEAN
  BY <1>1
<1>5. CASE u \in Range(s.hist)
  BY <1>1, <1>5 DEF Applied
<1>6. CASE u \notin Range(s.hist)
  <2> DEFINE hist == Append(s.hist, u)
             events == IF Kind[u] = "silent" THEN s.events ELSE s.events + 1
             present == IF Kind[u] \in {"offline", "online"}
                        THEN Kind[u] = "online" ELSE s.present
  <2>1. Applied(s, u) = [hist |-> hist, events |-> events, present |-> present]
    BY <1>6 DEF Applied
  <2>2. hist \in Seq(Host \cup Update) /\ events \in Nat /\ present \in BOOLEAN
    BY <1>2, <1>3, <1>4
  <2> HIDE DEF hist, events, present
  <2> QED
    BY <1>1, <2>1, <2>2 DEF Snapshot
<1> QED
  BY <1>5, <1>6

\* Types are kept, whatever the kinds of the updates and however many Hosts
\* create the room: a Host that creates has no room in its map.
THEOREM TypeCorrect == Spec => []TypeOK
<1>1. Init => TypeOK
  BY DEF Init, TypeOK
<1>2. TypeOK /\ [Next]_vars => TypeOK'
  <2> SUFFICES ASSUME TypeOK, [Next]_vars PROVE TypeOK'
    OBVIOUS
  <2>0. \A h \in Host : Created(h) \in Snapshot
    BY DEF Created, Snapshot
  <2>1. ASSUME NEW s \in Snapshot, NEW u \in Update
        PROVE  Applied(s, u) \in Snapshot /\ s.hist \in Seq(Host \cup Update)
    BY <2>1, AppliedTyped DEF Snapshot
  <2>2. ASSUME NEW h \in Host, BeginCreate(h) PROVE TypeOK'
    BY <2>2 DEF BeginCreate, TypeOK
  <2>3. ASSUME NEW h \in Host, SaveCreated(h) PROVE TypeOK'
    BY <2>0, <2>3 DEF SaveCreated, TypeOK
  <2>4. ASSUME NEW h \in Host, CreateFails(h) PROVE TypeOK'
    BY <2>0, <2>4 DEF CreateFails, TypeOK
  <2>5. ASSUME NEW h \in Host, Load(h) PROVE TypeOK'
    BY <2>5 DEF Load, TypeOK
  <2>6. ASSUME NEW h \in Host, Subscribe(h) PROVE TypeOK'
    BY <2>1, <2>6 DEF Subscribe, TypeOK, Snapshot
  <2>7. ASSUME NEW h \in Host, Crash(h) PROVE TypeOK'
    BY <2>7 DEF Crash, TypeOK
  <2>8. ASSUME NEW h \in Host, NEW u \in Update,
               Dispatch(h, u) \/ DispatchThenCrash(h, u) \/ RollbackFails(h, u)
        PROVE  TypeOK'
    <3> DEFINE s == Applied(mem[h], u)
    <3>1. s \in Snapshot /\ s.hist \in Seq(Host \cup Update) /\ h \notin creating
      <4>1. mem[h] \in Snapshot /\ h \notin creating
        BY <2>8 DEF Dispatch, DispatchThenCrash, RollbackFails, Accepts, TypeOK
      <4> QED
        BY <2>1, <4>1 DEF Snapshot
    <3>2. Notified(h, s) \in [Host -> Seq(Host \cup Update) \cup {None}]
      BY <3>1 DEF Notified, TypeOK
    <3>3. CASE Dispatch(h, u)
      BY <3>1, <3>2, <3>3 DEF Dispatch, TypeOK
    <3>4. CASE DispatchThenCrash(h, u)
      BY <3>1, <3>4 DEF DispatchThenCrash, TypeOK
    <3>5. CASE RollbackFails(h, u)
      BY <3>1, <3>5 DEF RollbackFails, TypeOK
    <3> QED
      BY <2>8, <3>3, <3>4, <3>5
  <2>9. CASE UNCHANGED vars
    BY <2>9 DEF vars, TypeOK
  <2> QED
    BY <2>2, <2>3, <2>4, <2>5, <2>6, <2>7, <2>8, <2>9 DEF Next, CreateNext, LifeNext, ServeNext
<1> QED
  BY <1>1, <1>2, PTL DEF Spec
-----------------------------------------------------------------------------
(* One Host, and updates of every kind. *)

OneHost == \E h : Host = {h}

\* A single Host never holds less than the store does, even when it kept an
\* update that was refused; it is not creating a room that is in the store.
AloneInv ==
    /\ store = None => acked = {}
    /\ store # None => /\ creating = {} /\ store.events > 0
                      /\ acked \subseteq Range(store.hist)
    /\ \A h \in Host : mem[h] # None =>
          /\ mem[h].events > 0
          /\ store # None => Range(store.hist) \subseteq Range(mem[h].hist)

\* Applying an update loses nothing, whatever it does to the event count.
LEMMA AppliedHolds ==
    ASSUME NEW s \in Snapshot, NEW u \in Update
    PROVE  /\ Applied(s, u) \in Snapshot
           /\ Range(Applied(s, u).hist) = Range(s.hist) \cup {u}
           /\ s.events > 0 => Applied(s, u).events > 0
<1>1. s.hist \in Seq(Host \cup Update) /\ s.events \in Nat
  BY DEF Snapshot
<1>2. Applied(s, u) \in Snapshot
  BY AppliedTyped
<1>3. CASE u \in Range(s.hist)
  BY <1>2, <1>3 DEF Applied
<1>4. CASE u \notin Range(s.hist)
  <2>1. /\ Applied(s, u).hist = Append(s.hist, u)
        /\ Applied(s, u).events = IF Kind[u] = "silent" THEN s.events ELSE s.events + 1
    BY <1>4 DEF Applied
  <2>2. Range(Append(s.hist, u)) = Range(s.hist) \cup {u}
    BY <1>1, RangeAppend
  <2> QED
    BY <1>1, <1>2, <2>1, <2>2
<1> QED
  BY <1>3, <1>4

LEMMA AloneStep ==
    ASSUME NEW h, Host = {h}, TypeOK, TypeOK', AloneInv, [Next]_vars
    PROVE  AloneInv'
<1> USE NoneIsNeither
<1>1. /\ mem[h] # None => mem[h] \in Snapshot
      /\ store # None => store \in Snapshot
      /\ mem \in [Host -> Snapshot \cup {None}] /\ h \in Host
  BY DEF TypeOK
<1>2. /\ Created(h) \in Snapshot /\ Created(h).events = 1 /\ Range(Created(h).hist) = {h}
      /\ Created(h) # None
  <2>1. Created(h) \in Snapshot /\ Created(h) # None
    BY <1>1, CreatedFacts
  <2>2. Created(h).hist = <<h>> /\ Created(h).events = 1
    BY DEF Created
  <2>3. Range(<<h>>) = {h}
    BY DEF Range
  <2> QED
    BY <2>1, <2>2, <2>3
<1>3. CASE UNCHANGED vars
  BY <1>3 DEF vars, AloneInv
<1>4. CASE BeginCreate(h)
  BY <1>1, <1>4 DEF BeginCreate, AloneInv
<1>5. CASE SaveCreated(h)
  <2>1. /\ h \in creating /\ store' = Created(h) /\ mem' = [mem EXCEPT ![h] = Created(h)]
        /\ creating' = creating \ {h} /\ acked' = acked \cup {h}
    BY <1>5 DEF SaveCreated
  <2>2. store = None /\ acked = {} /\ creating' = {}
    <3>1. creating \subseteq {h}
      BY DEF TypeOK
    <3> QED
      BY <2>1, <3>1 DEF AloneInv
  <2>3. mem'[h] = Created(h) /\ \A g \in Host : g = h
    BY <1>1, <2>1
  <2> QED
    BY <1>2, <2>1, <2>2, <2>3 DEF AloneInv
<1>6. CASE CreateFails(h)
  <2>1. /\ h \in creating /\ mem' = [mem EXCEPT ![h] = Created(h)] /\ UNCHANGED <<store, acked>>
    BY <1>6 DEF CreateFails
  <2>2. store = None
    BY <2>1 DEF AloneInv
  <2>3. mem'[h] = Created(h) /\ \A g \in Host : g = h
    BY <1>1, <2>1
  <2> QED
    BY <1>2, <2>1, <2>2, <2>3 DEF AloneInv
<1>7. CASE Load(h) \/ Subscribe(h) \/ Crash(h)
  <2>1. /\ UNCHANGED <<store, acked>> /\ creating' \subseteq creating
        /\ mem'[h] \in {mem[h], store, None} /\ \A g \in Host : g = h
    BY <1>1, <1>7 DEF Load, Subscribe, Crash
  <2> QED
    BY <1>1, <2>1 DEF AloneInv
<1>8. ASSUME NEW u \in Update, Dispatch(h, u) \/ DispatchThenCrash(h, u) \/ RollbackFails(h, u)
      PROVE  AloneInv'
  <2> DEFINE s == Applied(mem[h], u)
  <2>1. mem[h] # None /\ mem[h] \in Snapshot /\ mem[h].events > 0
    BY <1>1, <1>8 DEF Dispatch, DispatchThenCrash, RollbackFails, Accepts, AloneInv
  <2>2. Range(s.hist) = Range(mem[h].hist) \cup {u} /\ s.events > 0
    BY <2>1, AppliedHolds
  <2>3. \A g \in Host : g = h
    OBVIOUS
  <2>4. CASE RollbackFails(h, u)
    <3>1. mem' = [mem EXCEPT ![h] = s] /\ UNCHANGED <<store, creating, acked>>
      BY <2>4 DEF RollbackFails
    <3>2. mem'[h] = s
      BY <1>1, <3>1
    <3> HIDE DEF s
    <3> QED
      BY <2>1, <2>2, <2>3, <3>1, <3>2 DEF AloneInv
  <2>5. CASE Dispatch(h, u) \/ DispatchThenCrash(h, u)
    <3>1. /\ mem[h].events = EventCount /\ store' = s /\ creating' = creating
          /\ acked' \subseteq acked \cup {u} /\ mem'[h] \in {s, None}
      BY <1>1, <2>5 DEF Dispatch, DispatchThenCrash
    <3>2. store # None
      BY <2>1, <3>1 DEF EventCount
    <3>3. acked' \subseteq Range(s.hist) /\ creating' = {}
      BY <2>1, <2>2, <3>1, <3>2 DEF AloneInv
    <3>4. s # None
      <4>1. store' \in Snapshot \cup {None} /\ store'.events > 0
        BY <2>2, <3>1 DEF TypeOK
      <4>2. s \in Snapshot
        BY <2>1, AppliedHolds
      <4> QED
        BY <4>2
    <3> HIDE DEF s
    <3> QED
      BY <2>2, <2>3, <3>1, <3>3, <3>4 DEF AloneInv
  <2> QED
    BY <1>8, <2>4, <2>5
<1> QED
  BY <1>3, <1>4, <1>5, <1>6, <1>7, <1>8 DEF Next, CreateNext, ServeNext, LifeNext

\* With a single Host nothing that was acknowledged is lost, whatever kinds of
\* updates there are: keys used twice, and an owner who goes offline so that a
\* refused update cannot be rolled back.
THEOREM DurableAlone ==
    ASSUME OneHost
    PROVE  Spec => []AckedDurable
<1> PICK h : Host = {h}
  BY DEF OneHost
<1>1. Init => AloneInv
  BY DEF Init, AloneInv
<1>2. TypeOK /\ TypeOK' /\ AloneInv /\ [Next]_vars => AloneInv'
  BY AloneStep
<1>3. AloneInv => AckedDurable
  BY DEF AloneInv, AckedDurable
<1> QED
  BY <1>1, <1>2, <1>3, TypeCorrect, PTL DEF Spec
=============================================================================
