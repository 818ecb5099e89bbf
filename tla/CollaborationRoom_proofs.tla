---------------------- MODULE CollaborationRoom_proofs ----------------------
(* For any members, limits, addresses, depths and numbers of runs, requests *)
(* and crashes: queue, slots, executors and records of a room stay          *)
(* together, and a run that is over stays over.                             *)
EXTENDS CollaborationRoom, FiniteSetTheorems, SequenceTheorems, WellFoundedInduction, TLAPS

-----------------------------------------------------------------------------
(* Types. *)

Kind == {"user", "again", "mail", "reply", "approval"}

RoomRec     == [status : {"active", "paused", "archived"}, max : Limits]
MemberRec   == [status : {"idle", "queued", "running", "awaiting_user", "removed"},
                consent : BOOLEAN]
RunRec      == [member : Member, status : RunStatus, cause : Kind \X Nat]
MailRec     == [from : Nat, to : Member, type : {"message", "question"},
                depth : 0..MaxA2ADepth, state : {"pending", "answered"},
                delivery : {"outbox", "dispatched", "accepted", "outcome_unknown"}, run : Nat]
ApprovalRec == [run : Nat, status : {"pending", "approved", "denied"}]

Disk   == [room : RoomRec, member : [Member -> MemberRec], run : Seq(RunRec),
           mail : Seq(MailRec), approval : Seq(ApprovalRec), said : SUBSET Nat]
Memory == [queue : Seq(Nat), slots : SUBSET Nat, turns : SUBSET Nat, aborted : SUBSET Nat,
           inflight : SUBSET Nat]
State  == [disk : Disk, mem : Memory]

-----------------------------------------------------------------------------
(* The inductive invariant. *)

Stored(s) == DOMAIN s.disk.run
Cause(s, i) == s.disk.run[i].cause
Unsent(s, e) == s.disk.mail[e].delivery = "outbox"

\* What the records name exists.
Linked(s) ==
    /\ \A e \in DOMAIN s.disk.mail : s.disk.mail[e].from \in Stored(s)
    /\ \A k \in DOMAIN s.disk.approval : s.disk.approval[k].run \in Stored(s)
    /\ s.disk.said \subseteq Stored(s)

\* A cause lies in the past: a message is older than its runs, an envelope was
\* posted, an approval has been decided.
Caused(s) ==
    \A i \in Stored(s) :
        LET c == Cause(s, i) IN
        /\ c[1] = "user" => c[2] < i
        /\ c[1] = "mail" => c[2] \in DOMAIN s.disk.mail
        /\ c[1] = "approval" => /\ c[2] \in DOMAIN s.disk.approval
                                /\ s.disk.approval[c[2]].status # "pending"

\* OneRunPerCause, of a state.
Unrepeated(s) ==
    \A i, j \in Stored(s) :
        i # j /\ Cause(s, i) = Cause(s, j)
        => Cause(s, i)[1] \in {"user", "again"}
           /\ (Cause(s, i)[1] = "user" => Seat(s, i) # Seat(s, j))

\* There is room for the run of an envelope that was not sent, the last one.
Bounded(s) ==
    /\ Len(s.disk.run) <= MaxRuns
    /\ \A e \in DOMAIN s.disk.mail : Unsent(s, e) =>
          /\ e = Len(s.disk.mail) /\ s.disk.mail[e].run = 0
          /\ Len(s.disk.run) < MaxRuns \/ RunsFor(s, <<"mail", e>>) # {}

\* What holds of the disk, whatever happens.
Filed(s) == Linked(s) /\ Caused(s) /\ Unrepeated(s) /\ Bounded(s)

Sent(s) == \A e \in DOMAIN s.disk.mail : ~Unsent(s, e)

\* The queue holds the runs of D that are queued; the slots are those of the
\* runs that are running and of the cancelled ones whose turn is not over; no
\* two slots are of one member; and a turn holds its slot until it is aborted.
Queued(s, D) ==
    /\ IsInjective(s.mem.queue)
    /\ ToSet(s.mem.queue) = {i \in D : Status(s, i) = "queued"}
Slotted(s, D) ==
    /\ s.mem.slots = {i \in D : Status(s, i) = "running"}
                     \cup {i \in s.mem.turns : Status(s, i) = "cancelled"}
    /\ \A i, j \in s.mem.slots : i # j => Seat(s, i) # Seat(s, j)
Turning(s, D) ==
    /\ s.mem.turns \subseteq D
    /\ \A i \in s.mem.turns : Status(s, i) # "queued"
    /\ s.mem.slots \cup s.mem.aborted \subseteq s.mem.turns
    /\ s.mem.turns \ s.mem.aborted \subseteq s.mem.slots

Sound(s, D) == Queued(s, D) /\ Slotted(s, D) /\ Turning(s, D)

\* NoIdleSlot, of a state.
NoIdle(s) == \A i \in ToSet(s.mem.queue) : ~CanStart(s, i)

\* The process holds what is on file.
Whole(s) == Sound(s, Stored(s)) /\ NoIdle(s)

IInv ==
    /\ Now \in State /\ Filed(Now)
    /\ up => Sent(Now) /\ Whole(Now)
    /\ ~up => mem = NoMemory
-----------------------------------------------------------------------------
(* Folds. *)

\* A set of numbers with 0 and the successors of its elements holds them all.
LEMMA CountingUp ==
    ASSUME NEW S, 0 \in S, \A k \in Nat : k \in S => k + 1 \in S
    PROVE  Nat \subseteq S
<1> SUFFICES ASSUME Nat \ S # {} PROVE FALSE
  OBVIOUS
<1>1. Nat \ S \subseteq Nat
  OBVIOUS
<1>2. PICK k \in Nat \ S : \A j \in Nat \ S : ~(<<j, k>> \in OpToRel(<, Nat))
  BY <1>1, NatLessThanWellFounded, WFMin
<1>3. k # 0 /\ k - 1 \in Nat
  BY <1>2 DEF OpToRel
<1>4. k - 1 \in S
  <2>1. k - 1 < k
    BY <1>3
  <2> QED
    BY <1>2, <1>3, <2>1 DEF OpToRel
<1>5. (k - 1) + 1 = k
  BY <1>3
<1> QED
  <2>1. k \in S
    BY <1>3, <1>4, <1>5
  <2>2. k \notin S
    BY <1>2
  <2> QED
    BY <2>1, <2>2

\* A set of numbers has a least element.
LEMMA MinIs ==
    ASSUME NEW S \in SUBSET Nat, S # {} PROVE Min(S) \in S
<1>1. PICK m \in S : \A y \in S : ~(<<y, m>> \in OpToRel(<, Nat))
  BY NatLessThanWellFounded, WFMin
<1>2. ASSUME NEW y \in S PROVE m <= y
  <2>1. ~(y < m)
    BY <1>1 DEF OpToRel
  <2> QED
    BY <2>1
<1> QED
  BY <1>2 DEF Min

\* A set of numbers up to n has a greatest element.
LEMMA MaxFrom0 ==
    ASSUME NEW n \in Nat, NEW S \in SUBSET (0..n), S # {}
    PROVE  Max(S) \in S /\ \A j \in S : j <= Max(S)
<1> DEFINE T == {n - j : j \in S}
<1>1. T \subseteq Nat /\ T # {}
  OBVIOUS
<1>2. PICK t \in T : \A y \in T : ~(<<y, t>> \in OpToRel(<, Nat))
  <2> HIDE DEF T
  <2> QED
    BY <1>1, NatLessThanWellFounded, WFMin
<1>3. PICK m \in S : t = n - m
  OBVIOUS
<1>4. ASSUME NEW j \in S PROVE j <= m
  <2>1. ~(n - j < n - m)
    BY <1>1, <1>2, <1>3 DEF OpToRel
  <2> QED
    BY <2>1
<1>5. \E x \in S : \A y \in S : x >= y
  BY <1>4
<1> QED
  BY <1>5 DEF Max

LEMMA MaxIs ==
    ASSUME NEW n \in Nat, NEW S \in SUBSET (1..n), S # {}
    PROVE  Max(S) \in S /\ \A j \in S : j <= Max(S)
<1>1. S \in SUBSET (0..n)
  OBVIOUS
<1> QED
  BY <1>1, MaxFrom0

\* What g makes of b on the way through the places in S, the last one last.
Folding(h, n, b, g) ==
    h = [S \in SUBSET (1..n) |->
            IF S = {} THEN b ELSE g[<<h[S \ {Max(S)}], Max(S)>>]]

\* There is a function that folds.
LEMMA FoldExists ==
    ASSUME NEW n \in Nat, NEW b, NEW g PROVE \E h : Folding(h, n, b, g)
<1> DEFINE N == {k \in Nat : \E h : Folding(h, k, b, g)}
<1>1. 0 \in N
  <2> DEFINE h == [S \in SUBSET (1..0) |-> b]
  <2>1. Folding(h, 0, b, g)
    BY DEF Folding
  <2> QED
    BY <2>1
<1>2. ASSUME NEW k \in Nat, k \in N PROVE k + 1 \in N
  <2>1. PICK h : Folding(h, k, b, g)
    BY <1>2
  <2> DEFINE ext == [S \in SUBSET (1..(k + 1)) |->
                      IF k + 1 \in S THEN g[<<h[S \ {k + 1}], k + 1>>] ELSE h[S]]
  <2>2. ASSUME NEW S \in SUBSET (1..(k + 1)), S # {}
        PROVE  ext[S] = g[<<ext[S \ {Max(S)}], Max(S)>>]
    <3>1. PICK m \in 1..(k + 1) : m = Max(S) /\ m \in S /\ \A j \in S : j <= m
      <4>1. k + 1 \in Nat
        OBVIOUS
      <4>2. Max(S) \in S /\ \A j \in S : j <= Max(S)
        BY <2>2, <4>1, MaxIs
      <4> QED
        BY <4>2
    <3>2. CASE k + 1 \in S
      <4>1. Max(S) = k + 1
        <5>1. k + 1 <= m /\ m <= k + 1
          BY <3>1, <3>2
        <5> QED
          BY <3>1, <5>1
      <4>2. S \ {k + 1} \in SUBSET (1..(k + 1)) /\ k + 1 \notin S \ {k + 1}
        OBVIOUS
      <4> QED
        BY <3>2, <4>1, <4>2
    <3>3. CASE k + 1 \notin S
      <4>1. S \in SUBSET (1..k) /\ S \ {Max(S)} \in SUBSET (1..(k + 1))
        <5>1. ASSUME NEW j \in S PROVE j \in 1..k /\ j \in 1..(k + 1)
          BY <3>3
        <5> QED
          BY <5>1
      <4>2. h[S] = g[<<h[S \ {Max(S)}], Max(S)>>]
        BY <2>1, <2>2, <4>1 DEF Folding
      <4> QED
        BY <3>3, <4>1, <4>2 DEF Folding
    <3> QED
      BY <3>2, <3>3
  <2>3. ext[{}] = b
    <3>1. h[{}] = b
      BY <2>1 DEF Folding
    <3> QED
      BY <3>1
  <2>4. Folding(ext, k + 1, b, g)
    <3> SUFFICES ext = [S \in SUBSET (1..(k + 1)) |->
                          IF S = {} THEN b ELSE g[<<ext[S \ {Max(S)}], Max(S)>>]]
      BY DEF Folding
    <3>1. ext = [S \in SUBSET (1..(k + 1)) |-> ext[S]]
      OBVIOUS
    <3> HIDE DEF ext
    <3> QED
      BY <2>2, <2>3, <3>1
  <2> QED
    BY <2>4
<1>3. Nat \subseteq N
  <2> HIDE DEF N
  <2> QED
    BY <1>1, <1>2, CountingUp
<1> QED
  BY <1>3

\* What holds of b, and is kept by every step, holds in the end.
LEMMA FoldIn ==
    ASSUME NEW n \in Nat, NEW F, NEW h, h[{}] \in F[{}],
           \A S \in SUBSET (1..n) :
               S # {} /\ h[S \ {Max(S)}] \in F[S \ {Max(S)}] => h[S] \in F[S]
    PROVE  \A S \in SUBSET (1..n) : h[S] \in F[S]
<1> DEFINE N == {k \in Nat : k <= n => \A S \in SUBSET (1..k) : h[S] \in F[S]}
<1>1. 0 \in N
  <2>1. \A S \in SUBSET (1..0) : S = {}
    OBVIOUS
  <2> QED
    BY <2>1
<1>2. ASSUME NEW k \in Nat, k \in N PROVE k + 1 \in N
  <2>1. k + 1 \in Nat
    OBVIOUS
  <2>2. ASSUME k + 1 <= n, NEW S \in SUBSET (1..(k + 1)), S # {} PROVE h[S] \in F[S]
    <3>1. PICK m \in 1..(k + 1) : m = Max(S) /\ m \in S /\ \A j \in S : j <= m
      <4>1. Max(S) \in S /\ \A j \in S : j <= Max(S)
        BY <2>1, <2>2, MaxIs
      <4> QED
        BY <2>2, <4>1
    <3>2. S \ {Max(S)} \in SUBSET (1..k)
      <4>1. ASSUME NEW j \in S \ {m} PROVE j \in 1..k
        <5>1. j \in 1..(k + 1) /\ j <= m /\ j # m
          BY <2>2, <3>1
        <5> QED
          BY <3>1, <5>1
      <4> QED
        BY <3>1, <4>1
    <3>3. h[S \ {Max(S)}] \in F[S \ {Max(S)}]
      BY <1>2, <2>2, <3>2
    <3>4. S \in SUBSET (1..n)
      BY <2>2
    <3> QED
      BY <2>2, <3>3, <3>4
  <2> QED
    BY <2>1, <2>2
<1>3. Nat \subseteq N
  <2> HIDE DEF N
  <2> QED
    BY <1>1, <1>2, CountingUp
<1> QED
  BY <1>3

\* Both, for a step that is the function g on the elements of F.
LEMMA FoldValues ==
    ASSUME NEW n \in Nat, NEW F, NEW b, b \in F[{}], NEW g,
           \A S \in SUBSET (1..n), k \in 1..n :
               (\A j \in S : j < k) => \A p \in F[S] : g[<<p, k>>] \in F[S \cup {k}]
    PROVE  \E h : Folding(h, n, b, g) /\ \A S \in SUBSET (1..n) : h[S] \in F[S]
<1>1. PICK h : Folding(h, n, b, g)
  BY FoldExists
<1>2. h[{}] \in F[{}]
  BY <1>1 DEF Folding
<1>3. ASSUME NEW S \in SUBSET (1..n), S # {}, h[S \ {Max(S)}] \in F[S \ {Max(S)}]
      PROVE  h[S] \in F[S]
  <2>1. Max(S) \in S /\ \A j \in S : j <= Max(S)
    BY <1>3, MaxIs
  <2>2. (\A j \in S \ {Max(S)} : j < Max(S)) /\ (S \ {Max(S)}) \cup {Max(S)} = S
    <3>1. PICK m \in 1..n : m = Max(S) /\ m \in S /\ \A j \in S : j <= m
      BY <2>1
    <3>2. ASSUME NEW j \in S \ {m} PROVE j < m
      <4>1. j \in 1..n /\ j <= m /\ j # m
        BY <3>1
      <4> QED
        BY <3>1, <4>1
    <3> QED
      BY <3>1, <3>2
  <2>3. h[S] = g[<<h[S \ {Max(S)}], Max(S)>>]
    BY <1>1, <1>3 DEF Folding
  <2>4. g[<<h[S \ {Max(S)}], Max(S)>>] \in F[(S \ {Max(S)}) \cup {Max(S)}]
    BY <1>3, <2>1, <2>2
  <2> QED
    BY <2>2, <2>3, <2>4
<1>4. \A S \in SUBSET (1..n) : h[S] \in F[S]
  BY <1>2, <1>3, FoldIn
<1> QED
  BY <1>1, <1>4

-----------------------------------------------------------------------------
(* Sequences. *)

\* What a sequence is without its element at k.
LEMMA RemoveAtIs ==
    ASSUME NEW X, NEW q \in Seq(X), NEW k \in 1..Len(q)
    PROVE  /\ RemoveAt(q, k) \in Seq(X)
           /\ Len(RemoveAt(q, k)) = Len(q) - 1
           /\ \A i \in 1..(Len(q) - 1) :
                 RemoveAt(q, k)[i] = IF i < k THEN q[i] ELSE q[i + 1]
<1> DEFINE a == SubSeq(q, 1, k - 1)
           b == SubSeq(q, k + 1, Len(q))
<1>1. Len(q) \in Nat /\ \A i \in 1..Len(q) : q[i] \in X
  BY LenProperties, ElementOfSeq
<1>2. /\ a \in Seq(X) /\ Len(a) = k - 1
      /\ \A i \in 1..(k - 1) : a[i] = q[i]
  <2>1. 1 \in Int /\ k - 1 \in Int /\ \A i \in 1..(k - 1) : q[i] \in X
    BY <1>1
  <2>2. /\ a \in Seq(X) /\ Len(a) = IF 1 <= k - 1 THEN (k - 1) - 1 + 1 ELSE 0
        /\ \A i \in 1..((k - 1) - 1 + 1) : a[i] = q[1 + i - 1]
    BY <2>1, SubSeqProperties
  <2> HIDE DEF a
  <2> QED
    BY <1>1, <2>2
<1>3. /\ b \in Seq(X) /\ Len(b) = Len(q) - k
      /\ \A i \in 1..(Len(q) - k) : b[i] = q[k + i]
  <2>1. k + 1 \in Int /\ Len(q) \in Int /\ \A i \in (k + 1)..Len(q) : q[i] \in X
    BY <1>1
  <2>2. /\ b \in Seq(X) /\ Len(b) = IF k + 1 <= Len(q) THEN Len(q) - (k + 1) + 1 ELSE 0
        /\ \A i \in 1..(Len(q) - (k + 1) + 1) : b[i] = q[(k + 1) + i - 1]
    BY <2>1, SubSeqProperties
  <2> HIDE DEF b
  <2> QED
    BY <1>1, <2>2
<1>4. RemoveAt(q, k) = a \o b
  BY DEF RemoveAt
<1> HIDE DEF a, b
<1>5. /\ a \o b \in Seq(X) /\ Len(a \o b) = Len(a) + Len(b)
      /\ \A i \in 1..(Len(a) + Len(b)) :
            (a \o b)[i] = IF i <= Len(a) THEN a[i] ELSE b[i - Len(a)]
  BY <1>2, <1>3, ConcatProperties
<1>6. ASSUME NEW i \in 1..(Len(q) - 1)
      PROVE  (a \o b)[i] = IF i < k THEN q[i] ELSE q[i + 1]
  <2>1. (a \o b)[i] = IF i <= Len(a) THEN a[i] ELSE b[i - Len(a)]
    BY <1>1, <1>2, <1>3, <1>5
  <2>2. CASE i < k
    BY <1>1, <1>2, <2>1, <2>2
  <2>3. CASE ~(i < k)
    <3>1. i - (k - 1) \in 1..(Len(q) - k) /\ k + (i - (k - 1)) = i + 1
      BY <1>1, <2>3
    <3>2. b[i - (k - 1)] = q[k + (i - (k - 1))]
      BY <1>3, <3>1
    <3> QED
      BY <1>1, <1>2, <2>1, <2>3, <3>1, <3>2
  <2> QED
    BY <2>2, <2>3
<1>7. Len(a) + Len(b) = Len(q) - 1
  BY <1>1, <1>2, <1>3
<1> QED
  BY <1>4, <1>5, <1>6, <1>7

\* Without an element that it holds once.
LEMMA RemoveFirstIs ==
    ASSUME NEW X, NEW q \in Seq(X), IsInjective(q), NEW x \in ToSet(q)
    PROVE  /\ RemoveFirst(q, x) \in Seq(X)
           /\ IsInjective(RemoveFirst(q, x))
           /\ ToSet(RemoveFirst(q, x)) = ToSet(q) \ {x}
<1>1. Len(q) \in Nat /\ DOMAIN q = 1..Len(q)
  BY LenProperties
<1>2. PICK k \in 1..Len(q) : q[k] = x
  BY <1>1 DEF ToSet
<1>3. {i \in 1..Len(q) : q[i] = x} = {k}
  BY <1>1, <1>2 DEF IsInjective
<1>4. Min({k}) = k
  <2>1. Min({k}) = CHOOSE i \in {k} : \A y \in {k} : i =< y
    BY DEF Min
  <2>2. \E i \in {k} : \A y \in {k} : i =< y
    BY <1>1
  <2> QED
    BY <2>1, <2>2
<1>5. SelectInSeq(q, LAMBDA v : v = x) = k
  BY <1>3, <1>4 DEF SelectInSeq
<1>6. RemoveFirst(q, x) = RemoveAt(q, k)
  BY <1>2, <1>5 DEF RemoveFirst
<1> DEFINE r == RemoveAt(q, k)
<1>7. /\ r \in Seq(X) /\ Len(r) = Len(q) - 1
      /\ \A i \in 1..(Len(q) - 1) : r[i] = IF i < k THEN q[i] ELSE q[i + 1]
  BY RemoveAtIs
<1> HIDE DEF r
<1>8. DOMAIN r = 1..(Len(q) - 1)
  BY <1>7, LenProperties
<1>9. ASSUME NEW i \in DOMAIN r, NEW j \in DOMAIN r, r[i] = r[j] PROVE i = j
  <2> DEFINE At(n) == IF n < k THEN n ELSE n + 1
  <2>1. /\ At(i) \in DOMAIN q /\ At(j) \in DOMAIN q
        /\ r[i] = q[At(i)] /\ r[j] = q[At(j)]
    BY <1>1, <1>7, <1>8
  <2>2. At(i) = At(j)
    <3> HIDE DEF At
    <3> QED
      BY <1>9, <2>1 DEF IsInjective
  <2> QED
    BY <1>1, <1>8, <2>2
<1>10. ToSet(r) = ToSet(q) \ {x}
  <2>1. ASSUME NEW i \in DOMAIN r PROVE r[i] \in ToSet(q) \ {x}
    <3> DEFINE n == IF i < k THEN i ELSE i + 1
    <3>1. n \in DOMAIN q /\ n # k /\ r[i] = q[n]
      BY <1>1, <1>7, <1>8
    <3> HIDE DEF n
    <3>2. q[n] # q[k]
      BY <1>1, <1>2, <3>1 DEF IsInjective
    <3> QED
      BY <1>2, <3>1, <3>2 DEF ToSet
  <2>2. ASSUME NEW n \in DOMAIN q, q[n] # x PROVE \E i \in DOMAIN r : r[i] = q[n]
    <3>1. n # k /\ n \in 1..Len(q)
      BY <1>1, <1>2, <2>2
    <3>2. CASE n < k
      <4>1. n \in DOMAIN r /\ r[n] = q[n]
        BY <1>1, <1>7, <1>8, <3>1, <3>2
      <4> QED
        BY <4>1
    <3>3. CASE n > k
      <4>1. n - 1 \in DOMAIN r /\ r[n - 1] = q[n]
        BY <1>1, <1>7, <1>8, <3>1, <3>3
      <4> QED
        BY <4>1
    <3> QED
      BY <1>1, <3>1, <3>2, <3>3
  <2> QED
    BY <2>1, <2>2 DEF ToSet
<1>11. IsInjective(r)
  BY <1>9 DEF IsInjective
<1> QED
  BY <1>6, <1>7, <1>10, <1>11 DEF r

\* With another element at the end.
LEMMA AppendIs ==
    ASSUME NEW X, NEW q \in Seq(X), NEW x \in X
    PROVE  /\ Append(q, x) \in Seq(X) /\ Len(Append(q, x)) = Len(q) + 1
           /\ DOMAIN Append(q, x) = 1..(Len(q) + 1)
           /\ \A i \in 1..Len(q) : Append(q, x)[i] = q[i]
           /\ Append(q, x)[Len(q) + 1] = x
           /\ ToSet(Append(q, x)) = ToSet(q) \cup {x}
           /\ IsInjective(q) /\ x \notin ToSet(q) => IsInjective(Append(q, x))
<1>1. Len(q) \in Nat /\ DOMAIN q = 1..Len(q)
  BY LenProperties
<1> DEFINE r == Append(q, x)
<1>2. /\ r \in Seq(X) /\ Len(r) = Len(q) + 1 /\ DOMAIN r = 1..(Len(q) + 1)
      /\ \A i \in 1..Len(q) : r[i] = q[i]
      /\ r[Len(q) + 1] = x
  BY <1>1, AppendProperties
<1> HIDE DEF r
<1>3. ToSet(r) = ToSet(q) \cup {x}
  <2>1. \A i \in DOMAIN r : i \in DOMAIN q \/ i = Len(q) + 1
    BY <1>1, <1>2
  <2>2. Len(q) + 1 \in DOMAIN r /\ DOMAIN q \subseteq DOMAIN r
    BY <1>1, <1>2
  <2> QED
    BY <1>1, <1>2, <2>1, <2>2 DEF ToSet
<1>4. ASSUME IsInjective(q), x \notin ToSet(q), NEW i \in DOMAIN r, NEW j \in DOMAIN r, r[i] = r[j]
      PROVE  i = j
  <2>1. \A n \in DOMAIN q : r[n] = q[n] /\ q[n] # x
    BY <1>1, <1>2, <1>4 DEF ToSet
  <2>2. \A n \in DOMAIN r : n \in DOMAIN q \/ n = Len(q) + 1
    BY <1>1, <1>2
  <2> QED
    BY <1>2, <1>4, <2>1, <2>2 DEF IsInjective
<1>5. IsInjective(q) /\ x \notin ToSet(q) => IsInjective(r)
  BY <1>4 DEF IsInjective
<1> QED
  BY <1>2, <1>3, <1>5 DEF r

-----------------------------------------------------------------------------
(* Envelopes. *)

\* The same envelopes, and the same ones unsent.
Boxes(mail) ==
    {box \in Seq(MailRec) :
        /\ Len(box) = Len(mail)
        /\ \A e \in 1..Len(mail) :
              /\ box[e].from = mail[e].from /\ box[e].run = mail[e].run
              /\ box[e].delivery = "outbox" <=> mail[e].delivery = "outbox"}

\* Marking changes nothing but the delivery of envelopes that were sent.
LEMMA MarkedIs ==
    ASSUME NEW mail \in Seq(MailRec), NEW runs, NEW before, "outbox" \notin before,
           NEW after \in {"accepted", "outcome_unknown"}
    PROVE  Marked(mail, runs, before, after) \in Boxes(mail)
<1> DEFINE n == Len(mail)
           q == [e \in DOMAIN mail |-> e]
           Step(box, e) == IF box[e].run \in runs /\ box[e].delivery \in before
                           THEN [box EXCEPT ![e].delivery = after] ELSE box
           B == Boxes(mail)
           F == [S \in SUBSET (1..n) |-> B]
           g == [p \in B \X (1..n) |-> Step(p[1], p[2])]
           Rec(h) == h = [S \in SUBSET DOMAIN q |->
                            IF S = {} THEN mail ELSE Step(h[S \ {Max(S)}], q[Max(S)])]
           it == CHOOSE h : Rec(h)
<1>1. n \in Nat /\ DOMAIN mail = 1..n /\ DOMAIN q = 1..n /\ \A e \in 1..n : q[e] = e
  BY LenProperties
<1>2. mail \in B
  BY DEF Boxes
<1>3. ASSUME NEW box \in B, NEW e \in 1..n PROVE Step(box, e) \in B
  <2>1. CASE box[e].run \in runs /\ box[e].delivery \in before
    <3>1. box \in Seq(MailRec) /\ Len(box) = n /\ box[e] \in MailRec
      BY <1>1, ElementOfSeq DEF Boxes
    <3> DEFINE x == [box[e] EXCEPT !.delivery = after]
    <3>2. x \in MailRec /\ x.from = box[e].from /\ x.run = box[e].run /\ x.delivery = after
      BY <3>1 DEF MailRec
    <3> HIDE DEF x
    <3>3. Step(box, e) = [box EXCEPT ![e] = x]
      BY <2>1 DEF x
    <3>4. /\ [box EXCEPT ![e] = x] \in Seq(MailRec) /\ Len([box EXCEPT ![e] = x]) = n
          /\ \A j \in 1..n : [box EXCEPT ![e] = x][j] = IF j = e THEN x ELSE box[j]
      BY <3>1, <3>2, ExceptSeq
    <3>5. \A j \in 1..n : /\ box[j].from = mail[j].from /\ box[j].run = mail[j].run
                          /\ box[j].delivery = "outbox" <=> mail[j].delivery = "outbox"
      BY DEF Boxes
    <3>6. box[e].delivery # "outbox" /\ x.delivery # "outbox"
      BY <2>1, <3>2
    <3> HIDE DEF Step
    <3> QED
      BY <3>2, <3>3, <3>4, <3>5, <3>6 DEF Boxes
  <2>2. CASE ~(box[e].run \in runs /\ box[e].delivery \in before)
    BY <2>2
  <2> QED
    BY <2>1, <2>2
<1>4. \A S \in SUBSET (1..n), k \in 1..n :
          (\A j \in S : j < k) => \A p \in F[S] : g[<<p, k>>] \in F[S \cup {k}]
  <2> HIDE DEF Step, B
  <2> QED
    BY <1>3
<1>5. \E h : Folding(h, n, mail, g) /\ \A S \in SUBSET (1..n) : h[S] \in F[S]
  <2>1. mail \in F[{}]
    BY <1>2
  <2> HIDE DEF F, g
  <2> QED
    BY <1>1, <1>4, <2>1, FoldValues
<1>6. \E h : Rec(h)
  <2>1. PICK h : Folding(h, n, mail, g) /\ \A S \in SUBSET (1..n) : h[S] \in F[S]
    BY <1>5
  <2>2. ASSUME NEW S \in SUBSET (1..n), S # {}
        PROVE  g[<<h[S \ {Max(S)}], Max(S)>>] = Step(h[S \ {Max(S)}], q[Max(S)])
    <3>1. Max(S) \in 1..n
      BY <1>1, <2>2, MaxIs
    <3>2. h[S \ {Max(S)}] \in B
      BY <2>1
    <3> HIDE DEF B, Step
    <3> QED
      BY <1>1, <3>1, <3>2
  <2> HIDE DEF g, Step, B, F
  <2>3. Rec(h)
    BY <1>1, <2>1, <2>2 DEF Folding
  <2> QED
    BY <2>3
<1>7. Rec(it)
  BY <1>6
<1>8. it[1..n] \in B
  <2>1. it[{}] \in F[{}]
    BY <1>1, <1>2, <1>7
  <2>2. ASSUME NEW S \in SUBSET (1..n), S # {}, it[S \ {Max(S)}] \in F[S \ {Max(S)}]
        PROVE  it[S] \in F[S]
    <3>1. Max(S) \in 1..n
      BY <1>1, <2>2, MaxIs
    <3> HIDE DEF B, Step, it
    <3>2. it[S] = Step(it[S \ {Max(S)}], q[Max(S)])
      BY <1>1, <1>7, <2>2
    <3>3. it[S \ {Max(S)}] \in B /\ q[Max(S)] = Max(S)
      BY <1>1, <2>2, <3>1
    <3>4. Step(it[S \ {Max(S)}], Max(S)) \in B
      BY <1>3, <3>1, <3>3
    <3> HIDE DEF q
    <3> QED
      BY <3>2, <3>3, <3>4
  <2>3. \A S \in SUBSET (1..n) : it[S] \in F[S]
    <3> HIDE DEF F, it
    <3> QED
      BY <1>1, <2>1, <2>2, FoldIn
  <2> QED
    <3>1. (1..n) \in SUBSET (1..n)
      OBVIOUS
    <3>2. it[1..n] \in F[1..n]
      <4> HIDE DEF F, it
      <4> QED
        BY <2>3, <3>1
    <3>3. F[1..n] \subseteq B
      BY <3>1
    <3> QED
      BY <3>2, <3>3
<1>9. Marked(mail, runs, before, after) = it[DOMAIN q]
  BY DEF Marked, FoldLeftDomain, FoldLeft, MapThenFoldSet
<1> QED
  BY <1>1, <1>8, <1>9

-----------------------------------------------------------------------------
(* States. *)

MemberStatus == {"idle", "queued", "running", "awaiting_user", "removed"}

\* What is on file is typed.
LEMMA FieldsOf ==
    ASSUME NEW s \in State
    PROVE  /\ s.disk \in Disk /\ s.mem \in Memory
           /\ s.disk.run \in Seq(RunRec) /\ Len(s.disk.run) \in Nat
           /\ Stored(s) = 1..Len(s.disk.run)
           /\ \A i \in Stored(s) : /\ s.disk.run[i] \in RunRec
                                   /\ Seat(s, i) \in Member /\ Status(s, i) \in RunStatus
                                   /\ Cause(s, i) \in Kind \X Nat
           /\ s.disk.mail \in Seq(MailRec) /\ Len(s.disk.mail) \in Nat
           /\ DOMAIN s.disk.mail = 1..Len(s.disk.mail)
           /\ \A e \in DOMAIN s.disk.mail : s.disk.mail[e] \in MailRec
           /\ s.disk.approval \in Seq(ApprovalRec) /\ Len(s.disk.approval) \in Nat
           /\ DOMAIN s.disk.approval = 1..Len(s.disk.approval)
           /\ \A k \in DOMAIN s.disk.approval : s.disk.approval[k] \in ApprovalRec
           /\ s.mem.queue \in Seq(Nat) /\ Len(s.mem.queue) \in Nat
           /\ DOMAIN s.mem.queue = 1..Len(s.mem.queue)
<1>1. s.disk \in Disk /\ s.mem \in Memory
  BY DEF State
<1>2. /\ s.disk.run \in Seq(RunRec) /\ s.disk.mail \in Seq(MailRec)
      /\ s.disk.approval \in Seq(ApprovalRec)
  BY <1>1 DEF Disk
<1>3. s.mem.queue \in Seq(Nat)
  BY <1>1 DEF Memory
<1>4. /\ Len(s.disk.run) \in Nat /\ DOMAIN s.disk.run = 1..Len(s.disk.run)
      /\ \A i \in 1..Len(s.disk.run) : s.disk.run[i] \in RunRec
  BY <1>2, LenProperties, ElementOfSeq
<1>5. /\ Len(s.disk.mail) \in Nat /\ DOMAIN s.disk.mail = 1..Len(s.disk.mail)
      /\ \A i \in 1..Len(s.disk.mail) : s.disk.mail[i] \in MailRec
  BY <1>2, LenProperties, ElementOfSeq
<1>6. /\ Len(s.disk.approval) \in Nat /\ DOMAIN s.disk.approval = 1..Len(s.disk.approval)
      /\ \A i \in 1..Len(s.disk.approval) : s.disk.approval[i] \in ApprovalRec
  BY <1>2, LenProperties, ElementOfSeq
<1>7. Len(s.mem.queue) \in Nat /\ DOMAIN s.mem.queue = 1..Len(s.mem.queue)
  BY <1>3, LenProperties
<1>8. \A r \in RunRec : r.member \in Member /\ r.status \in RunStatus /\ r.cause \in Kind \X Nat
  BY DEF RunRec
<1> QED
  BY <1>1, <1>2, <1>3, <1>4, <1>5, <1>6, <1>7, <1>8 DEF Stored, Seat, Status, Cause

\* t differs from s in what is shown of members only.
Alike(s, t) ==
    /\ t \in State /\ t.mem = s.mem
    /\ t.disk.room = s.disk.room /\ t.disk.run = s.disk.run /\ t.disk.mail = s.disk.mail
    /\ t.disk.approval = s.disk.approval /\ t.disk.said = s.disk.said

LEMMA SetMemberIs ==
    ASSUME NEW s \in State, NEW m \in Member, NEW status \in MemberStatus
    PROVE  Alike(s, SetMember(s, m, status))
<1>1. s.disk \in Disk /\ s.disk.member \in [Member -> MemberRec]
  BY FieldsOf DEF Disk
<1>2. [s.disk.member[m] EXCEPT !.status = status] \in MemberRec
  BY <1>1 DEF MemberRec, MemberStatus
<1> DEFINE f == [s.disk.member EXCEPT ![m] = [s.disk.member[m] EXCEPT !.status = status]]
<1>3. f \in [Member -> MemberRec]
  BY <1>1, <1>2
<1>4. SetMember(s, m, status) = [s EXCEPT !.disk = [s.disk EXCEPT !.member = f]]
  BY DEF SetMember
<1> HIDE DEF f
<1>5. [s.disk EXCEPT !.member = f] \in Disk
  BY <1>1, <1>3 DEF Disk
<1> QED
  BY <1>1, <1>4, <1>5 DEF Alike, State, Disk

LEMMA SyncIs ==
    ASSUME NEW s \in State, NEW m \in Member PROVE Alike(s, Sync(s, m))
<1>1. CASE Busy(s, m) \/ ~Present(s, m)
  BY <1>1 DEF Sync, Alike
<1>2. CASE ~(Busy(s, m) \/ ~Present(s, m))
  <2>1. PICK status \in MemberStatus : Sync(s, m) = SetMember(s, m, status)
    BY <1>2 DEF Sync, MemberStatus
  <2> QED
    BY <2>1, SetMemberIs
<1> QED
  BY <1>1, <1>2

\* A run that is over or blocked stays so, and none is queued again.
StatusStep(x, y) == (x \in {"done", "failed", "cancelled", "blocked"} => y = x)
                    /\ (x # "queued" => y # "queued")

\* t comes from s without a new run, envelope, request or publication.
Kept(s, t) ==
    /\ t.disk.room = s.disk.room /\ t.disk.approval = s.disk.approval
    /\ t.disk.said = s.disk.said
    /\ Len(t.disk.run) = Len(s.disk.run)
    /\ \A i \in Stored(s) : /\ Seat(t, i) = Seat(s, i) /\ Cause(t, i) = Cause(s, i)
                            /\ StatusStep(Status(s, i), Status(t, i))
    /\ Len(t.disk.mail) = Len(s.disk.mail)
    /\ \A e \in DOMAIN s.disk.mail :
          /\ t.disk.mail[e].from = s.disk.mail[e].from
          /\ t.disk.mail[e].run = s.disk.mail[e].run
          /\ Unsent(t, e) <=> Unsent(s, e)

LEMMA KeptThen ==
    ASSUME NEW s \in State, NEW t \in State, NEW u \in State, Kept(s, t), Kept(t, u)
    PROVE  Kept(s, u)
<1>1. Stored(t) = Stored(s) /\ DOMAIN t.disk.mail = DOMAIN s.disk.mail
  BY FieldsOf DEF Kept
<1> QED
  BY <1>1 DEF Kept, StatusStep

\* The same runs have the same causes.
LEMMA StillUnrepeated ==
    ASSUME NEW s, NEW t, Stored(t) = Stored(s), Unrepeated(s),
           \A i \in Stored(s) : Seat(t, i) = Seat(s, i) /\ Cause(t, i) = Cause(s, i)
    PROVE  Unrepeated(t)
BY DEF Unrepeated

\* What is on file stays right.
LEMMA KeptFiled ==
    ASSUME NEW s \in State, NEW t \in State, Kept(s, t), Filed(s)
    PROVE  Filed(t) /\ (Sent(s) => Sent(t))
<1>1. Stored(t) = Stored(s) /\ DOMAIN t.disk.mail = DOMAIN s.disk.mail
  BY FieldsOf DEF Kept
<1>2. Linked(t)
  BY <1>1 DEF Kept, Filed, Linked
<1>3. Caused(t)
  BY <1>1 DEF Kept, Filed, Caused
<1>4. Unrepeated(t)
  BY <1>1, StillUnrepeated DEF Kept, Filed
<1>5. \A c : RunsFor(t, c) = RunsFor(s, c)
  BY <1>1 DEF Kept, RunsFor, Stored, Cause
<1>6. Bounded(t)
  BY <1>1, <1>5 DEF Kept, Filed, Bounded
<1>7. Sent(s) => Sent(t)
  BY <1>1 DEF Kept, Sent
<1> QED
  BY <1>2, <1>3, <1>4, <1>6, <1>7 DEF Filed

LEMMA AlikeIs ==
    ASSUME NEW s \in State, NEW t, Alike(s, t)
    PROVE  /\ t \in State /\ Kept(s, t) /\ Stored(t) = Stored(s)
           /\ \A D : Sound(s, D) => Sound(t, D)
           /\ NoIdle(s) => NoIdle(t)
<1>1. Stored(t) = Stored(s)
  BY DEF Alike, Stored
<1>2. \A i : Seat(t, i) = Seat(s, i) /\ Status(t, i) = Status(s, i) /\ Cause(t, i) = Cause(s, i)
  BY DEF Alike, Seat, Status, Cause
<1>3. Kept(s, t)
  BY <1>2 DEF Alike, Kept, StatusStep, Unsent
<1>4. ASSUME NEW D, Sound(s, D) PROVE Sound(t, D)
  BY <1>2, <1>4 DEF Alike, Sound, Queued, Slotted, Turning
<1>5. \A i : CanStart(t, i) <=> CanStart(s, i)
  BY <1>2 DEF Alike, CanStart, Busy
<1>6. NoIdle(s) => NoIdle(t)
  BY <1>5 DEF Alike, NoIdle
<1> QED
  BY <1>1, <1>3, <1>4, <1>6 DEF Alike

\* The runs of t are those of s but that i has the status x.
Restated(s, t, i, x) ==
    /\ Len(t.disk.run) = Len(s.disk.run)
    /\ \A j \in Stored(s) : /\ Seat(t, j) = Seat(s, j) /\ Cause(t, j) = Cause(s, j)
                            /\ Status(t, j) = IF j = i THEN x ELSE Status(s, j)

\* The rest of the disk but for the members and the delivery of envelopes.
Elsewhere(s, t) ==
    /\ t.disk.room = s.disk.room /\ t.disk.approval = s.disk.approval
    /\ t.disk.said = s.disk.said
    /\ t.disk.mail \in Boxes(s.disk.mail)

LEMMA RunsRestated ==
    ASSUME NEW s \in State, NEW i \in Stored(s), NEW x \in RunStatus,
           NEW t, t.disk.run = [s.disk.run EXCEPT ![i].status = x]
    PROVE  t.disk.run \in Seq(RunRec) /\ Restated(s, t, i, x)
<1> DEFINE r == [s.disk.run[i] EXCEPT !.status = x]
<1>1. s.disk.run \in Seq(RunRec) /\ i \in 1..Len(s.disk.run) /\ s.disk.run[i] \in RunRec
  BY FieldsOf
<1>2. r \in RunRec /\ r.member = Seat(s, i) /\ r.cause = Cause(s, i) /\ r.status = x
  BY <1>1 DEF RunRec, Seat, Cause
<1>3. t.disk.run = [s.disk.run EXCEPT ![i] = r]
  OBVIOUS
<1> HIDE DEF r
<1>4. /\ t.disk.run \in Seq(RunRec) /\ Len(t.disk.run) = Len(s.disk.run)
      /\ \A j \in 1..Len(s.disk.run) : t.disk.run[j] = IF j = i THEN r ELSE s.disk.run[j]
  BY <1>1, <1>2, <1>3, ExceptSeq
<1> QED
  BY <1>1, <1>2, <1>4, FieldsOf DEF Restated, Seat, Cause, Status

LEMMA SameBoxes ==
    ASSUME NEW s \in State PROVE s.disk.mail \in Boxes(s.disk.mail)
BY FieldsOf DEF Boxes

LEMMA SetStatusIs ==
    ASSUME NEW s \in State, NEW i \in Stored(s), NEW x \in RunStatus,
           NEW t, t = SetStatus(s, i, x)
    PROVE  /\ t \in State /\ t.mem = s.mem /\ Restated(s, t, i, x) /\ Elsewhere(s, t)
           /\ t.disk.mail = s.disk.mail
<1> DEFINE r == [s.disk.run EXCEPT ![i].status = x]
<1>1. t = [s EXCEPT !.disk = [s.disk EXCEPT !.run = r]]
  BY DEF SetStatus
<1> HIDE DEF r
<1>2. s.disk \in Disk /\ s.mem \in Memory
  BY FieldsOf
<1>3. /\ t.disk.run = r /\ t.mem = s.mem
      /\ t.disk.room = s.disk.room /\ t.disk.approval = s.disk.approval
      /\ t.disk.said = s.disk.said /\ t.disk.mail = s.disk.mail
  BY <1>1, <1>2 DEF State, Disk
<1>4. r \in Seq(RunRec) /\ Restated(s, t, i, x)
  <2>1. t.disk.run = [s.disk.run EXCEPT ![i].status = x]
    BY <1>3 DEF r
  <2>2. t.disk.run \in Seq(RunRec) /\ Restated(s, t, i, x)
    BY <2>1, RunsRestated
  <2> QED
    BY <1>3, <2>2
<1>5. [s.disk EXCEPT !.run = r] \in Disk
  BY <1>2, <1>4 DEF Disk
<1>6. t \in State
  BY <1>1, <1>2, <1>5 DEF State
<1> QED
  BY <1>3, <1>4, <1>6, SameBoxes DEF Elsewhere

\* A change of status keeps the records.
LEMMA RestatedKept ==
    ASSUME NEW s \in State, NEW t \in State, NEW i \in Stored(s), NEW x,
           Restated(s, t, i, x), Elsewhere(s, t), StatusStep(Status(s, i), x)
    PROVE  Kept(s, t) /\ Stored(t) = Stored(s)
<1>1. /\ t.disk.mail \in Seq(MailRec) /\ Len(t.disk.mail) = Len(s.disk.mail)
      /\ \A e \in 1..Len(s.disk.mail) :
            /\ t.disk.mail[e].from = s.disk.mail[e].from
            /\ t.disk.mail[e].run = s.disk.mail[e].run
            /\ t.disk.mail[e].delivery = "outbox" <=> s.disk.mail[e].delivery = "outbox"
  BY DEF Elsewhere, Boxes
<1>2. Stored(t) = Stored(s) /\ DOMAIN s.disk.mail = 1..Len(s.disk.mail)
  BY FieldsOf DEF Restated
<1> QED
  BY <1>1, <1>2 DEF Restated, Elsewhere, Kept, Unsent, StatusStep

-----------------------------------------------------------------------------
(* The scheduler. *)

\* What the beginning of a run that is in the queue does: the run is running in
\* a slot, or has failed.
LEMMA BeginIs ==
    ASSUME NEW s \in State, NEW i \in Stored(s), i \in ToSet(s.mem.queue),
           IsInjective(s.mem.queue), NEW t, t = Begin(s, i)
    PROVE  /\ t \in State /\ Elsewhere(s, t)
           /\ t.mem.queue = RemoveFirst(s.mem.queue, i) /\ t.mem.aborted = s.mem.aborted
           /\ \/ /\ Restated(s, t, i, "running")
                 /\ t.mem.slots = s.mem.slots \cup {i} /\ t.mem.turns = s.mem.turns \cup {i}
              \/ /\ Restated(s, t, i, "failed")
                 /\ t.mem.slots = s.mem.slots /\ t.mem.turns = s.mem.turns
<1> DEFINE m == Seat(s, i)
           q == RemoveFirst(s.mem.queue, i)
           mem1 == [s.mem EXCEPT !.queue = q, !.inflight = @ \cup {i}]
           s1 == [s EXCEPT !.mem = mem1]
<1>1. /\ s.disk \in Disk /\ s.mem \in Memory /\ m \in Member /\ i \in Nat
      /\ s.mem.queue \in Seq(Nat) /\ s.disk.member[m] \in MemberRec
  BY FieldsOf DEF Disk
<1>2. q \in Seq(Nat)
  BY <1>1, RemoveFirstIs
<1> HIDE DEF q
<1>3. /\ mem1 \in Memory /\ mem1.queue = q /\ mem1.slots = s.mem.slots
      /\ mem1.turns = s.mem.turns /\ mem1.aborted = s.mem.aborted
  BY <1>1, <1>2 DEF Memory
<1>4. s1 \in State /\ s1.disk = s.disk /\ s1.mem = mem1
  BY <1>1, <1>3 DEF State
<1>5. s1 = [s EXCEPT !.mem.queue = RemoveFirst(@, i), !.mem.inflight = @ \cup {i}]
  BY <1>1 DEF q, State, Memory
<1>6. CASE Authorized(s, m)
  <2> DEFINE r == [s.disk.run EXCEPT ![i].status = "running"]
             f == [s.disk.member EXCEPT ![m].status = "running"]
             b == Accepted(s.disk.mail, i)
             mem2 == [mem1 EXCEPT !.slots = @ \cup {i}, !.turns = @ \cup {i}]
             disk2 == [s.disk EXCEPT !.run = r, !.member = f, !.mail = b]
  <2>1. t = [s EXCEPT !.disk = disk2, !.mem = mem2]
    <3>1. t = [s1 EXCEPT !.disk.run[i].status = "running",
                         !.disk.member[m].status = "running",
                         !.disk.mail = Accepted(@, i),
                         !.mem.slots = @ \cup {i},
                         !.mem.turns = @ \cup {i}]
      BY <1>5, <1>6 DEF Begin
    <3> HIDE DEF mem1
    <3> QED
      <4>1. [s1.disk EXCEPT !.run[i].status = "running", !.member[m].status = "running",
                            !.mail = Accepted(@, i)] = disk2
        BY <1>1, <1>4 DEF Disk
      <4> HIDE DEF disk2
      <4>2. [s1.mem EXCEPT !.slots = @ \cup {i}, !.turns = @ \cup {i}] = mem2
        BY <1>4
      <4> HIDE DEF mem2
      <4>3. t = [s1 EXCEPT !.disk = [s1.disk EXCEPT !.run[i].status = "running",
                                                    !.member[m].status = "running",
                                                    !.mail = Accepted(@, i)],
                           !.mem = [s1.mem EXCEPT !.slots = @ \cup {i},
                                                  !.turns = @ \cup {i}]]
        <5>1. s1 = [disk |-> s1.disk, mem |-> s1.mem]
          BY <1>4 DEF State
        <5> HIDE DEF s1
        <5> QED
          BY <3>1, <5>1
      <4>4. t = [s1 EXCEPT !.disk = disk2, !.mem = mem2]
        BY <4>1, <4>2, <4>3
      <4> QED
        BY <1>1, <1>4, <4>4 DEF State
  <2> HIDE DEF mem1
  <2>2. /\ mem2 \in Memory /\ mem2.queue = q /\ mem2.aborted = s.mem.aborted
        /\ mem2.slots = s.mem.slots \cup {i} /\ mem2.turns = s.mem.turns \cup {i}
    BY <1>1, <1>3 DEF Memory
  <2>3. f \in [Member -> MemberRec]
    <3>1. [s.disk.member[m] EXCEPT !.status = "running"] \in MemberRec
      BY <1>1 DEF MemberRec
    <3> QED
      BY <1>1, <3>1 DEF Disk
  <2>4. b \in Boxes(s.disk.mail) /\ b \in Seq(MailRec)
    <3>1. s.disk.mail \in Seq(MailRec)
      BY FieldsOf
    <3>2. b \in Boxes(s.disk.mail)
      BY <3>1, MarkedIs DEF Accepted
    <3> QED
      BY <3>2 DEF Boxes
  <2> HIDE DEF mem2, r, f, b
  <2>5. /\ t.disk.run = r /\ t.disk.mail = b /\ t.mem = mem2
        /\ t.disk.room = s.disk.room /\ t.disk.approval = s.disk.approval
        /\ t.disk.said = s.disk.said
    BY <1>1, <2>1 DEF State, Disk
  <2>6. r \in Seq(RunRec) /\ Restated(s, t, i, "running")
    <3>1. t.disk.run = [s.disk.run EXCEPT ![i].status = "running"]
      BY <2>5 DEF r
    <3>2. "running" \in RunStatus
      BY DEF RunStatus
    <3>3. t.disk.run \in Seq(RunRec) /\ Restated(s, t, i, "running")
      BY <3>1, <3>2, RunsRestated
    <3> QED
      BY <2>5, <3>3
  <2>7. disk2 \in Disk
    BY <1>1, <2>3, <2>4, <2>6 DEF Disk
  <2>8. t \in State
    BY <2>1, <2>2, <2>7, <1>1 DEF State
  <2> QED
    BY <2>2, <2>4, <2>5, <2>6, <2>8 DEF Elsewhere, q
<1>7. CASE ~Authorized(s, m)
  <2> DEFINE u == SetStatus(s1, i, "failed")
  <2>1. t = Sync(u, m)
    BY <1>5, <1>7 DEF Begin
  <2>2. Stored(s1) = Stored(s) /\ Elsewhere(s, s1) /\ \A j : Seat(s1, j) = Seat(s, j)
        /\ Cause(s1, j) = Cause(s, j) /\ Status(s1, j) = Status(s, j)
    <3> HIDE DEF s1
    <3> QED
      BY <1>4, SameBoxes DEF Stored, Elsewhere, Seat, Cause, Status
  <2>3. /\ u \in State /\ u.mem = s1.mem /\ Restated(s1, u, i, "failed") /\ Elsewhere(s1, u)
        /\ u.disk.mail = s1.disk.mail
    <3> HIDE DEF s1
    <3> QED
      BY <1>4, <2>2, SetStatusIs DEF RunStatus
  <2> HIDE DEF u, s1
  <2>4. Alike(u, t)
    BY <1>1, <2>1, <2>3, SyncIs
  <2>5. Restated(s, t, i, "failed")
    BY <1>4, <2>2, <2>3, <2>4 DEF Restated, Alike, Seat, Cause, Status
  <2>6. Elsewhere(s, t)
    BY <1>4, <2>3, <2>4 DEF Elsewhere, Alike
  <2> QED
    BY <1>3, <1>4, <2>3, <2>4, <2>5, <2>6 DEF Alike, q
<1> QED
  BY <1>6, <1>7

\* More slots let nothing start that could not before.
LEMMA CanStartLess ==
    ASSUME NEW s \in State, NEW t \in State, Kept(s, t), s.mem.slots \subseteq t.mem.slots,
           t.mem.slots \subseteq Stored(s), NEW i \in Stored(s), CanStart(t, i)
    PROVE  CanStart(s, i)
<1>1. IsFiniteSet(t.mem.slots)
  <2>1. IsFiniteSet(1..Len(s.disk.run))
    <3>1. 1 \in Int /\ Len(s.disk.run) \in Int
      BY FieldsOf
    <3> QED
      BY <3>1, FS_Interval
  <2> QED
    BY <2>1, FieldsOf, FS_Subset
<1>2. /\ Cardinality(s.mem.slots) <= Cardinality(t.mem.slots)
      /\ Cardinality(s.mem.slots) \in Nat /\ Cardinality(t.mem.slots) \in Nat
  BY <1>1, FS_Subset, FS_CardinalityType
<1>3. s.disk.room.max \in Nat
  <2>1. s.disk.room \in RoomRec
    BY FieldsOf DEF Disk
  <2> QED
    BY <2>1, LimitAssumption DEF RoomRec, LimitAssumption
<1>4. Cardinality(s.mem.slots) < s.disk.room.max
  BY <1>2, <1>3 DEF CanStart, Kept
<1>5. ~Busy(s, Seat(s, i))
  BY DEF CanStart, Busy, Kept
<1> QED
  BY <1>4, <1>5 DEF CanStart, Kept

\* What begins keeps queue, slots, turns and records in step.
LEMMA BeginSound ==
    ASSUME NEW s \in State, NEW D \in SUBSET Stored(s), Sound(s, D),
           NEW i \in ToSet(s.mem.queue), CanStart(s, i), NEW t, t = Begin(s, i)
    PROVE  /\ t \in State /\ Kept(s, t) /\ Sound(t, D)
           /\ ToSet(t.mem.queue) = ToSet(s.mem.queue) \ {i}
           /\ s.mem.slots \subseteq t.mem.slots /\ t.mem.slots \subseteq Stored(s)
<1>1. i \in D /\ i \in Stored(s) /\ Status(s, i) = "queued" /\ IsInjective(s.mem.queue)
  BY DEF Sound, Queued
<1>2. /\ t \in State /\ Elsewhere(s, t)
      /\ t.mem.queue = RemoveFirst(s.mem.queue, i) /\ t.mem.aborted = s.mem.aborted
      /\ \/ /\ Restated(s, t, i, "running")
            /\ t.mem.slots = s.mem.slots \cup {i} /\ t.mem.turns = s.mem.turns \cup {i}
         \/ /\ Restated(s, t, i, "failed")
            /\ t.mem.slots = s.mem.slots /\ t.mem.turns = s.mem.turns
  BY <1>1, BeginIs
<1>3. IsInjective(t.mem.queue) /\ ToSet(t.mem.queue) = ToSet(s.mem.queue) \ {i}
  BY <1>1, <1>2, FieldsOf, RemoveFirstIs
<1>4. Kept(s, t)
  BY <1>1, <1>2, RestatedKept DEF StatusStep
<1>5. /\ s.mem.turns \subseteq D /\ i \notin s.mem.turns /\ i \notin s.mem.slots
      /\ s.mem.slots \subseteq s.mem.turns
  BY <1>1 DEF Sound, Turning
<1>6. \A j \in s.mem.slots : Seat(s, j) # Seat(s, i)
  BY DEF CanStart, Busy
<1>7. CASE /\ Restated(s, t, i, "running")
           /\ t.mem.slots = s.mem.slots \cup {i} /\ t.mem.turns = s.mem.turns \cup {i}
  <2>1. Queued(t, D)
    BY <1>1, <1>3, <1>7 DEF Sound, Queued, Restated
  <2>2. Slotted(t, D)
    <3>1. \A j \in D : /\ Seat(t, j) = Seat(s, j)
                       /\ Status(t, j) = IF j = i THEN "running" ELSE Status(s, j)
      BY <1>7 DEF Restated
    <3>2. t.mem.slots = {j \in D : Status(t, j) = "running"}
                        \cup {j \in t.mem.turns : Status(t, j) = "cancelled"}
      BY <1>1, <1>5, <1>7, <3>1 DEF Sound, Slotted
    <3>3. \A j, k \in t.mem.slots : j # k => Seat(t, j) # Seat(t, k)
      BY <1>1, <1>5, <1>6, <1>7, <3>1 DEF Sound, Slotted
    <3> QED
      BY <3>2, <3>3 DEF Slotted
  <2>3. Turning(t, D)
    BY <1>1, <1>2, <1>5, <1>7 DEF Sound, Turning, Restated
  <2> QED
    BY <1>1, <1>2, <1>3, <1>4, <1>5, <1>7, <2>1, <2>2, <2>3 DEF Sound
<1>8. CASE /\ Restated(s, t, i, "failed")
           /\ t.mem.slots = s.mem.slots /\ t.mem.turns = s.mem.turns
  <2>1. Queued(t, D)
    BY <1>1, <1>3, <1>8 DEF Sound, Queued, Restated
  <2>2. Slotted(t, D)
    <3>1. \A j \in D : /\ Seat(t, j) = Seat(s, j)
                       /\ Status(t, j) = IF j = i THEN "failed" ELSE Status(s, j)
      BY <1>8 DEF Restated
    <3>2. t.mem.slots = {j \in D : Status(t, j) = "running"}
                        \cup {j \in t.mem.turns : Status(t, j) = "cancelled"}
      BY <1>1, <1>5, <1>8, <3>1 DEF Sound, Slotted
    <3>3. \A j, k \in t.mem.slots : j # k => Seat(t, j) # Seat(t, k)
      BY <1>1, <1>5, <1>8, <3>1 DEF Sound, Slotted
    <3> QED
      BY <3>2, <3>3 DEF Slotted
  <2>3. Turning(t, D)
    BY <1>1, <1>2, <1>5, <1>8 DEF Sound, Turning, Restated
  <2> QED
    BY <1>1, <1>2, <1>3, <1>4, <1>5, <1>8, <2>1, <2>2, <2>3 DEF Sound
<1> QED
  BY <1>2, <1>7, <1>8

\* A drain starts what can start.
LEMMA DrainSound ==
    ASSUME NEW s \in State, NEW D \in SUBSET Stored(s), Sound(s, D)
    PROVE  Drain(s) \in State /\ Kept(s, Drain(s)) /\ Sound(Drain(s), D) /\ NoIdle(Drain(s))
<1> DEFINE q == s.mem.queue
           n == Len(q)
           Waiting(t) == ToSet(t.mem.queue)
           P(t, S) == /\ Kept(s, t) /\ Sound(t, D) /\ Waiting(t) \subseteq ToSet(q)
                      /\ \A j \in 1..n : j \notin S => q[j] \in Waiting(t)
                      /\ \A j \in S : q[j] \in Waiting(t) => ~CanStart(t, q[j])
           F == [S \in SUBSET (1..n) |-> {t \in State : P(t, S)}]
           g == [p \in State \X (1..n) |-> Try(p[1], q[p[2]])]
           Rec(h) == h = [S \in SUBSET DOMAIN q |->
                            IF S = {} THEN s ELSE Try(h[S \ {Max(S)}], q[Max(S)])]
           it == CHOOSE h : Rec(h)
<1>1. n \in Nat /\ DOMAIN q = 1..n
  BY FieldsOf
<1>2. P(s, {})
  <2>1. Kept(s, s)
    BY DEF Kept, StatusStep
  <2> QED
    BY <1>1, <2>1 DEF ToSet
<1>3. ASSUME NEW t \in State, NEW S \in SUBSET (1..n), NEW k \in 1..n, k \notin S, P(t, S)
      PROVE  Try(t, q[k]) \in State /\ P(Try(t, q[k]), S \cup {k})
  <2> DEFINE u == Try(t, q[k])
  <2>1. q[k] \in Waiting(t)
    BY <1>3
  <2>2. D \in SUBSET Stored(t) /\ Stored(t) = Stored(s)
    BY <1>3, FieldsOf DEF Kept
  <2>3. CASE CanStart(t, q[k])
    <3>1. u = Begin(t, q[k])
      BY <2>3 DEF Try
    <3> HIDE DEF u
    <3>2. /\ u \in State /\ Kept(t, u) /\ Sound(u, D)
          /\ Waiting(u) = Waiting(t) \ {q[k]}
          /\ t.mem.slots \subseteq u.mem.slots /\ u.mem.slots \subseteq Stored(t)
      BY <1>3, <2>1, <2>2, <2>3, <3>1, BeginSound
    <3>3. Kept(s, u)
      BY <1>3, <3>2, KeptThen
    <3>4. \A j \in 1..n : j # k => q[j] # q[k]
      BY <1>1 DEF Sound, Queued, IsInjective
    <3>5. \A j \in 1..n : q[j] \in Stored(t)
      <4>1. \A j \in 1..n : q[j] \in ToSet(q)
        BY <1>1 DEF ToSet
      <4> QED
        BY <2>2, <4>1 DEF Sound, Queued
    <3>6. \A j \in 1..n : j \notin S \cup {k} => q[j] \in Waiting(u)
      BY <1>3, <3>2, <3>4
    <3>7. ASSUME NEW j \in S \cup {k}, q[j] \in Waiting(u) PROVE ~CanStart(u, q[j])
      <4>1. j \in S /\ q[j] \in Waiting(t) /\ ~CanStart(t, q[j]) /\ q[j] \in Stored(t)
        BY <1>3, <3>2, <3>5, <3>7
      <4> QED
        BY <3>2, <4>1, CanStartLess
    <3>8. Waiting(u) \subseteq ToSet(q)
      BY <1>3, <3>2
    <3> QED
      BY <3>2, <3>3, <3>6, <3>7, <3>8 DEF u
  <2>4. CASE ~CanStart(t, q[k])
    BY <1>3, <2>4 DEF Try
  <2> QED
    BY <2>3, <2>4
<1> HIDE DEF P
<1>4. \A S \in SUBSET (1..n), k \in 1..n :
          (\A j \in S : j < k) => \A p \in F[S] : g[<<p, k>>] \in F[S \cup {k}]
  <2>1. SUFFICES ASSUME NEW S \in SUBSET (1..n), NEW k \in 1..n, \A j \in S : j < k,
                        NEW p \in F[S]
                 PROVE  g[<<p, k>>] \in F[S \cup {k}]
    OBVIOUS
  <2>2. p \in State /\ P(p, S) /\ k \notin S /\ S \cup {k} \in SUBSET (1..n)
    BY <1>1, <2>1
  <2>3. g[<<p, k>>] = Try(p, q[k])
    BY <2>2
  <2> HIDE DEF g, q
  <2> QED
    BY <1>3, <2>2, <2>3
<1>5. \E h : Folding(h, n, s, g) /\ \A S \in SUBSET (1..n) : h[S] \in F[S]
  <2>1. s \in F[{}]
    BY <1>2
  <2> HIDE DEF F, g, n
  <2> QED
    BY <1>1, <1>4, <2>1, FoldValues
<1>6. \E h : Rec(h)
  <2>1. PICK h : Folding(h, n, s, g) /\ \A S \in SUBSET (1..n) : h[S] \in F[S]
    BY <1>5
  <2>2. ASSUME NEW S \in SUBSET (1..n), S # {}
        PROVE  g[<<h[S \ {Max(S)}], Max(S)>>] = Try(h[S \ {Max(S)}], q[Max(S)])
    <3>1. Max(S) \in 1..n
      BY <1>1, <2>2, MaxIs
    <3>2. h[S \ {Max(S)}] \in State
      BY <2>1
    <3> HIDE DEF q, n
    <3> QED
      BY <3>1, <3>2
  <2> HIDE DEF g, F
  <2>3. Rec(h)
    BY <1>1, <2>1, <2>2 DEF Folding
  <2> QED
    BY <2>3
<1>7. Rec(it)
  BY <1>6
<1>8. it[1..n] \in F[1..n]
  <2>1. it[{}] \in F[{}]
    <3>1. it[{}] = s
      <4> HIDE DEF it
      <4> QED
        BY <1>7
    <3> HIDE DEF it
    <3> QED
      BY <1>2, <3>1
  <2>2. ASSUME NEW S \in SUBSET (1..n), S # {}, it[S \ {Max(S)}] \in F[S \ {Max(S)}]
        PROVE  it[S] \in F[S]
    <3>1. Max(S) \in 1..n /\ Max(S) \in S
      BY <1>1, <2>2, MaxIs
    <3>2. it[S \ {Max(S)}] \in State /\ P(it[S \ {Max(S)}], S \ {Max(S)})
      <4>1. S \ {Max(S)} \in SUBSET (1..n)
        OBVIOUS
      <4> HIDE DEF it, q, n
      <4> QED
        BY <2>2, <4>1
    <3> HIDE DEF it, q, n
    <3>3. it[S] = Try(it[S \ {Max(S)}], q[Max(S)])
      BY <1>1, <1>7, <2>2
    <3>4. it[S] \in State /\ P(it[S], (S \ {Max(S)}) \cup {Max(S)})
      BY <1>3, <3>1, <3>2, <3>3
    <3>5. (S \ {Max(S)}) \cup {Max(S)} = S
      BY <3>1
    <3> QED
      BY <2>2, <3>4, <3>5
  <2>3. \A S \in SUBSET (1..n) : it[S] \in F[S]
    <3> HIDE DEF F, it, n
    <3> QED
      BY <1>1, <2>1, <2>2, FoldIn
  <2> HIDE DEF F
  <2> QED
    BY <1>1, <2>3
<1>9. Drain(s) = it[1..n]
  BY <1>1 DEF Drain, FoldLeft, MapThenFoldSet
<1>10. Drain(s) \in State /\ P(Drain(s), 1..n)
  BY <1>1, <1>8, <1>9
<1>11. ASSUME NEW i \in Waiting(Drain(s)) PROVE ~CanStart(Drain(s), i)
  <2>1. PICK j \in 1..n : i = q[j]
    BY <1>1, <1>10, <1>11 DEF P, ToSet
  <2> QED
    BY <1>10, <1>11, <2>1 DEF P
<1> QED
  BY <1>10, <1>11 DEF P, NoIdle

\* A stored run that is queued comes into the queue.
LEMMA AdmitSound ==
    ASSUME NEW s \in State, NEW D \in SUBSET Stored(s), Sound(s, D),
           NEW i \in Stored(s) \ D, Status(s, i) = "queued", NEW t, t = Admit(s, i)
    PROVE  t \in State /\ Kept(s, t) /\ Sound(t, D \cup {i}) /\ NoIdle(t)
<1> DEFINE q == Append(s.mem.queue, i)
           u == [s EXCEPT !.mem.queue = q]
<1>1. /\ s.mem \in Memory /\ s.mem.queue \in Seq(Nat) /\ i \in Nat
      /\ i \notin ToSet(s.mem.queue)
  BY FieldsOf DEF Sound, Queued
<1>2. /\ q \in Seq(Nat) /\ ToSet(q) = ToSet(s.mem.queue) \cup {i}
      /\ IsInjective(q)
  BY <1>1, AppendIs DEF Sound, Queued
<1>3. t = Drain(u)
  BY DEF Admit
<1> HIDE DEF q
<1>4. /\ u \in State /\ u.disk = s.disk /\ u.mem.queue = q /\ u.mem.slots = s.mem.slots
      /\ u.mem.turns = s.mem.turns /\ u.mem.aborted = s.mem.aborted
  BY <1>1, <1>2 DEF State, Memory
<1> HIDE DEF u
<1>5. /\ Stored(u) = Stored(s) /\ Kept(s, u)
      /\ \A j : Status(u, j) = Status(s, j) /\ Seat(u, j) = Seat(s, j)
  BY <1>4 DEF Stored, Status, Seat, Cause, Kept, StatusStep, Unsent
<1>6. Queued(u, D \cup {i})
  BY <1>2, <1>4, <1>5 DEF Sound, Queued
<1>7. Slotted(u, D \cup {i})
  BY <1>4, <1>5 DEF Sound, Slotted
<1>8. Turning(u, D \cup {i})
  BY <1>4, <1>5 DEF Sound, Turning
<1>9. t \in State /\ Kept(u, t) /\ Sound(t, D \cup {i}) /\ NoIdle(t)
  BY <1>3, <1>4, <1>5, <1>6, <1>7, <1>8, DrainSound DEF Sound
<1> QED
  BY <1>4, <1>5, <1>9, KeptThen

-----------------------------------------------------------------------------
(* A new run. *)

\* t has one run more than s, of m and with the cause c.
Grown(s, t, m, c) ==
    LET n == Len(s.disk.run) + 1 IN
    /\ t.disk.room = s.disk.room /\ t.disk.approval = s.disk.approval
    /\ t.disk.said = s.disk.said
    /\ Len(t.disk.run) = n /\ Seat(t, n) = m /\ Cause(t, n) = c
    /\ \A i \in Stored(s) : /\ Seat(t, i) = Seat(s, i) /\ Cause(t, i) = Cause(s, i)
                            /\ StatusStep(Status(s, i), Status(t, i))
    /\ Len(t.disk.mail) = Len(s.disk.mail)
    /\ \A e \in DOMAIN s.disk.mail :
          /\ t.disk.mail[e].from = s.disk.mail[e].from
          /\ t.disk.mail[e].run = s.disk.mail[e].run
          /\ Unsent(t, e) <=> Unsent(s, e)

LEMMA NewRunIs ==
    ASSUME NEW s \in State, NEW m \in Member, NEW c \in Kind \X Nat,
           NEW t, t = NewRun(s, m, c)
    PROVE  /\ t \in State /\ t.mem = s.mem /\ Grown(s, t, m, c)
           /\ Stored(t) = Stored(s) \cup {Len(s.disk.run) + 1}
           /\ Status(t, Len(s.disk.run) + 1) = "queued"
           /\ \A i \in Stored(s) : Status(t, i) = Status(s, i)
<1> DEFINE x == [member |-> m, status |-> "queued", cause |-> c]
           r == Append(s.disk.run, x)
<1>1. s.disk \in Disk /\ s.mem \in Memory /\ s.disk.run \in Seq(RunRec)
  BY FieldsOf
<1>2. x \in RunRec
  BY DEF RunRec, RunStatus
<1>3. t = [s EXCEPT !.disk = [s.disk EXCEPT !.run = r]]
  BY DEF NewRun
<1>4. /\ r \in Seq(RunRec) /\ Len(r) = Len(s.disk.run) + 1
      /\ DOMAIN r = 1..(Len(s.disk.run) + 1)
      /\ \A i \in 1..Len(s.disk.run) : r[i] = s.disk.run[i]
      /\ r[Len(s.disk.run) + 1] = x
  <2> HIDE DEF x
  <2> QED
    BY <1>1, <1>2, AppendIs
<1> HIDE DEF r
<1>5. /\ t.disk.run = r /\ t.mem = s.mem
      /\ t.disk.room = s.disk.room /\ t.disk.approval = s.disk.approval
      /\ t.disk.said = s.disk.said /\ t.disk.mail = s.disk.mail
  BY <1>1, <1>3 DEF State, Disk
<1>6. [s.disk EXCEPT !.run = r] \in Disk
  BY <1>1, <1>4 DEF Disk
<1>7. t \in State
  BY <1>1, <1>3, <1>6 DEF State
<1>8. Stored(s) = 1..Len(s.disk.run) /\ Len(s.disk.run) \in Nat
  BY FieldsOf
<1>9. Stored(t) = Stored(s) \cup {Len(s.disk.run) + 1}
  BY <1>4, <1>5, <1>8 DEF Stored
<1>10. \A i \in Stored(s) : Seat(t, i) = Seat(s, i) /\ Cause(t, i) = Cause(s, i)
                            /\ Status(t, i) = Status(s, i)
  BY <1>4, <1>5, <1>8 DEF Seat, Cause, Status
<1>11. /\ Seat(t, Len(s.disk.run) + 1) = m /\ Cause(t, Len(s.disk.run) + 1) = c
       /\ Status(t, Len(s.disk.run) + 1) = "queued"
  BY <1>4, <1>5 DEF Seat, Cause, Status
<1>12. Grown(s, t, m, c)
  BY <1>4, <1>5, <1>10, <1>11 DEF Grown, StatusStep, Unsent
<1> QED
  BY <1>5, <1>7, <1>9, <1>10, <1>11, <1>12

\* What is kept after a run was added.
LEMMA GrownKept ==
    ASSUME NEW s \in State, NEW t \in State, NEW u \in State, NEW m, NEW c,
           Grown(s, t, m, c), Kept(t, u)
    PROVE  Grown(s, u, m, c)
<1>1. /\ Stored(t) = 1..(Len(s.disk.run) + 1) /\ Stored(s) = 1..Len(s.disk.run)
      /\ Len(s.disk.run) \in Nat /\ DOMAIN t.disk.mail = DOMAIN s.disk.mail
  BY FieldsOf DEF Grown
<1>2. Stored(s) \subseteq Stored(t) /\ Len(s.disk.run) + 1 \in Stored(t)
  BY <1>1
<1> QED
  BY <1>1, <1>2 DEF Grown, Kept, StatusStep

\* Runs can be added while the process holds what is on file.
LEMMA AddSound ==
    ASSUME NEW s \in State, Sound(s, Stored(s)), NEW m \in Member, NEW c \in Kind \X Nat,
           NEW t, t = Add(s, m, c)
    PROVE  t \in State /\ Grown(s, t, m, c) /\ Whole(t)
<1> DEFINE n == Len(s.disk.run) + 1
           u == NewRun(s, m, c)
           v == Admit(u, n)
<1>1. /\ u \in State /\ u.mem = s.mem /\ Grown(s, u, m, c)
      /\ Stored(u) = Stored(s) \cup {n} /\ Status(u, n) = "queued"
      /\ \A i \in Stored(s) : Status(u, i) = Status(s, i)
  BY NewRunIs
<1>2. t = IF Busy(v, m) THEN v ELSE SetMember(v, m, "queued")
  BY DEF Add
<1> HIDE DEF u
<1>3. n \notin Stored(s) /\ Len(s.disk.run) \in Nat
  BY FieldsOf
<1>4. Sound(u, Stored(s))
  <2>1. \A i \in Stored(s) : Seat(u, i) = Seat(s, i)
    BY <1>1 DEF Grown
  <2>2. s.mem.turns \subseteq Stored(s) /\ s.mem.slots \subseteq Stored(s)
    BY DEF Sound, Turning
  <2>3. Queued(u, Stored(s))
    BY <1>1 DEF Sound, Queued
  <2>4. Slotted(u, Stored(s))
    BY <1>1, <2>1, <2>2 DEF Sound, Slotted
  <2>5. Turning(u, Stored(s))
    BY <1>1, <2>2 DEF Sound, Turning
  <2> QED
    BY <2>3, <2>4, <2>5 DEF Sound
<1> HIDE DEF n
<1>5. v \in State /\ Kept(u, v) /\ Sound(v, Stored(s) \cup {n}) /\ NoIdle(v)
  BY <1>1, <1>3, <1>4, AdmitSound
<1> HIDE DEF v
<1>6. Stored(v) = Stored(s) \cup {n}
  BY <1>1, <1>5, FieldsOf DEF Kept
<1>7. Grown(s, v, m, c) /\ Whole(v)
  BY <1>1, <1>5, <1>6, GrownKept DEF Whole
<1>8. CASE Busy(v, m)
  BY <1>2, <1>5, <1>7, <1>8
<1>9. CASE ~Busy(v, m)
  <2>1. Alike(v, t)
    BY <1>2, <1>5, <1>9, SetMemberIs DEF MemberStatus
  <2> QED
    BY <1>5, <1>7, <2>1, AlikeIs, GrownKept DEF Whole
<1> QED
  BY <1>8, <1>9

\* A run of m with the cause c may be added: it is the first of its cause, and
\* what was not sent is what it is for.
Fit(s, m, c) ==
    /\ Len(s.disk.run) < MaxRuns
    /\ c[1] = "user" => /\ c[2] <= Len(s.disk.run)
                        /\ \A i \in RunsFor(s, c) : Seat(s, i) # m
    /\ c[1] = "mail" => c[2] \in DOMAIN s.disk.mail
    /\ c[1] = "approval" => /\ c[2] \in DOMAIN s.disk.approval
                            /\ s.disk.approval[c[2]].status # "pending"
    /\ c[1] \notin {"user", "again"} => RunsFor(s, c) = {}
    /\ \A e \in DOMAIN s.disk.mail : Unsent(s, e) => c = <<"mail", e>>

LEMMA GrownFiled ==
    ASSUME NEW s \in State, NEW t \in State, Filed(s), NEW m, NEW c \in Kind \X Nat,
           Grown(s, t, m, c), Fit(s, m, c)
    PROVE  Filed(t) /\ (Sent(s) => Sent(t))
<1> DEFINE n == Len(s.disk.run) + 1
<1>1. /\ Len(s.disk.run) \in Nat /\ Stored(s) = 1..Len(s.disk.run)
      /\ Stored(t) = 1..n /\ DOMAIN t.disk.mail = DOMAIN s.disk.mail
      /\ DOMAIN s.disk.mail = 1..Len(s.disk.mail)
  BY FieldsOf DEF Grown
<1>2. Stored(t) = Stored(s) \cup {n} /\ n \notin Stored(s)
  BY <1>1
<1>3. /\ Seat(t, n) = m /\ Cause(t, n) = c
      /\ \A i \in Stored(s) : Seat(t, i) = Seat(s, i) /\ Cause(t, i) = Cause(s, i)
      /\ t.disk.approval = s.disk.approval /\ t.disk.said = s.disk.said
  BY DEF Grown
<1>4. Linked(t)
  BY <1>1, <1>2, <1>3 DEF Grown, Filed, Linked
<1>5. Caused(t)
  <2>1. SUFFICES ASSUME NEW i \in Stored(t)
        PROVE  /\ Cause(t, i)[1] = "user" => Cause(t, i)[2] < i
               /\ Cause(t, i)[1] = "mail" => Cause(t, i)[2] \in DOMAIN t.disk.mail
               /\ Cause(t, i)[1] = "approval" =>
                     /\ Cause(t, i)[2] \in DOMAIN t.disk.approval
                     /\ t.disk.approval[Cause(t, i)[2]].status # "pending"
    BY DEF Caused
  <2>2. CASE i \in Stored(s)
    BY <1>1, <1>3, <2>2 DEF Filed, Caused
  <2>3. CASE i = n
    <3>1. c[1] = "user" => c[2] < n
      BY <1>1 DEF Fit
    <3> QED
      BY <1>1, <1>3, <2>3, <3>1 DEF Fit
  <2> QED
    BY <1>2, <2>2, <2>3
<1>6. Unrepeated(t)
  <2>1. ASSUME NEW i \in Stored(s), Cause(s, i) = c
        PROVE  c[1] \in {"user", "again"} /\ (c[1] = "user" => Seat(s, i) # m)
    <3>1. i \in RunsFor(s, c)
      BY <2>1 DEF RunsFor, Stored, Cause
    <3> QED
      BY <3>1 DEF Fit
  <2>2. SUFFICES ASSUME NEW i \in Stored(t), NEW j \in Stored(t), i # j,
                        Cause(t, i) = Cause(t, j)
        PROVE  Cause(t, i)[1] \in {"user", "again"}
               /\ (Cause(t, i)[1] = "user" => Seat(t, i) # Seat(t, j))
    BY DEF Unrepeated
  <2>3. CASE i \in Stored(s) /\ j \in Stored(s)
    BY <1>3, <2>2, <2>3 DEF Filed, Unrepeated
  <2>4. CASE i \in Stored(s) /\ j = n
    BY <1>3, <2>1, <2>2, <2>4
  <2>5. CASE i = n /\ j \in Stored(s)
    BY <1>3, <2>1, <2>2, <2>5
  <2> QED
    BY <1>2, <2>2, <2>3, <2>4, <2>5
<1>7. Bounded(t)
  <2>1. Len(t.disk.run) <= MaxRuns
    BY <1>1, BoundAssumption DEF Grown, Fit, BoundAssumption
  <2>2. ASSUME NEW e \in DOMAIN t.disk.mail, Unsent(t, e)
        PROVE  /\ e = Len(t.disk.mail) /\ t.disk.mail[e].run = 0
               /\ RunsFor(t, <<"mail", e>>) # {}
    <3>1. Unsent(s, e) /\ e \in DOMAIN s.disk.mail
      BY <1>1, <2>2 DEF Grown
    <3>2. c = <<"mail", e>>
      BY <3>1 DEF Fit
    <3>3. n \in RunsFor(t, c)
      BY <1>2, <1>3 DEF RunsFor, Stored, Cause
    <3> QED
      BY <3>1, <3>2, <3>3 DEF Filed, Bounded, Grown
  <2> QED
    BY <2>1, <2>2 DEF Bounded
<1>8. Sent(s) => Sent(t)
  BY <1>1 DEF Grown, Sent
<1> QED
  BY <1>4, <1>5, <1>6, <1>7, <1>8 DEF Filed

-----------------------------------------------------------------------------
(* Runs that are stopped or parked. *)

\* No run that waits can start if none could and the slots are the same.
LEMMA StillNoIdle ==
    ASSUME NEW s \in State, Sound(s, Stored(s)), NoIdle(s), NEW t \in State, Kept(s, t),
           ToSet(t.mem.queue) \subseteq ToSet(s.mem.queue), t.mem.slots = s.mem.slots
    PROVE  NoIdle(t)
<1>1. s.mem.slots \subseteq Stored(s) /\ ToSet(s.mem.queue) \subseteq Stored(s)
  BY DEF Sound, Turning, Queued
<1>2. ASSUME NEW i \in ToSet(t.mem.queue) PROVE ~CanStart(t, i)
  <2>1. i \in Stored(s) /\ ~CanStart(s, i)
    BY <1>1 DEF NoIdle
  <2> QED
    BY <1>1, <2>1, CanStartLess
<1> QED
  BY <1>2 DEF NoIdle

LEMMA CancelWhole ==
    ASSUME NEW s \in State, Whole(s), NEW i \in Stored(s), NEW t, t = Cancel(s, i)
    PROVE  t \in State /\ Kept(s, t) /\ Whole(t)
<1> DEFINE u == SetStatus(s, i, "cancelled")
<1>1. /\ u \in State /\ u.mem = s.mem /\ Restated(s, u, i, "cancelled") /\ Elsewhere(s, u)
  BY SetStatusIs DEF RunStatus
<1>2. Kept(s, s)
  BY DEF Kept, StatusStep
<1>3. CASE Status(s, i) \notin {"queued", "running"}
  BY <1>2, <1>3 DEF Cancel
<1>4. Sound(s, Stored(s)) /\ NoIdle(s)
  BY DEF Whole
<1>5. DOMAIN s.mem.queue = 1..Len(s.mem.queue) /\ s.mem.queue \in Seq(Nat)
      /\ s.mem \in Memory /\ Seat(s, i) \in Member /\ i \in Nat
  BY FieldsOf
<1>6. Contains(s.mem.queue, i) <=> i \in ToSet(s.mem.queue)
  BY <1>5 DEF Contains, ToSet
<1>7. CASE Status(s, i) \in {"queued", "running"} /\ Contains(s.mem.queue, i)
  <2> DEFINE q == RemoveFirst(s.mem.queue, i)
             v == [u EXCEPT !.mem = [s.mem EXCEPT !.queue = q]]
  <2>1. IsInjective(s.mem.queue) /\ i \in ToSet(s.mem.queue) /\ Status(s, i) = "queued"
    BY <1>4, <1>6, <1>7 DEF Sound, Queued
  <2>2. q \in Seq(Nat) /\ IsInjective(q) /\ ToSet(q) = ToSet(s.mem.queue) \ {i}
    BY <1>5, <2>1, RemoveFirstIs
  <2>3. t = Sync([u EXCEPT !.mem.queue = RemoveFirst(@, i)], Seat(s, i))
    BY <1>7 DEF Cancel
  <2> HIDE DEF u
  <2>4. [u EXCEPT !.mem.queue = RemoveFirst(@, i)] = v
    BY <1>1 DEF State
  <2> HIDE DEF q
  <2>5. /\ v \in State /\ v.disk = u.disk /\ v.mem.queue = q /\ v.mem.slots = s.mem.slots
        /\ v.mem.turns = s.mem.turns /\ v.mem.aborted = s.mem.aborted
    BY <1>1, <1>5, <2>2 DEF State, Memory
  <2> HIDE DEF v
  <2>6. Restated(s, v, i, "cancelled") /\ Elsewhere(s, v)
    BY <1>1, <2>5 DEF Restated, Elsewhere, Seat, Cause, Status
  <2>7. Kept(s, v) /\ Stored(v) = Stored(s)
    BY <2>1, <2>5, <2>6, RestatedKept DEF StatusStep
  <2>8. \A j \in Stored(s) : /\ Seat(v, j) = Seat(s, j)
                             /\ Status(v, j) = IF j = i THEN "cancelled" ELSE Status(s, j)
    BY <2>6 DEF Restated
  <2>9. s.mem.slots \subseteq s.mem.turns /\ s.mem.turns \subseteq Stored(s) /\ i \notin s.mem.turns
    BY <1>4, <2>1 DEF Sound, Turning
  <2>10. Queued(v, Stored(s))
    BY <1>4, <2>1, <2>2, <2>5, <2>8 DEF Sound, Queued
  <2>11. Slotted(v, Stored(s))
    BY <1>4, <2>1, <2>5, <2>8, <2>9 DEF Sound, Slotted
  <2>12. Turning(v, Stored(s))
    BY <1>4, <2>1, <2>5, <2>8, <2>9 DEF Sound, Turning
  <2>13. NoIdle(v)
    BY <1>4, <2>2, <2>5, <2>7, StillNoIdle
  <2>14. Alike(v, t)
    BY <1>5, <2>3, <2>4, <2>5, SyncIs
  <2>15. t \in State /\ Kept(v, t) /\ Stored(t) = Stored(v) /\ Sound(t, Stored(s)) /\ NoIdle(t)
    BY <2>5, <2>10, <2>11, <2>12, <2>13, <2>14, AlikeIs DEF Sound
  <2> QED
    BY <2>5, <2>7, <2>15, KeptThen DEF Whole
<1>8. CASE Status(s, i) \in {"queued", "running"} /\ ~Contains(s.mem.queue, i)
  <2>1. Status(s, i) = "running"
    BY <1>4, <1>6, <1>8 DEF Sound, Queued
  <2>2. i \in s.mem.slots /\ i \in s.mem.turns /\ s.mem.turns \subseteq Stored(s)
        /\ s.mem.slots \subseteq s.mem.turns
    BY <1>4, <2>1 DEF Sound, Slotted, Turning
  <2> DEFINE a == s.mem.aborted \cup ({i} \cap s.mem.turns)
             v == [u EXCEPT !.mem = [s.mem EXCEPT !.aborted = a]]
  <2>3. t = [u EXCEPT !.mem.aborted = @ \cup ({i} \cap s.mem.turns)]
    BY <1>8 DEF Cancel
  <2> HIDE DEF u
  <2>4. t = v
    BY <1>1, <2>3 DEF State
  <2>5. a = s.mem.aborted \cup {i} /\ a \in SUBSET Nat
    BY <1>5, <2>2 DEF Memory
  <2> HIDE DEF a
  <2>6. /\ v \in State /\ v.disk = u.disk /\ v.mem.queue = s.mem.queue
        /\ v.mem.slots = s.mem.slots /\ v.mem.turns = s.mem.turns /\ v.mem.aborted = a
    BY <1>1, <1>5, <2>5 DEF State, Memory
  <2> HIDE DEF v
  <2>7. Restated(s, v, i, "cancelled") /\ Elsewhere(s, v)
    BY <1>1, <2>6 DEF Restated, Elsewhere, Seat, Cause, Status
  <2>8. Kept(s, v) /\ Stored(v) = Stored(s)
    BY <2>1, <2>6, <2>7, RestatedKept DEF StatusStep
  <2>9. \A j \in Stored(s) : /\ Seat(v, j) = Seat(s, j)
                             /\ Status(v, j) = IF j = i THEN "cancelled" ELSE Status(s, j)
    BY <2>7 DEF Restated
  <2>10. Queued(v, Stored(s))
    BY <1>4, <2>1, <2>6, <2>9 DEF Sound, Queued
  <2>11. Slotted(v, Stored(s))
    BY <1>4, <2>1, <2>2, <2>6, <2>9 DEF Sound, Slotted
  <2>12. Turning(v, Stored(s))
    BY <1>4, <2>1, <2>2, <2>5, <2>6, <2>9 DEF Sound, Turning
  <2>13. NoIdle(v)
    BY <1>4, <2>6, <2>8, StillNoIdle
  <2> QED
    BY <2>4, <2>6, <2>8, <2>10, <2>11, <2>12, <2>13 DEF Sound, Whole
<1> QED
  BY <1>3, <1>7, <1>8

\* All runs of a member are cancelled one after the other.
LEMMA CancelAllWhole ==
    ASSUME NEW s \in State, Whole(s), NEW m
    PROVE  CancelAllOf(s, m) \in State /\ Kept(s, CancelAllOf(s, m)) /\ Whole(CancelAllOf(s, m))
<1> DEFINE n == Len(s.disk.run)
           q == [i \in DOMAIN s.disk.run |-> i]
           Step(t, i) == IF Seat(t, i) = m THEN Cancel(t, i) ELSE t
           B == {t \in State : Kept(s, t) /\ Whole(t)}
           F == [S \in SUBSET (1..n) |-> B]
           g == [p \in B \X (1..n) |-> Step(p[1], p[2])]
           Rec(h) == h = [S \in SUBSET DOMAIN q |->
                            IF S = {} THEN s ELSE Step(h[S \ {Max(S)}], q[Max(S)])]
           it == CHOOSE h : Rec(h)
<1>1. n \in Nat /\ DOMAIN s.disk.run = 1..n /\ DOMAIN q = 1..n /\ \A i \in 1..n : q[i] = i
  BY FieldsOf DEF Stored
<1>2. s \in B
  BY DEF Kept, StatusStep
<1>3. ASSUME NEW t \in B, NEW i \in 1..n PROVE Step(t, i) \in B
  <2>1. i \in Stored(t)
    BY <1>1, <1>3, FieldsOf DEF Kept
  <2>2. Cancel(t, i) \in State /\ Kept(t, Cancel(t, i)) /\ Whole(Cancel(t, i))
    BY <2>1, CancelWhole
  <2>3. Cancel(t, i) \in B
    BY <2>2, KeptThen
  <2> QED
    BY <2>3
<1> HIDE DEF Step, B
<1>4. \A S \in SUBSET (1..n), k \in 1..n :
          (\A j \in S : j < k) => \A p \in F[S] : g[<<p, k>>] \in F[S \cup {k}]
  BY <1>3
<1>5. s \in F[{}]
  BY <1>2
<1> HIDE DEF F
<1>6. PICK h : Folding(h, n, s, g) /\ \A S \in SUBSET (1..n) : h[S] \in F[S]
  <2> HIDE DEF g
  <2> QED
    BY <1>1, <1>4, <1>5, FoldValues
<1>7. ASSUME NEW S \in SUBSET (1..n), S # {}
      PROVE  g[<<h[S \ {Max(S)}], Max(S)>>] = Step(h[S \ {Max(S)}], q[Max(S)])
  <2>1. Max(S) \in 1..n /\ h[S \ {Max(S)}] \in B
    BY <1>1, <1>6, <1>7, MaxIs DEF F
  <2> QED
    BY <1>1, <2>1
<1> HIDE DEF g
<1>8. Rec(it)
  <2>1. Rec(h)
    BY <1>1, <1>6, <1>7 DEF Folding
  <2> QED
    BY <2>1
<1>9. it[1..n] \in B
  <2> HIDE DEF it
  <2>1. it[{}] \in F[{}]
    BY <1>5, <1>8
  <2>2. ASSUME NEW S \in SUBSET (1..n), S # {}, it[S \ {Max(S)}] \in F[S \ {Max(S)}]
        PROVE  it[S] \in F[S]
    <3>1. Max(S) \in 1..n
      BY <1>1, <2>2, MaxIs
    <3>2. it[S] = Step(it[S \ {Max(S)}], q[Max(S)])
      BY <1>1, <1>8, <2>2
    <3>3. it[S \ {Max(S)}] \in B /\ q[Max(S)] = Max(S)
      BY <1>1, <2>2, <3>1 DEF F
    <3>4. it[S] \in B
      BY <1>3, <3>1, <3>2, <3>3
    <3> QED
      BY <3>4 DEF F
  <2>3. \A S \in SUBSET (1..n) : it[S] \in F[S]
    BY <1>1, <2>1, <2>2, FoldIn
  <2> QED
    BY <1>1, <2>3 DEF F
<1>10. CancelAllOf(s, m) = it[DOMAIN q]
  BY DEF CancelAllOf, FoldLeftDomain, FoldLeft, MapThenFoldSet, Step
<1> QED
  BY <1>1, <1>9, <1>10 DEF B

\* A run that is parked has no slot and its turn is stopped.
LEMMA ParkSound ==
    ASSUME NEW s \in State, Sound(s, Stored(s)), NEW i \in Stored(s), Status(s, i) = "running",
           NEW x \in {"awaiting_peer", "awaiting_user"}, NEW t, t = Park(s, i, x)
    PROVE  t \in State /\ Kept(s, t) /\ Whole(t)
<1> DEFINE u == SetStatus(s, i, x)
           mem1 == [s.mem EXCEPT !.aborted = @ \cup {i}, !.slots = @ \ {i}]
           v == [u EXCEPT !.mem = mem1]
<1>1. /\ u \in State /\ u.mem = s.mem /\ Restated(s, u, i, x) /\ Elsewhere(s, u)
  BY SetStatusIs DEF RunStatus
<1>2. t = Drain([[u EXCEPT !.mem.aborted = @ \cup {i}] EXCEPT !.mem.slots = @ \ {i}])
  BY DEF Park, Release
<1> HIDE DEF u
<1>3. s.mem \in Memory /\ i \in Nat
  BY FieldsOf
<1>4. [[u EXCEPT !.mem.aborted = @ \cup {i}] EXCEPT !.mem.slots = @ \ {i}] = v
  BY <1>1, <1>3 DEF State, Memory
<1>5. /\ v \in State /\ v.disk = u.disk /\ v.mem.queue = s.mem.queue
      /\ v.mem.slots = s.mem.slots \ {i} /\ v.mem.turns = s.mem.turns
      /\ v.mem.aborted = s.mem.aborted \cup {i}
  BY <1>1, <1>3 DEF State, Memory
<1> HIDE DEF v
<1>6. Restated(s, v, i, x) /\ Elsewhere(s, v)
  BY <1>1, <1>5 DEF Restated, Elsewhere, Seat, Cause, Status
<1>7. Kept(s, v) /\ Stored(v) = Stored(s)
  BY <1>5, <1>6, RestatedKept DEF StatusStep
<1>8. \A j \in Stored(s) : /\ Seat(v, j) = Seat(s, j)
                           /\ Status(v, j) = IF j = i THEN x ELSE Status(s, j)
  BY <1>6 DEF Restated
<1>9. s.mem.slots \subseteq s.mem.turns /\ s.mem.turns \subseteq Stored(s) /\ i \in s.mem.turns
  BY DEF Sound, Slotted, Turning
<1>10. Queued(v, Stored(s))
  BY <1>5, <1>8 DEF Sound, Queued
<1>11. Slotted(v, Stored(s))
  BY <1>5, <1>8, <1>9 DEF Sound, Slotted
<1>12. Turning(v, Stored(s))
  BY <1>5, <1>8, <1>9 DEF Sound, Turning
<1>13. t \in State /\ Kept(v, t) /\ Sound(t, Stored(s)) /\ NoIdle(t)
  <2>1. Sound(v, Stored(s)) /\ Stored(s) \in SUBSET Stored(v)
    BY <1>7, <1>10, <1>11, <1>12 DEF Sound
  <2> QED
    BY <1>2, <1>4, <1>5, <2>1, DrainSound
<1>14. Stored(t) = Stored(s)
  BY <1>5, <1>7, <1>13, FieldsOf DEF Kept
<1> QED
  BY <1>5, <1>7, <1>13, <1>14, KeptThen DEF Whole

-----------------------------------------------------------------------------
(* Steps. *)

\* Between two operations of a living process.
Good(s) == s \in State /\ Filed(s) /\ Sent(s) /\ Whole(s)

\* No run of s is lost, and what is over or blocked stays so.
Follows(s, t) ==
    /\ Len(s.disk.run) <= Len(t.disk.run)
    /\ \A i \in Stored(s) : StatusStep(Status(s, i), Status(t, i))

LEMMA FollowsIf ==
    ASSUME NEW s \in State, NEW t \in State
    PROVE  /\ Kept(s, t) => Follows(s, t)
           /\ \A m, c : Grown(s, t, m, c) => Follows(s, t)
           /\ \A u \in State : Follows(s, t) /\ Follows(t, u) => Follows(s, u)
           /\ Follows(s, t) => Stored(s) \subseteq Stored(t)
<1>1. /\ Len(s.disk.run) \in Nat /\ Len(t.disk.run) \in Nat
      /\ Stored(s) = 1..Len(s.disk.run) /\ Stored(t) = 1..Len(t.disk.run)
  BY FieldsOf
<1>2. Kept(s, t) => Follows(s, t)
  BY <1>1 DEF Kept, Follows
<1>3. \A m, c : Grown(s, t, m, c) => Follows(s, t)
  BY <1>1 DEF Grown, Follows
<1>4. Follows(s, t) => Stored(s) \subseteq Stored(t)
  BY <1>1 DEF Follows
<1>5. ASSUME NEW u \in State, Follows(s, t), Follows(t, u) PROVE Follows(s, u)
  <2>1. Len(u.disk.run) \in Nat
    BY FieldsOf
  <2> QED
    <3>1. Len(s.disk.run) <= Len(u.disk.run)
      BY <1>1, <1>5, <2>1 DEF Follows
    <3>2. ASSUME NEW i \in Stored(s) PROVE StatusStep(Status(s, i), Status(u, i))
      <4>1. StatusStep(Status(s, i), Status(t, i)) /\ StatusStep(Status(t, i), Status(u, i))
        BY <1>4, <1>5 DEF Follows
      <4> QED
        BY <4>1 DEF StatusStep
    <3> QED
      BY <3>1, <3>2 DEF Follows
<1> QED
  BY <1>2, <1>3, <1>4, <1>5

\* t has the runs and the process of s, and its room.
SameRuns(s, t) ==
    /\ t \in State /\ t.mem = s.mem /\ t.disk.run = s.disk.run /\ t.disk.room = s.disk.room

LEMMA SameRunsIs ==
    ASSUME NEW s \in State, NEW t, SameRuns(s, t)
    PROVE  /\ Stored(t) = Stored(s) /\ Follows(s, t)
           /\ \A i : Seat(t, i) = Seat(s, i) /\ Status(t, i) = Status(s, i)
                     /\ Cause(t, i) = Cause(s, i)
           /\ \A D : Sound(s, D) => Sound(t, D)
           /\ Whole(s) => Whole(t)
<1>1. Stored(t) = Stored(s)
  BY DEF SameRuns, Stored
<1>2. \A i : Seat(t, i) = Seat(s, i) /\ Status(t, i) = Status(s, i) /\ Cause(t, i) = Cause(s, i)
  BY DEF SameRuns, Seat, Status, Cause
<1>3. ASSUME NEW D, Sound(s, D) PROVE Sound(t, D)
  BY <1>2, <1>3 DEF SameRuns, Sound, Queued, Slotted, Turning
<1>4. \A i : CanStart(t, i) <=> CanStart(s, i)
  BY <1>2 DEF SameRuns, CanStart, Busy
<1>5. NoIdle(s) => NoIdle(t)
  BY <1>4 DEF SameRuns, NoIdle
<1>6. Follows(s, t)
  BY <1>2, FieldsOf DEF SameRuns, Follows, StatusStep
<1> QED
  BY <1>1, <1>2, <1>3, <1>5, <1>6 DEF Whole

\* The status of a run that neither waits nor holds a slot changes.
LEMMA SettleSound ==
    ASSUME NEW s \in State, NEW D \in SUBSET Stored(s), Sound(s, D), NoIdle(s),
           NEW i \in Stored(s), Status(s, i) \in {"awaiting_peer", "awaiting_user"},
           NEW x \in {"done", "failed", "blocked"}, NEW t, t = SetStatus(s, i, x)
    PROVE  /\ t \in State /\ Kept(s, t) /\ Sound(t, D) /\ NoIdle(t)
           /\ t.disk.mail = s.disk.mail
<1>1. /\ t \in State /\ t.mem = s.mem /\ Restated(s, t, i, x) /\ Elsewhere(s, t)
      /\ t.disk.mail = s.disk.mail
  BY SetStatusIs DEF RunStatus
<1>2. Kept(s, t) /\ Stored(t) = Stored(s)
  BY <1>1, RestatedKept DEF StatusStep
<1>3. \A j \in Stored(s) : /\ Seat(t, j) = Seat(s, j)
                           /\ Status(t, j) = IF j = i THEN x ELSE Status(s, j)
  BY <1>1 DEF Restated
<1>4. s.mem.slots \subseteq s.mem.turns /\ s.mem.turns \subseteq D
  BY DEF Sound, Turning
<1>5. Queued(t, D)
  BY <1>1, <1>3 DEF Sound, Queued
<1>6. Slotted(t, D)
  BY <1>1, <1>3, <1>4 DEF Sound, Slotted
<1>7. Turning(t, D)
  BY <1>1, <1>3, <1>4 DEF Sound, Turning
<1>8. ASSUME NEW j \in ToSet(t.mem.queue) PROVE ~CanStart(t, j)
  <2>1. j \in Stored(s) /\ ~CanStart(s, j)
    BY <1>1, <1>8 DEF NoIdle, Sound, Queued
  <2>2. t.mem.slots \subseteq Stored(s)
    BY <1>1, <1>4
  <2> QED
    BY <1>1, <1>2, <2>1, <2>2, CanStartLess
<1> QED
  BY <1>1, <1>2, <1>5, <1>6, <1>7, <1>8 DEF Sound, NoIdle

\* A run can be added between two operations.
LEMMA AddGood ==
    ASSUME NEW s \in State, Filed(s), Sound(s, Stored(s)), NEW m \in Member,
           NEW c \in Kind \X Nat, Fit(s, m, c), NEW t, t = Add(s, m, c)
    PROVE  /\ t \in State /\ Grown(s, t, m, c) /\ Filed(t) /\ Whole(t) /\ Follows(s, t)
           /\ Sent(s) => Good(t)
<1>1. t \in State /\ Grown(s, t, m, c) /\ Whole(t)
  BY AddSound
<1>2. Filed(t) /\ (Sent(s) => Sent(t))
  BY <1>1, GrownFiled
<1> QED
  BY <1>1, <1>2, FollowsIf DEF Good

-----------------------------------------------------------------------------
(* Envelopes that are posted and sent. *)

LEMMA RunDepthIs ==
    ASSUME NEW s \in State, NEW i PROVE RunDepth(s, i) \in 0..MaxA2ADepth
<1> DEFINE own == {e \in DOMAIN s.disk.mail : s.disk.mail[e].from = i}
           depths == {s.disk.mail[e].depth : e \in own}
<1>1. MaxA2ADepth \in Nat
  BY BoundAssumption DEF BoundAssumption
<1>2. CASE own = {}
  BY <1>1, <1>2 DEF RunDepth
<1>3. CASE own # {}
  <2>1. depths \in SUBSET (0..MaxA2ADepth)
    BY FieldsOf DEF MailRec
  <2>2. depths # {}
    BY <1>3
  <2>3. Max(depths) \in depths
    BY <1>1, <2>1, <2>2, MaxFrom0
  <2>4. RunDepth(s, i) = Max(depths)
    BY <1>3 DEF RunDepth
  <2> QED
    BY <2>1, <2>3, <2>4
<1> QED
  BY <1>2, <1>3

\* A posted envelope is the last one, and the only one that is not sent.
LEMMA PostIs ==
    ASSUME NEW s, Good(s), NEW i \in Stored(s), RunDepth(s, i) < MaxA2ADepth,
           NEW m \in Member, NEW type \in {"message", "question"},
           Len(s.disk.run) < MaxRuns, NEW t, t = Post(s, i, m, type),
           NEW e, e = Len(s.disk.mail) + 1
    PROVE  /\ SameRuns(s, t) /\ t.disk.said = s.disk.said /\ Filed(t) /\ Whole(t)
           /\ e = Len(t.disk.mail) /\ e \in DOMAIN t.disk.mail /\ e \in Nat
           /\ t.disk.mail[e].to = m /\ Unsent(t, e)
           /\ RunsFor(t, <<"mail", e>>) = {}
<1> DEFINE x == [from |-> i, to |-> m, type |-> type,
                 depth |-> RunDepth(s, i) + (IF type = "question" THEN 1 ELSE 0),
                 state |-> "pending", delivery |-> "outbox", run |-> 0]
           b == Append(s.disk.mail, x)
<1>1. /\ s \in State /\ s.disk \in Disk /\ s.mem \in Memory /\ i \in Nat
      /\ s.disk.mail \in Seq(MailRec) /\ Len(s.disk.mail) \in Nat
      /\ DOMAIN s.disk.mail = 1..Len(s.disk.mail)
  BY FieldsOf DEF Good
<1>2. x \in MailRec /\ x.to = m /\ x.from = i /\ x.delivery = "outbox" /\ x.run = 0
  <2>1. RunDepth(s, i) \in 0..MaxA2ADepth /\ MaxA2ADepth \in Nat
    BY <1>1, RunDepthIs, BoundAssumption DEF BoundAssumption
  <2> QED
    BY <1>1, <2>1 DEF MailRec
<1>3. t = [s EXCEPT !.disk = [s.disk EXCEPT !.mail = b]]
  BY DEF Post
<1> HIDE DEF x
<1>4. /\ b \in Seq(MailRec) /\ Len(b) = e /\ DOMAIN b = 1..e
      /\ \A j \in 1..Len(s.disk.mail) : b[j] = s.disk.mail[j]
      /\ b[e] = x
  BY <1>1, <1>2, AppendIs
<1> HIDE DEF b
<1>5. /\ t.disk.mail = b /\ t.mem = s.mem /\ t.disk.run = s.disk.run
      /\ t.disk.room = s.disk.room /\ t.disk.approval = s.disk.approval
      /\ t.disk.said = s.disk.said
  BY <1>1, <1>3 DEF State, Disk
<1>6. [s.disk EXCEPT !.mail = b] \in Disk
  BY <1>1, <1>4 DEF Disk
<1>7. SameRuns(s, t)
  BY <1>1, <1>3, <1>5, <1>6 DEF State, SameRuns
<1>8. /\ Stored(t) = Stored(s) /\ Whole(t)
      /\ \A j : Seat(t, j) = Seat(s, j) /\ Cause(t, j) = Cause(s, j)
  BY <1>1, <1>7, SameRunsIs DEF Good
<1>9. e \in Nat /\ e \in 1..e /\ \A j \in 1..e : j = e \/ j \in 1..Len(s.disk.mail)
  BY <1>1
<1>10. Filed(s) /\ Sent(s)
  BY DEF Good
<1>11. Linked(t)
  <2>1. \A j \in 1..e : b[j].from \in Stored(s)
    BY <1>1, <1>2, <1>4, <1>9, <1>10 DEF Filed, Linked
  <2> QED
    BY <1>4, <1>5, <1>8, <1>10, <2>1 DEF Filed, Linked
<1>12. Caused(t)
  <2>1. DOMAIN s.disk.mail \subseteq DOMAIN t.disk.mail
    BY <1>1, <1>4, <1>5
  <2> QED
    BY <1>5, <1>8, <1>10, <2>1 DEF Filed, Caused
<1>13. Unrepeated(t)
  BY <1>8, <1>10, StillUnrepeated DEF Filed
<1>14. Bounded(t)
  <2>1. \A j \in 1..Len(s.disk.mail) : ~Unsent(t, j)
    BY <1>1, <1>4, <1>5, <1>10 DEF Sent, Unsent
  <2>2. Len(t.disk.run) < MaxRuns /\ t.disk.mail[e].run = 0
    BY <1>2, <1>4, <1>5
  <2>3. Len(t.disk.run) <= MaxRuns
    BY <1>5, <1>10 DEF Filed, Bounded
  <2> QED
    BY <1>4, <1>5, <1>9, <2>1, <2>2, <2>3 DEF Bounded
<1>15. RunsFor(t, <<"mail", e>>) = {}
  <2>1. ASSUME NEW j \in Stored(s), Cause(s, j) = <<"mail", e>> PROVE FALSE
    <3>1. e \in DOMAIN s.disk.mail
      BY <1>10, <2>1 DEF Filed, Caused
    <3> QED
      BY <1>1, <3>1
  <2> QED
    BY <1>8, <2>1 DEF RunsFor, Stored, Cause
<1> QED
  BY <1>2, <1>4, <1>5, <1>7, <1>8, <1>9, <1>11, <1>12, <1>13, <1>14, <1>15 DEF Filed, Unsent

\* What the run of an envelope that is not sent needs.
LEMMA MailFit ==
    ASSUME NEW s \in State, Filed(s), NEW e \in DOMAIN s.disk.mail, Unsent(s, e),
           RunsFor(s, <<"mail", e>>) = {}, NEW m
    PROVE  Fit(s, m, <<"mail", e>>) /\ <<"mail", e>> \in Kind \X Nat
<1>1. e \in Nat
  BY FieldsOf
<1>2. /\ e = Len(s.disk.mail) /\ Len(s.disk.run) < MaxRuns
      /\ \A j \in DOMAIN s.disk.mail : Unsent(s, j) => j = e
  BY DEF Filed, Bounded
<1> QED
  BY <1>1, <1>2 DEF Fit, Kind

\* The record of an envelope that was sent.
SentAs(s, e, n) ==
    [s EXCEPT !.disk.mail[e].delivery = "dispatched", !.disk.mail[e].run = n]

LEMMA SentOut ==
    ASSUME NEW s \in State, Filed(s), Whole(s), NEW e \in DOMAIN s.disk.mail, Unsent(s, e),
           NEW n \in Nat, NEW t, t = SentAs(s, e, n)
    PROVE  Good(t) /\ Follows(s, t) /\ t.disk.said = s.disk.said
<1> DEFINE x == [s.disk.mail[e] EXCEPT !.delivery = "dispatched", !.run = n]
           b == [s.disk.mail EXCEPT ![e] = x]
<1>1. /\ s.disk \in Disk /\ s.mem \in Memory /\ s.disk.mail \in Seq(MailRec)
      /\ e \in 1..Len(s.disk.mail) /\ s.disk.mail[e] \in MailRec
      /\ DOMAIN s.disk.mail = 1..Len(s.disk.mail)
  BY FieldsOf
<1>2. x \in MailRec /\ x.from = s.disk.mail[e].from /\ x.delivery = "dispatched"
  BY <1>1 DEF MailRec
<1>3. t = [s EXCEPT !.disk = [s.disk EXCEPT !.mail = b]]
  <2>1. [s.disk.mail EXCEPT ![e].delivery = "dispatched", ![e].run = n] = b
    BY <1>1 DEF MailRec
  <2> HIDE DEF b
  <2>2. [s.disk EXCEPT !.mail[e].delivery = "dispatched", !.mail[e].run = n]
        = [s.disk EXCEPT !.mail = b]
    BY <1>1, <2>1 DEF Disk
  <2>3. t = [s EXCEPT !.disk = [s.disk EXCEPT !.mail[e].delivery = "dispatched",
                                              !.mail[e].run = n]]
    <3>1. t = [s EXCEPT !.disk.mail[e].delivery = "dispatched", !.disk.mail[e].run = n]
      BY DEF SentAs
    <3>2. s = [disk |-> s.disk, mem |-> s.mem]
      BY DEF State
    <3> QED
      BY <1>1, <3>1, <3>2
  <2> QED
    BY <2>2, <2>3
<1> HIDE DEF x
<1>4. /\ b \in Seq(MailRec) /\ Len(b) = Len(s.disk.mail)
      /\ \A j \in 1..Len(s.disk.mail) : b[j] = IF j = e THEN x ELSE s.disk.mail[j]
  BY <1>1, <1>2, ExceptSeq
<1>5. DOMAIN b = 1..Len(s.disk.mail)
  BY <1>1
<1> HIDE DEF b
<1>6. /\ t.disk.mail = b /\ t.mem = s.mem /\ t.disk.run = s.disk.run
      /\ t.disk.room = s.disk.room /\ t.disk.approval = s.disk.approval
      /\ t.disk.said = s.disk.said
  <2>1. s.disk \in Disk
    BY <1>1
  <2> QED
    BY <1>3, <2>1 DEF State, Disk
<1>7. [s.disk EXCEPT !.mail = b] \in Disk
  BY <1>1, <1>4 DEF Disk
<1>8. SameRuns(s, t)
  BY <1>1, <1>3, <1>6, <1>7 DEF State, SameRuns
<1>9. /\ Stored(t) = Stored(s) /\ Whole(t) /\ Follows(s, t)
      /\ \A j : Seat(t, j) = Seat(s, j) /\ Cause(t, j) = Cause(s, j)
  BY <1>8, SameRunsIs
<1>10. Sent(t)
  <2>1. \A j \in DOMAIN s.disk.mail : Unsent(s, j) => j = e
    BY DEF Filed, Bounded
  <2>2. \A j \in 1..Len(s.disk.mail) : b[j].delivery # "outbox"
    BY <1>1, <1>2, <1>4, <2>1 DEF Unsent
  <2> QED
    BY <1>5, <1>6, <2>2 DEF Sent, Unsent
<1>11. Linked(t)
  BY <1>1, <1>2, <1>4, <1>5, <1>6, <1>9 DEF Filed, Linked
<1>12. Caused(t)
  BY <1>1, <1>5, <1>6, <1>9 DEF Filed, Caused
<1>13. Unrepeated(t)
  BY <1>9, StillUnrepeated DEF Filed
<1>14. Bounded(t)
  BY <1>6, <1>10 DEF Filed, Bounded, Sent
<1> QED
  BY <1>6, <1>8, <1>9, <1>10, <1>11, <1>12, <1>13, <1>14 DEF Good, Filed, SameRuns

\* An envelope that is dispatched is sent and has a run.
LEMMA DispatchGood ==
    ASSUME NEW s \in State, Filed(s), Whole(s), NEW e \in DOMAIN s.disk.mail, Unsent(s, e),
           NEW t, t = Dispatch(s, e)
    PROVE  Good(t) /\ Follows(s, t) /\ t.disk.said = s.disk.said
<1> DEFINE old == RunsFor(s, <<"mail", e>>)
<1>1. CASE old = {}
  <2> DEFINE m == s.disk.mail[e].to
             u == Add(s, m, <<"mail", e>>)
  <2>1. m \in Member /\ Len(s.disk.run) + 1 \in Nat
    BY FieldsOf DEF MailRec
  <2>2. Fit(s, m, <<"mail", e>>) /\ <<"mail", e>> \in Kind \X Nat
    BY <1>1, MailFit
  <2>3. /\ u \in State /\ Grown(s, u, m, <<"mail", e>>) /\ Filed(u) /\ Whole(u)
        /\ Follows(s, u)
    BY <2>1, <2>2, AddGood DEF Whole
  <2>4. t = SentAs(u, e, Len(s.disk.run) + 1)
    BY <1>1 DEF Dispatch, SentAs
  <2> HIDE DEF u, m, old
  <2>5. e \in DOMAIN u.disk.mail /\ Unsent(u, e) /\ u.disk.said = s.disk.said
    BY <2>3, FieldsOf DEF Grown
  <2>6. Good(t) /\ Follows(u, t) /\ t.disk.said = u.disk.said
    BY <2>1, <2>3, <2>4, <2>5, SentOut
  <2> QED
    BY <2>3, <2>5, <2>6, FollowsIf DEF Good
<1>2. CASE old # {}
  <2>1. old \in SUBSET Nat
    BY FieldsOf DEF RunsFor, Stored
  <2>2. Min(old) \in Nat
    <3> HIDE DEF old
    <3> QED
      BY <1>2, <2>1, MinIs
  <2>3. t = SentAs(s, e, Min(old))
    BY <1>2 DEF Dispatch, SentAs
  <2> HIDE DEF old
  <2> QED
    BY <2>2, <2>3, SentOut
<1> QED
  BY <1>1, <1>2

-----------------------------------------------------------------------------
(* Other records. *)

LEMMA BoxesKept ==
    ASSUME NEW s \in State, NEW b \in Boxes(s.disk.mail),
           NEW t, t = [s EXCEPT !.disk.mail = b]
    PROVE  SameRuns(s, t) /\ Kept(s, t) /\ (Good(s) => Good(t))
<1>1. s.disk \in Disk /\ s.mem \in Memory /\ DOMAIN s.disk.mail = 1..Len(s.disk.mail)
  BY FieldsOf
<1>2. /\ b \in Seq(MailRec) /\ Len(b) = Len(s.disk.mail)
      /\ \A e \in 1..Len(s.disk.mail) :
            /\ b[e].from = s.disk.mail[e].from /\ b[e].run = s.disk.mail[e].run
            /\ b[e].delivery = "outbox" <=> s.disk.mail[e].delivery = "outbox"
  BY DEF Boxes
<1>3. t = [s EXCEPT !.disk = [s.disk EXCEPT !.mail = b]]
  OBVIOUS
<1>4. /\ t.disk.mail = b /\ t.mem = s.mem /\ t.disk.run = s.disk.run
      /\ t.disk.room = s.disk.room /\ t.disk.approval = s.disk.approval
      /\ t.disk.said = s.disk.said
  <2>1. s.disk \in Disk
    BY <1>1
  <2> QED
    BY <1>3, <2>1 DEF State, Disk
<1>5. [s.disk EXCEPT !.mail = b] \in Disk
  BY <1>1, <1>2 DEF Disk
<1>6. SameRuns(s, t)
  BY <1>1, <1>3, <1>4, <1>5 DEF State, SameRuns
<1>7. Kept(s, t)
  <2>1. \A j : Seat(t, j) = Seat(s, j) /\ Cause(t, j) = Cause(s, j) /\ Status(t, j) = Status(s, j)
    BY <1>6, SameRunsIs
  <2> QED
    BY <1>1, <1>2, <1>4, <2>1 DEF Kept, StatusStep, Unsent
<1>8. ASSUME Good(s) PROVE Good(t)
  <2>1. Filed(t) /\ Sent(t) /\ t \in State
    BY <1>6, <1>7, <1>8, KeptFiled DEF Good, SameRuns
  <2>2. Whole(t)
    BY <1>6, <1>8, SameRunsIs DEF Good
  <2> QED
    BY <2>1, <2>2 DEF Good
<1> QED
  BY <1>6, <1>7, <1>8

\* A question is answered and, unless somebody else did, its asker done.
LEMMA AnsweredIs ==
    ASSUME NEW s, Good(s), NEW e \in DOMAIN s.disk.mail, NEW t, t = Answered(s, e)
    PROVE  Good(t) /\ Kept(s, t)
<1> DEFINE x == [s.disk.mail[e] EXCEPT !.state = "answered"]
           b == [s.disk.mail EXCEPT ![e] = x]
           u == [s EXCEPT !.disk.mail[e].state = "answered"]
           i == s.disk.mail[e].from
<1>1. /\ s \in State /\ s.disk.mail \in Seq(MailRec) /\ e \in 1..Len(s.disk.mail)
      /\ s.disk.mail[e] \in MailRec
  BY FieldsOf DEF Good
<1>2. /\ x \in MailRec /\ x.from = s.disk.mail[e].from /\ x.run = s.disk.mail[e].run
      /\ x.delivery = s.disk.mail[e].delivery
  BY <1>1 DEF MailRec
<1>3. u = [s EXCEPT !.disk.mail = b]
  OBVIOUS
<1> HIDE DEF x
<1>4. /\ b \in Seq(MailRec) /\ Len(b) = Len(s.disk.mail)
      /\ \A j \in 1..Len(s.disk.mail) : b[j] = IF j = e THEN x ELSE s.disk.mail[j]
  BY <1>1, <1>2, ExceptSeq
<1> HIDE DEF b
<1>5. b \in Boxes(s.disk.mail)
  BY <1>2, <1>4 DEF Boxes
<1>6. t = IF Wakes(s, e) THEN SetStatus(u, i, "done") ELSE u
  BY DEF Answered
<1> HIDE DEF u
<1>7. SameRuns(s, u) /\ Kept(s, u) /\ Good(u)
  BY <1>1, <1>3, <1>5, BoxesKept
<1>8. CASE Wakes(s, e)
  <2>1. i \in Stored(s) /\ Status(s, i) = "awaiting_peer"
    BY <1>8 DEF Wakes, Good, Filed, Linked
  <2>2. i \in Stored(u) /\ Status(u, i) = "awaiting_peer"
    BY <1>1, <1>7, <2>1, SameRunsIs
  <2> HIDE DEF i
  <2>3. t = SetStatus(u, i, "done")
    BY <1>6, <1>8
  <2>4. t \in State /\ Kept(u, t) /\ Sound(t, Stored(u)) /\ NoIdle(t)
    BY <1>7, <2>2, <2>3, SettleSound DEF Good, Whole
  <2>5. Stored(t) = Stored(u)
    BY <1>7, <2>4, FieldsOf DEF Good, Kept
  <2>6. Filed(t) /\ Sent(t)
    BY <1>7, <2>4, KeptFiled DEF Good
  <2>7. Kept(s, t)
    BY <1>1, <1>7, <2>4, KeptThen DEF Good
  <2> QED
    BY <2>4, <2>5, <2>6, <2>7 DEF Good, Whole
<1>9. CASE ~Wakes(s, e)
  BY <1>6, <1>7, <1>9
<1> QED
  BY <1>8, <1>9

\* Requests that may follow those of s: none is lost, and none decided is
\* pending again.
Requests(s) ==
    {a \in Seq(ApprovalRec) :
        /\ Len(s.disk.approval) <= Len(a)
        /\ \A k \in 1..Len(a) : a[k].run \in Stored(s)
        /\ \A k \in 1..Len(s.disk.approval) :
              s.disk.approval[k].status # "pending" => a[k].status # "pending"}

LEMMA RequestsGood ==
    ASSUME NEW s, Good(s), NEW a \in Requests(s), NEW t, t = [s EXCEPT !.disk.approval = a]
    PROVE  /\ Good(t) /\ SameRuns(s, t) /\ t.disk.approval = a /\ t.disk.said = s.disk.said
           /\ t.disk.mail = s.disk.mail
<1>1. /\ s \in State /\ s.disk \in Disk /\ s.mem \in Memory
      /\ DOMAIN s.disk.approval = 1..Len(s.disk.approval)
      /\ a \in Seq(ApprovalRec) /\ Len(s.disk.approval) \in Nat
      /\ Len(a) \in Nat /\ DOMAIN a = 1..Len(a)
  BY FieldsOf, LenProperties DEF Good, Requests
<1>2. t = [s EXCEPT !.disk = [s.disk EXCEPT !.approval = a]]
  OBVIOUS
<1>3. /\ t.disk.approval = a /\ t.mem = s.mem /\ t.disk.run = s.disk.run
      /\ t.disk.room = s.disk.room /\ t.disk.mail = s.disk.mail
      /\ t.disk.said = s.disk.said
  <2>1. s.disk \in Disk /\ s \in State
    BY <1>1
  <2> QED
    BY <1>2, <2>1 DEF State, Disk
<1>4. [s.disk EXCEPT !.approval = a] \in Disk
  BY <1>1 DEF Disk
<1>5. SameRuns(s, t)
  BY <1>1, <1>2, <1>3, <1>4 DEF State, SameRuns
<1>6. /\ Stored(t) = Stored(s) /\ (Whole(s) => Whole(t))
      /\ \A j : Seat(t, j) = Seat(s, j) /\ Cause(t, j) = Cause(s, j)
  BY <1>1, <1>5, SameRunsIs
<1>7. Linked(s) /\ Caused(s) /\ Unrepeated(s) /\ Bounded(s) /\ Sent(s) /\ Whole(s)
  BY DEF Good, Filed
<1>8. Linked(t)
  BY <1>1, <1>3, <1>6, <1>7 DEF Linked, Requests
<1>9. Caused(t)
  <2>1. DOMAIN s.disk.approval \subseteq DOMAIN a
    BY <1>1 DEF Requests
  <2> QED
    <3>1. \A k \in DOMAIN s.disk.approval : s.disk.approval[k].status # "pending"
                                             => a[k].status # "pending"
      BY <1>1 DEF Requests
    <3> QED
      BY <1>3, <1>6, <1>7, <2>1, <3>1 DEF Caused
<1>10. Unrepeated(t)
  BY <1>6, <1>7, StillUnrepeated
<1>11. Sent(t)
  BY <1>3, <1>7 DEF Sent, Unsent
<1>12. Bounded(t)
  BY <1>3, <1>7, <1>11 DEF Bounded, Sent
<1> QED
  BY <1>3, <1>5, <1>6, <1>7, <1>8, <1>9, <1>10, <1>11, <1>12 DEF Good, Filed, SameRuns

\* A request is decided; nothing was started on it before.
LEMMA DecidedIs ==
    ASSUME NEW s, Good(s), NEW k \in DOMAIN s.disk.approval,
           s.disk.approval[k].status = "pending", NEW d \in {"approved", "denied"},
           NEW t, t = Decided(s, k, d)
    PROVE  /\ Good(t) /\ Follows(s, t) /\ t.disk.said = s.disk.said
           /\ Len(t.disk.run) = Len(s.disk.run)
           /\ k \in DOMAIN t.disk.approval /\ t.disk.approval[k].status # "pending"
           /\ RunsFor(t, <<"approval", k>>) = {}
<1> DEFINE i == s.disk.approval[k].run
           x == [s.disk.approval[k] EXCEPT !.status = d]
           a == [s.disk.approval EXCEPT ![k] = x]
           u == [s EXCEPT !.disk.approval[k].status = d]
<1>1. /\ s \in State /\ s.disk.approval \in Seq(ApprovalRec) /\ k \in 1..Len(s.disk.approval)
      /\ s.disk.approval[k] \in ApprovalRec /\ Len(s.disk.approval) \in Nat
      /\ DOMAIN s.disk.approval = 1..Len(s.disk.approval)
  BY FieldsOf DEF Good
<1>2. x \in ApprovalRec /\ x.run = i /\ x.status = d
  BY <1>1 DEF ApprovalRec
<1>3. u = [s EXCEPT !.disk.approval = a]
  OBVIOUS
<1> HIDE DEF x
<1>4. /\ a \in Seq(ApprovalRec) /\ Len(a) = Len(s.disk.approval)
      /\ \A j \in 1..Len(s.disk.approval) : a[j] = IF j = k THEN x ELSE s.disk.approval[j]
  BY <1>1, <1>2, ExceptSeq
<1>5. DOMAIN a = DOMAIN s.disk.approval
  OBVIOUS
<1>6. t = IF Status(s, i) # "awaiting_user" THEN u
          ELSE SetStatus(u, i, IF d = "denied" THEN "failed" ELSE "done")
  BY DEF Decided
<1> HIDE DEF a
<1>7. \A j \in 1..Len(s.disk.approval) : s.disk.approval[j].run \in Stored(s)
  BY <1>1 DEF Good, Filed, Linked
<1>8. \A j \in 1..Len(a) : a[j].run \in Stored(s)
  BY <1>1, <1>2, <1>4, <1>7
<1>9. \A j \in 1..Len(s.disk.approval) :
          s.disk.approval[j].status # "pending" => a[j].status # "pending"
  BY <1>1, <1>2, <1>4
<1>10. Len(s.disk.approval) <= Len(a)
  BY <1>1, <1>4
<1> HIDE DEF u
<1>11. /\ Good(u) /\ SameRuns(s, u) /\ u.disk.approval = a /\ u.disk.said = s.disk.said
       /\ u.disk.mail = s.disk.mail
  <2>1. a \in Requests(s)
    BY <1>4, <1>8, <1>9, <1>10 DEF Requests
  <2>2. Good(s) /\ \A b \in Requests(s) : \A v : v = [s EXCEPT !.disk.approval = b] =>
            /\ Good(v) /\ SameRuns(s, v) /\ v.disk.approval = b /\ v.disk.said = s.disk.said
            /\ v.disk.mail = s.disk.mail
    BY RequestsGood
  <2> HIDE DEF i
  <2> QED
    BY <1>3, <2>1, <2>2
<1>12. /\ Stored(u) = Stored(s) /\ Follows(s, u)
       /\ \A j : Status(u, j) = Status(s, j) /\ Cause(u, j) = Cause(s, j)
  BY <1>1, <1>11, SameRunsIs
<1>13. k \in DOMAIN u.disk.approval /\ u.disk.approval[k].status # "pending"
  BY <1>1, <1>2, <1>4, <1>5, <1>11
<1>14. RunsFor(u, <<"approval", k>>) = {}
  <2>1. \A j \in Stored(s) : Cause(s, j) # <<"approval", k>>
    BY DEF Good, Filed, Caused
  <2> QED
    BY <1>12, <2>1 DEF RunsFor, Stored, Cause
<1>15. CASE Status(s, i) # "awaiting_user"
  BY <1>6, <1>11, <1>12, <1>13, <1>14, <1>15 DEF SameRuns
<1>16. CASE Status(s, i) = "awaiting_user"
  <2>1. PICK y \in {"done", "failed", "blocked"} : t = SetStatus(u, i, y)
    BY <1>6, <1>16
  <2>2. i \in Stored(u)
    BY <1>1, <1>7, <1>12
  <2> HIDE DEF i
  <2>3. t \in State /\ Kept(u, t) /\ Sound(t, Stored(u)) /\ NoIdle(t)
    BY <1>11, <1>12, <1>16, <2>1, <2>2, SettleSound DEF Good, Whole
  <2>4. Stored(t) = Stored(u)
    BY <1>11, <2>3, FieldsOf DEF Good, Kept
  <2>5. Filed(t) /\ Sent(t) /\ Follows(u, t)
    BY <1>11, <2>3, KeptFiled, FollowsIf DEF Good
  <2>6. Good(t)
    BY <2>3, <2>4, <2>5 DEF Good, Whole
  <2>7. Follows(s, t)
    BY <1>1, <1>11, <1>12, <2>3, <2>5, FollowsIf DEF Good
  <2>8. RunsFor(t, <<"approval", k>>) = {}
    BY <1>14, <2>3, <2>4 DEF RunsFor, Stored, Cause, Kept
  <2>9. /\ Len(t.disk.run) = Len(s.disk.run) /\ t.disk.said = s.disk.said
        /\ t.disk.approval = u.disk.approval
    BY <1>11, <2>3 DEF Kept, SameRuns
  <2> QED
    BY <1>13, <2>6, <2>7, <2>8, <2>9
<1> QED
  BY <1>15, <1>16

\* What a turn has said is added, of a run that is stored.
LEMMA SaidFiled ==
    ASSUME NEW s \in State, Filed(s), Sent(s), NEW i \in Stored(s),
           NEW t, t = [s EXCEPT !.disk.said = @ \cup {i}]
    PROVE  Filed(t) /\ Sent(t) /\ SameRuns(s, t) /\ t.disk.said = s.disk.said \cup {i}
<1>1. /\ s \in State /\ s.disk \in Disk /\ s.mem \in Memory /\ i \in Nat
  BY FieldsOf
<1> DEFINE a == s.disk.said \cup {i}
<1>2. t = [s EXCEPT !.disk = [s.disk EXCEPT !.said = a]]
  OBVIOUS
<1>3. a \in SUBSET Nat
  BY <1>1 DEF Disk
<1>4. /\ t.disk.approval = s.disk.approval /\ t.mem = s.mem /\ t.disk.run = s.disk.run
      /\ t.disk.room = s.disk.room /\ t.disk.mail = s.disk.mail
      /\ t.disk.said = a
  <2>1. s.disk \in Disk /\ s \in State
    BY <1>1
  <2> HIDE DEF a
  <2> QED
    BY <1>2, <2>1 DEF State, Disk
<1>5. [s.disk EXCEPT !.said = a] \in Disk
  BY <1>1, <1>3 DEF Disk
<1>6. SameRuns(s, t)
  BY <1>1, <1>2, <1>4, <1>5 DEF State, SameRuns
<1>7. /\ Stored(t) = Stored(s)
      /\ \A j : Seat(t, j) = Seat(s, j) /\ Cause(t, j) = Cause(s, j)
  BY <1>1, <1>6, SameRunsIs
<1>8. Linked(s) /\ Caused(s) /\ Unrepeated(s) /\ Bounded(s)
  BY DEF Filed
<1>9. Linked(t)
  BY <1>4, <1>7, <1>8 DEF Linked
<1>10. Caused(t)
  BY <1>4, <1>7, <1>8 DEF Caused
<1>11. Unrepeated(t)
  BY <1>7, <1>8, StillUnrepeated
<1>12. Sent(t)
  BY <1>4 DEF Sent, Unsent
<1>13. Bounded(t)
  BY <1>4, <1>8, <1>12 DEF Bounded, Sent
<1> QED
  BY <1>4, <1>6, <1>9, <1>10, <1>11, <1>12, <1>13 DEF Filed

\* In w the run i of s is settled, if it was still running.
SettledRun(s, w, i) ==
    \E x : /\ Restated(s, w, i, x)
           /\ IF Status(s, i) = "running" THEN x \in {"failed", "cancelled", "done"}
                                          ELSE x = Status(s, i)

\* The turn of i is over.
Over(w, i) ==
    [w EXCEPT !.mem.turns = @ \ {i}, !.mem.aborted = @ \ {i}, !.mem.inflight = @ \ {i}]

\* A turn ends: w is s after its run was settled.
LEMMA TurnEnds ==
    ASSUME NEW s, Good(s), NEW i \in s.mem.turns,
           NEW w \in State, Filed(w), Sent(w), w.mem = s.mem, w.disk.room = s.disk.room,
           SettledRun(s, w, i), NEW t, t = Over(w, i)
    PROVE  /\ Good(Release(t, i)) /\ Follows(s, Release(t, i))
           /\ Release(t, i).disk.said = w.disk.said
           /\ Seat(t, i) = Seat(s, i)
<1> DEFINE mem1 == [s.mem EXCEPT !.turns = @ \ {i}, !.aborted = @ \ {i},
                                 !.inflight = @ \ {i}, !.slots = @ \ {i}]
           v == [w EXCEPT !.mem = mem1]
           r == Release(t, i)
<1> PICK x : /\ Restated(s, w, i, x)
             /\ IF Status(s, i) = "running" THEN x \in {"failed", "cancelled", "done"}
                                            ELSE x = Status(s, i)
  BY DEF SettledRun
<1>1. s \in State /\ s.mem \in Memory /\ Whole(s) /\ Sound(s, Stored(s))
  BY FieldsOf DEF Good, Whole
<1>2. /\ s.mem.turns \subseteq Stored(s) /\ s.mem.slots \subseteq s.mem.turns
      /\ i \in Stored(s) /\ Status(s, i) # "queued"
      /\ i \in s.mem.slots <=> Status(s, i) \in {"running", "cancelled"}
  BY <1>1 DEF Sound, Slotted, Turning
<1>3. Stored(w) = Stored(s)
  BY <1>1, FieldsOf DEF Restated
<1>4. r = Drain(v)
  <2>1. r = Drain([t EXCEPT !.mem.slots = @ \ {i}])
    BY DEF Release
  <2>2. [t EXCEPT !.mem.slots = @ \ {i}] = v
    BY <1>1 DEF Over, State, Memory
  <2> QED
    BY <2>1, <2>2
<1>5. /\ v \in State /\ v.disk = w.disk /\ v.mem.queue = s.mem.queue
      /\ v.mem.slots = s.mem.slots \ {i} /\ v.mem.turns = s.mem.turns \ {i}
      /\ v.mem.aborted = s.mem.aborted \ {i}
  BY <1>1 DEF State, Memory
<1>6. t.disk = w.disk
  BY DEF Over, State
<1> HIDE DEF v, r
<1>7. /\ Stored(v) = Stored(s)
      /\ \A j : Status(v, j) = Status(w, j) /\ Seat(v, j) = Seat(w, j) /\ Cause(v, j) = Cause(w, j)
  BY <1>3, <1>5 DEF Stored, Status, Seat, Cause
<1>8. \A j \in Stored(s) : /\ Seat(v, j) = Seat(s, j)
                           /\ Status(v, j) = IF j = i THEN x ELSE Status(s, j)
  BY <1>7 DEF Restated
<1>9. x # "queued" /\ x # "running"
  BY <1>2
<1>10. Queued(v, Stored(s))
  BY <1>1, <1>2, <1>5, <1>8, <1>9 DEF Sound, Queued
<1>11. Slotted(v, Stored(s))
  <2>1. v.mem.slots = {j \in Stored(s) : Status(v, j) = "running"}
                      \cup {j \in v.mem.turns : Status(v, j) = "cancelled"}
    BY <1>1, <1>2, <1>5, <1>8, <1>9 DEF Sound, Slotted
  <2>2. \A j, k \in v.mem.slots : j # k => Seat(v, j) # Seat(v, k)
    BY <1>1, <1>2, <1>5, <1>8 DEF Sound, Slotted
  <2> QED
    BY <2>1, <2>2 DEF Slotted
<1>12. Turning(v, Stored(s))
  BY <1>1, <1>2, <1>5, <1>8 DEF Sound, Turning
<1>13. r \in State /\ Kept(v, r) /\ Sound(r, Stored(s)) /\ NoIdle(r)
  BY <1>4, <1>5, <1>7, <1>10, <1>11, <1>12, DrainSound DEF Sound
<1>14. Stored(r) = Stored(s)
  BY <1>5, <1>7, <1>13, FieldsOf DEF Kept
<1>15. Filed(v) /\ Sent(v)
  <2>1. Linked(v) /\ Sent(v)
    BY <1>5, <1>7, <1>3 DEF Filed, Linked, Sent, Unsent
  <2>2. Caused(v)
    BY <1>3, <1>5, <1>7 DEF Filed, Caused
  <2>3. Unrepeated(v)
    BY <1>3, <1>7, StillUnrepeated DEF Filed
  <2>4. Bounded(v)
    <3>1. Len(v.disk.run) <= MaxRuns
      BY <1>5 DEF Filed, Bounded
    <3> QED
      BY <2>1, <3>1 DEF Bounded, Sent
  <2> QED
    BY <2>1, <2>2, <2>3, <2>4 DEF Filed
<1>16. Filed(r) /\ Sent(r)
  BY <1>5, <1>13, <1>15, KeptFiled
<1>17. Good(r)
  BY <1>13, <1>14, <1>16 DEF Good, Whole
<1>18. Follows(s, r)
  <2>1. Follows(s, v)
    <3>1. Len(v.disk.run) = Len(s.disk.run) /\ Len(s.disk.run) \in Nat
      BY <1>1, <1>5, FieldsOf DEF Restated
    <3> QED
      BY <1>2, <1>8, <1>9, <3>1 DEF Follows, StatusStep
  <2> QED
    BY <1>1, <1>5, <1>13, <2>1, FollowsIf
<1>19. r.disk.said = w.disk.said
  BY <1>5, <1>13 DEF Kept
<1>20. Seat(t, i) = Seat(s, i)
  BY <1>2, <1>6 DEF Restated, Seat
<1> QED
  BY <1>17, <1>18, <1>19, <1>20 DEF r

\* The run of a turn that ends is settled: something is said only by one that
\* was running.
LEMMA SettledIs ==
    ASSUME NEW s, Good(s), NEW i \in s.mem.turns, NEW outcome \in {"text", "error"},
           NEW w, w = Settled(s, i, outcome)
    PROVE  /\ w \in State /\ Filed(w) /\ Sent(w) /\ w.mem = s.mem /\ w.disk.room = s.disk.room
           /\ SettledRun(s, w, i)
           /\ \A j \in w.disk.said \ s.disk.said : j = i /\ Status(s, i) = "running"
<1>1. s \in State /\ i \in Stored(s) /\ Filed(s) /\ Sent(s)
  BY DEF Good, Whole, Sound, Turning
<1>2. CASE Status(s, i) # "running"
  BY <1>1, <1>2 DEF Settled, Restated, SettledRun
<1>3. ASSUME Status(s, i) = "running", NEW x \in {"failed", "cancelled", "done"},
             NEW u, u = SetStatus(s, i, x)
      PROVE  /\ u \in State /\ u.mem = s.mem /\ Restated(s, u, i, x) /\ Elsewhere(s, u)
             /\ Filed(u) /\ Sent(u) /\ Stored(u) = Stored(s)
  <2>1. u \in State /\ u.mem = s.mem /\ Restated(s, u, i, x) /\ Elsewhere(s, u)
    BY <1>1, <1>3, SetStatusIs DEF RunStatus
  <2>2. Kept(s, u) /\ Stored(u) = Stored(s)
    BY <1>1, <1>3, <2>1, RestatedKept DEF StatusStep
  <2> QED
    BY <1>1, <2>1, <2>2, KeptFiled
<1>4. CASE Status(s, i) = "running" /\ outcome = "error"
  <2>1. w = SetStatus(s, i, "failed")
    BY <1>4 DEF Settled
  <2> QED
    BY <1>3, <1>4, <2>1 DEF Elsewhere, SettledRun
<1>5. CASE Status(s, i) = "running" /\ outcome # "error" /\ ~Present(s, Seat(s, i))
  <2>1. w = SetStatus(s, i, "cancelled")
    BY <1>5 DEF Settled
  <2> QED
    BY <1>3, <1>5, <2>1 DEF Elsewhere, SettledRun
<1>6. CASE Status(s, i) = "running" /\ outcome # "error" /\ Present(s, Seat(s, i))
  <2> DEFINE u == SetStatus(s, i, "done")
  <2>1. w = [u EXCEPT !.disk.said = @ \cup {i}]
    BY <1>6 DEF Settled
  <2>2. /\ u \in State /\ u.mem = s.mem /\ Restated(s, u, i, "done") /\ Elsewhere(s, u)
        /\ Filed(u) /\ Sent(u) /\ Stored(u) = Stored(s)
    BY <1>3, <1>6
  <2> HIDE DEF u
  <2>3. Filed(w) /\ Sent(w) /\ SameRuns(u, w) /\ w.disk.said = u.disk.said \cup {i}
    BY <1>1, <2>1, <2>2, SaidFiled
  <2>4. Restated(s, w, i, "done")
    BY <2>2, <2>3 DEF Restated, SameRuns, Seat, Cause, Status
  <2> QED
    BY <1>6, <2>2, <2>3, <2>4 DEF SameRuns, Elsewhere, SettledRun
<1> QED
  BY <1>2, <1>4, <1>5, <1>6

-----------------------------------------------------------------------------
(* A message to several members. *)

Reached(s, targets, c) ==
    FoldLeft(LAMBDA t, m : IF Authorized(s, m) THEN Add(t, m, c) ELSE t, s, targets)

\* Each of them gets one run, and there is room for all.
LEMMA ReachedGood ==
    ASSUME NEW s, Good(s), NEW targets \in Addressed,
           Len(s.disk.run) + Len(targets) <= MaxRuns,
           NEW r, r = Reached(s, targets, <<"user", Len(s.disk.run)>>)
    PROVE  Good(r) /\ Follows(s, r) /\ r.disk.said = s.disk.said
<1> DEFINE q == targets
           n == Len(q)
           first == Len(s.disk.run)
           c == <<"user", first>>
           Step(t, m) == IF Authorized(s, m) THEN Add(t, m, c) ELSE t
           P(t, S) == /\ Good(t) /\ Follows(s, t) /\ t.disk.said = s.disk.said
                      /\ \A k \in Nat : S \subseteq 1..k => Len(t.disk.run) <= first + k
                      /\ \A i \in RunsFor(t, c) : \E j \in S : Seat(t, i) = q[j]
           F == [S \in SUBSET (1..n) |-> {t \in State : P(t, S)}]
           g == [p \in State \X (1..n) |-> Step(p[1], q[p[2]])]
           Rec(h) == h = [S \in SUBSET DOMAIN q |->
                            IF S = {} THEN s ELSE Step(h[S \ {Max(S)}], q[Max(S)])]
           it == CHOOSE h : Rec(h)
<1>1. /\ q \in Seq(Member) /\ n \in Nat /\ DOMAIN q = 1..n /\ \A k \in 1..n : q[k] \in Member
      /\ IsInjective(q) /\ MaxRuns \in Nat /\ s \in State /\ first \in Nat
  <2>1. q \in Seq(Member) /\ IsInjective(q) /\ MaxRuns \in Nat
    BY AddressAssumption, BoundAssumption DEF AddressAssumption, BoundAssumption
  <2> QED
    BY <2>1, LenProperties, ElementOfSeq, FieldsOf DEF Good
<1>2. P(s, {})
  <2>1. Follows(s, s)
    BY <1>1 DEF Follows, StatusStep
  <2>2. \A i \in Stored(s) : Cause(s, i) # c
    <3>1. SUFFICES ASSUME NEW i \in Stored(s), Cause(s, i) = c PROVE FALSE
      OBVIOUS
    <3>2. first < i /\ i \in 1..first
      <4>1. Caused(s) /\ Stored(s) = 1..first
        BY <1>1, FieldsOf DEF Good, Filed
      <4>2. c[1] = "user" /\ c[2] = first
        OBVIOUS
      <4> HIDE DEF c
      <4> QED
        BY <3>1, <4>1, <4>2 DEF Caused
    <3> QED
      BY <1>1, <3>2
  <2>3. RunsFor(s, c) = {}
    BY <2>2 DEF RunsFor, Stored, Cause
  <2> QED
    <3>1. \A k \in Nat : Len(s.disk.run) <= first + k
      BY <1>1
    <3> QED
      BY <1>1, <2>1, <2>3, <3>1
<1>3. ASSUME NEW t \in State, NEW S \in SUBSET (1..n), NEW k \in 1..n,
             \A j \in S : j < k, P(t, S)
      PROVE  Step(t, q[k]) \in State /\ P(Step(t, q[k]), S \cup {k})
  <2> DEFINE m == q[k]
             u == Step(t, m)
  <2>1. Len(t.disk.run) \in Nat /\ first <= Len(t.disk.run) /\ m \in Member
    BY <1>1, <1>3, FieldsOf DEF Follows
  <2>2. Len(t.disk.run) <= first + (k - 1)
    <3>1. k - 1 \in Nat /\ S \subseteq 1..(k - 1)
      BY <1>1, <1>3
    <3> QED
      BY <1>3, <3>1
  <2>3. ASSUME NEW j \in Nat, S \cup {k} \subseteq 1..j PROVE k <= j
    BY <2>3
  <2>4. CASE ~Authorized(s, m)
    <3>1. u = t
      BY <2>4
    <3>2. \A j \in Nat : S \cup {k} \subseteq 1..j => Len(t.disk.run) <= first + j
      BY <1>3
    <3>3. \A i \in RunsFor(t, c) : \E j \in S \cup {k} : Seat(t, i) = q[j]
      BY <1>3
    <3> QED
      BY <1>3, <3>1, <3>2, <3>3
  <2>5. CASE Authorized(s, m)
    <3>1. u = Add(t, m, c)
      BY <2>5
    <3> HIDE DEF u
    <3>2. c \in Kind \X Nat
      BY <1>1 DEF Kind
    <3>3. Fit(t, m, c)
      <4>1. Len(t.disk.run) < MaxRuns
        <5>1. first + n <= MaxRuns /\ k <= n /\ first \in Nat /\ k \in Nat /\ n \in Nat
          BY <1>1
        <5>2. Len(t.disk.run) \in Nat /\ Len(t.disk.run) <= first + (k - 1) /\ MaxRuns \in Nat
          BY <1>1, <2>1, <2>2
        <5> HIDE DEF first, n
        <5> QED
          BY <5>1, <5>2
      <4>2. ASSUME NEW i \in RunsFor(t, c) PROVE Seat(t, i) # m
        <5>1. PICK j \in S : Seat(t, i) = q[j]
          BY <1>3
        <5>2. j \in 1..n /\ j # k
          BY <1>1, <1>3
        <5> QED
          BY <1>1, <5>1, <5>2 DEF IsInjective
      <4>3. \A e \in DOMAIN t.disk.mail : ~Unsent(t, e)
        BY <1>3 DEF Good, Sent
      <4> QED
        BY <2>1, <4>1, <4>2, <4>3 DEF Fit
    <3> HIDE DEF c, m
    <3>4. /\ u \in State /\ Grown(t, u, m, c) /\ Follows(t, u) /\ Good(u)
      BY <1>3, <2>1, <3>1, <3>2, <3>3, AddGood DEF Good, Whole
    <3>5. Follows(s, u) /\ u.disk.said = s.disk.said
      BY <1>1, <1>3, <3>4, FollowsIf DEF Grown
    <3>6. ASSUME NEW j \in Nat, S \cup {k} \subseteq 1..j PROVE Len(u.disk.run) <= first + j
      <4>1. Len(u.disk.run) = Len(t.disk.run) + 1
        BY <3>4 DEF Grown
      <4>2. k <= j
        BY <2>3, <3>6
      <4>3. k \in Nat /\ first \in Nat /\ Len(t.disk.run) \in Nat
        BY <1>1, <2>1
      <4> HIDE DEF first
      <4> QED
        BY <2>2, <4>1, <4>2, <4>3
    <3>7. ASSUME NEW i \in RunsFor(u, c) PROVE \E j \in S \cup {k} : Seat(u, i) = q[j]
      <4>1. i \in Stored(u) /\ Cause(u, i) = c
        BY DEF RunsFor, Stored, Cause
      <4>2. i \in Stored(t) \/ i = Len(t.disk.run) + 1
        <5>1. Stored(u) = 1..(Len(t.disk.run) + 1) /\ Stored(t) = 1..Len(t.disk.run)
          BY <1>3, <3>4, FieldsOf DEF Grown
        <5> QED
          BY <2>1, <4>1, <5>1
      <4>3. CASE i \in Stored(t)
        <5>1. i \in RunsFor(t, c) /\ Seat(u, i) = Seat(t, i)
          BY <3>4, <4>1, <4>3 DEF Grown, RunsFor, Stored, Cause
        <5> QED
          BY <1>3, <5>1
      <4>4. CASE i = Len(t.disk.run) + 1
        BY <3>4, <4>4 DEF Grown, m
      <4> QED
        BY <4>2, <4>3, <4>4
    <3>8. P(u, S \cup {k})
      BY <3>4, <3>5, <3>6, <3>7
    <3> QED
      BY <3>4, <3>8 DEF u, m
  <2> QED
    BY <2>4, <2>5
<1> HIDE DEF P, Step
<1>4. \A S \in SUBSET (1..n), k \in 1..n :
          (\A j \in S : j < k) => \A p \in F[S] : g[<<p, k>>] \in F[S \cup {k}]
  <2>1. SUFFICES ASSUME NEW S \in SUBSET (1..n), NEW k \in 1..n, \A j \in S : j < k,
                        NEW p \in F[S]
                 PROVE  g[<<p, k>>] \in F[S \cup {k}]
    OBVIOUS
  <2>2. p \in State /\ P(p, S) /\ S \cup {k} \in SUBSET (1..n)
    BY <1>1, <2>1
  <2>3. g[<<p, k>>] = Step(p, q[k])
    BY <2>2
  <2> HIDE DEF g, q
  <2> QED
    BY <1>3, <2>1, <2>2, <2>3
<1>5. PICK h : Folding(h, n, s, g) /\ \A S \in SUBSET (1..n) : h[S] \in F[S]
  <2>1. s \in F[{}]
    BY <1>1, <1>2
  <2> HIDE DEF F, g, n
  <2> QED
    BY <1>1, <1>4, <2>1, FoldValues
<1>6. Rec(it)
  <2>1. ASSUME NEW S \in SUBSET (1..n), S # {}
        PROVE  g[<<h[S \ {Max(S)}], Max(S)>>] = Step(h[S \ {Max(S)}], q[Max(S)])
    <3>1. Max(S) \in 1..n
      BY <1>1, <2>1, MaxIs
    <3>2. h[S \ {Max(S)}] \in State
      BY <1>5
    <3> HIDE DEF q, n
    <3> QED
      BY <3>1, <3>2
  <2> HIDE DEF g, F
  <2>2. Rec(h)
    BY <1>1, <1>5, <2>1 DEF Folding
  <2> QED
    BY <2>2
<1>7. it[1..n] \in F[1..n]
  <2> HIDE DEF it
  <2>1. it[{}] \in F[{}]
    <3>1. it[{}] = s
      BY <1>6
    <3> QED
      BY <1>1, <1>2, <3>1
  <2>2. ASSUME NEW S \in SUBSET (1..n), S # {}, it[S \ {Max(S)}] \in F[S \ {Max(S)}]
        PROVE  it[S] \in F[S]
    <3>1. Max(S) \in 1..n /\ Max(S) \in S /\ \A j \in S \ {Max(S)} : j < Max(S)
      <4>1. PICK x \in 1..n : x = Max(S) /\ x \in S /\ \A j \in S : j <= x
        BY <1>1, <2>2, MaxIs
      <4>2. ASSUME NEW j \in S \ {x} PROVE j < x
        <5>1. j \in 1..n /\ j <= x /\ j # x
          BY <4>1
        <5> QED
          BY <4>1, <5>1
      <4> QED
        BY <4>1, <4>2
    <3>2. it[S \ {Max(S)}] \in State /\ P(it[S \ {Max(S)}], S \ {Max(S)})
      <4>1. S \ {Max(S)} \in SUBSET (1..n)
        OBVIOUS
      <4> HIDE DEF q, n
      <4> QED
        BY <2>2, <4>1
    <3> HIDE DEF q, n
    <3>3. it[S] = Step(it[S \ {Max(S)}], q[Max(S)])
      BY <1>1, <1>6, <2>2
    <3>4. it[S] \in State /\ P(it[S], (S \ {Max(S)}) \cup {Max(S)})
      BY <1>3, <3>1, <3>2, <3>3
    <3>5. (S \ {Max(S)}) \cup {Max(S)} = S
      BY <3>1
    <3> QED
      BY <2>2, <3>4, <3>5
  <2>3. \A S \in SUBSET (1..n) : it[S] \in F[S]
    <3> HIDE DEF F, n
    <3> QED
      BY <1>1, <2>1, <2>2, FoldIn
  <2> HIDE DEF F
  <2> QED
    BY <1>1, <2>3
<1>8. r = it[1..n]
  BY <1>1 DEF Reached, FoldLeft, MapThenFoldSet, Step
<1> HIDE DEF it
<1>9. P(r, 1..n)
  BY <1>1, <1>7, <1>8
<1> QED
  BY <1>9 DEF P

-----------------------------------------------------------------------------
(* Recovery. *)

\* A run that was found is taken over or settled.
LEMMA RecoverSound ==
    ASSUME NEW s \in State, NEW D \in SUBSET Stored(s), Sound(s, D), NoIdle(s),
           NEW i \in Stored(s) \ D, NEW t, t = RecoverRun(s, i)
    PROVE  t \in State /\ Kept(s, t) /\ Sound(t, D \cup {i}) /\ NoIdle(t)
<1> DEFINE m == Seat(s, i)
<1>1. m \in Member /\ s.mem.turns \subseteq D /\ s.mem.slots \subseteq D
  BY FieldsOf DEF Sound, Turning
<1>2. ASSUME Status(s, i) = "queued", t = Sync(Admit(s, i), m)
      PROVE  t \in State /\ Kept(s, t) /\ Sound(t, D \cup {i}) /\ NoIdle(t)
  <2> DEFINE u == Admit(s, i)
  <2>1. u \in State /\ Kept(s, u) /\ Sound(u, D \cup {i}) /\ NoIdle(u)
    BY <1>2, AdmitSound
  <2> HIDE DEF u, m
  <2>2. Alike(u, t)
    BY <1>1, <1>2, <2>1, SyncIs DEF u
  <2> QED
    BY <2>1, <2>2, AlikeIs, KeptThen
<1>3. ASSUME NEW x \in {"failed", "blocked"}, Status(s, i) \in {"queued", "running"},
             t = Sync(SetStatus(s, i, x), m)
      PROVE  t \in State /\ Kept(s, t) /\ Sound(t, D \cup {i}) /\ NoIdle(t)
  <2> DEFINE u == SetStatus(s, i, x)
  <2>1. u \in State /\ u.mem = s.mem /\ Restated(s, u, i, x) /\ Elsewhere(s, u)
    BY SetStatusIs DEF RunStatus
  <2>2. t = Sync(u, m)
    BY <1>3
  <2> HIDE DEF u
  <2>3. Kept(s, u) /\ Stored(u) = Stored(s)
    BY <1>3, <2>1, RestatedKept DEF StatusStep
  <2>4. \A j \in Stored(s) : /\ Seat(u, j) = Seat(s, j)
                             /\ Status(u, j) = IF j = i THEN x ELSE Status(s, j)
    BY <2>1 DEF Restated
  <2>5. Queued(u, D \cup {i})
    BY <2>1, <2>4 DEF Sound, Queued
  <2>6. Slotted(u, D \cup {i})
    BY <1>1, <2>1, <2>4 DEF Sound, Slotted
  <2>7. Turning(u, D \cup {i})
    BY <1>1, <2>1, <2>4 DEF Sound, Turning
  <2>8. ASSUME NEW j \in ToSet(u.mem.queue) PROVE ~CanStart(u, j)
    <3>1. j \in Stored(s) /\ ~CanStart(s, j) /\ u.mem.slots \subseteq Stored(s)
      BY <1>1, <2>1, <2>8 DEF NoIdle, Sound, Queued
    <3> QED
      BY <2>1, <2>3, <3>1, CanStartLess
  <2>9. Sound(u, D \cup {i}) /\ NoIdle(u)
    BY <2>5, <2>6, <2>7, <2>8 DEF Sound, NoIdle
  <2>10. Alike(u, t)
    BY <1>1, <2>1, <2>2, SyncIs
  <2> QED
    BY <2>1, <2>3, <2>9, <2>10, AlikeIs, KeptThen
<1>4. ASSUME Status(s, i) \notin {"queued", "running"}, t = s
      PROVE  t \in State /\ Kept(s, t) /\ Sound(t, D \cup {i}) /\ NoIdle(t)
  <2>1. Kept(s, s)
    BY DEF Kept, StatusStep
  <2>2. Sound(s, D \cup {i})
    BY <1>4 DEF Sound, Queued, Slotted, Turning
  <2> QED
    BY <1>4, <2>1, <2>2
<1> QED
  BY <1>2, <1>3, <1>4 DEF RecoverRun

LEMMA RecoveredWhole ==
    ASSUME NEW s \in State, s.mem = NoMemory, NEW r, r = FoldLeftDomain(RecoverRun, s, s.disk.run)
    PROVE  r \in State /\ Kept(s, r) /\ Whole(r)
<1> DEFINE n == Len(s.disk.run)
           q == [i \in DOMAIN s.disk.run |-> i]
           P(t, S) == Kept(s, t) /\ Sound(t, S) /\ NoIdle(t)
           F == [S \in SUBSET (1..n) |-> {t \in State : P(t, S)}]
           g == [p \in State \X (1..n) |-> RecoverRun(p[1], p[2])]
           Rec(h) == h = [S \in SUBSET DOMAIN q |->
                            IF S = {} THEN s ELSE RecoverRun(h[S \ {Max(S)}], q[Max(S)])]
           it == CHOOSE h : Rec(h)
<1>1. /\ n \in Nat /\ DOMAIN s.disk.run = 1..n /\ DOMAIN q = 1..n /\ \A i \in 1..n : q[i] = i
      /\ Stored(s) = 1..n
  BY FieldsOf DEF Stored
<1>2. P(s, {})
  <2>1. Kept(s, s)
    BY DEF Kept, StatusStep
  <2>2. ToSet(<< >>) = {} /\ IsInjective(<< >>)
    BY DEF ToSet, IsInjective
  <2>3. Sound(s, {}) /\ NoIdle(s)
    BY <2>2 DEF NoMemory, Sound, Queued, Slotted, Turning, NoIdle
  <2> QED
    BY <2>1, <2>3
<1>3. ASSUME NEW t \in State, NEW S \in SUBSET (1..n), NEW k \in 1..n, k \notin S, P(t, S)
      PROVE  RecoverRun(t, k) \in State /\ P(RecoverRun(t, k), S \cup {k})
  <2>1. Stored(t) = 1..n
    BY <1>1, <1>3, FieldsOf DEF Kept
  <2>2. /\ RecoverRun(t, k) \in State /\ Kept(t, RecoverRun(t, k))
        /\ Sound(RecoverRun(t, k), S \cup {k}) /\ NoIdle(RecoverRun(t, k))
    BY <1>3, <2>1, RecoverSound
  <2> QED
    BY <1>3, <2>2, KeptThen
<1> HIDE DEF P
<1>4. \A S \in SUBSET (1..n), k \in 1..n :
          (\A j \in S : j < k) => \A p \in F[S] : g[<<p, k>>] \in F[S \cup {k}]
  <2>1. SUFFICES ASSUME NEW S \in SUBSET (1..n), NEW k \in 1..n, \A j \in S : j < k,
                        NEW p \in F[S]
                 PROVE  g[<<p, k>>] \in F[S \cup {k}]
    OBVIOUS
  <2>2. p \in State /\ P(p, S) /\ k \notin S /\ S \cup {k} \in SUBSET (1..n)
    <3>1. p \in {u \in State : P(u, S)}
      BY <2>1
    <3>2. ~(k < k)
      BY <1>1
    <3>3. k \notin S
      BY <2>1, <3>2
    <3> QED
      BY <3>1, <3>3
  <2>3. g[<<p, k>>] = RecoverRun(p, k)
    BY <2>2
  <2> HIDE DEF g
  <2> QED
    BY <1>3, <2>2, <2>3
<1>5. PICK h : Folding(h, n, s, g) /\ \A S \in SUBSET (1..n) : h[S] \in F[S]
  <2>1. s \in F[{}]
    BY <1>2
  <2> HIDE DEF F, g, n
  <2> QED
    BY <1>1, <1>4, <2>1, FoldValues
<1>6. Rec(it)
  <2>1. ASSUME NEW S \in SUBSET (1..n), S # {}
        PROVE  g[<<h[S \ {Max(S)}], Max(S)>>] = RecoverRun(h[S \ {Max(S)}], q[Max(S)])
    <3>1. Max(S) \in 1..n
      BY <1>1, <2>1, MaxIs
    <3>2. h[S \ {Max(S)}] \in State /\ q[Max(S)] = Max(S)
      BY <1>1, <1>5, <3>1
    <3> HIDE DEF q, n
    <3> QED
      BY <3>1, <3>2
  <2> HIDE DEF g, F
  <2>2. Rec(h)
    BY <1>1, <1>5, <2>1 DEF Folding
  <2> QED
    BY <2>2
<1>7. it[1..n] \in F[1..n]
  <2> HIDE DEF it
  <2>1. it[{}] \in F[{}]
    <3>1. it[{}] = s
      BY <1>6
    <3> QED
      BY <1>1, <1>2, <3>1
  <2>2. ASSUME NEW S \in SUBSET (1..n), S # {}, it[S \ {Max(S)}] \in F[S \ {Max(S)}]
        PROVE  it[S] \in F[S]
    <3>1. Max(S) \in 1..n /\ Max(S) \in S
      BY <1>1, <2>2, MaxIs
    <3>2. it[S \ {Max(S)}] \in State /\ P(it[S \ {Max(S)}], S \ {Max(S)})
      <4>1. S \ {Max(S)} \in SUBSET (1..n)
        OBVIOUS
      <4> HIDE DEF q, n
      <4> QED
        BY <2>2, <4>1
    <3>3. q[Max(S)] = Max(S)
      BY <1>1, <3>1
    <3> HIDE DEF q, n
    <3>4. it[S] = RecoverRun(it[S \ {Max(S)}], Max(S))
      BY <1>1, <1>6, <2>2, <3>3
    <3>5. it[S] \in State /\ P(it[S], (S \ {Max(S)}) \cup {Max(S)})
      BY <1>3, <3>1, <3>2, <3>4
    <3>6. (S \ {Max(S)}) \cup {Max(S)} = S
      BY <3>1
    <3> QED
      BY <2>2, <3>5, <3>6
  <2>3. \A S \in SUBSET (1..n) : it[S] \in F[S]
    <3> HIDE DEF F, n
    <3> QED
      BY <1>1, <2>1, <2>2, FoldIn
  <2> HIDE DEF F
  <2> QED
    BY <1>1, <2>3
<1>8. r = it[1..n]
  BY <1>1 DEF FoldLeftDomain, FoldLeft, MapThenFoldSet
<1> HIDE DEF it
<1>9. r \in State /\ P(r, 1..n)
  BY <1>1, <1>7, <1>8
<1>10. Stored(r) = 1..n
  BY <1>1, <1>9, FieldsOf DEF P, Kept
<1> QED
  BY <1>9, <1>10 DEF P, Whole

\* The runs that waited for an answer are blocked, one after the other.
LEMMA BlockedWhole ==
    ASSUME NEW s \in State, Whole(s), NEW runs \in Seq(RunRec), Len(runs) = Len(s.disk.run),
           NEW r, r = FoldLeftDomain(BlockAwaiting, s, runs)
    PROVE  r \in State /\ Kept(s, r) /\ Whole(r)
<1> DEFINE n == Len(runs)
           q == [i \in DOMAIN runs |-> i]
           B == {t \in State : Kept(s, t) /\ Whole(t)}
           F == [S \in SUBSET (1..n) |-> B]
           g == [p \in B \X (1..n) |-> BlockAwaiting(p[1], p[2])]
           Rec(h) == h = [S \in SUBSET DOMAIN q |->
                            IF S = {} THEN s ELSE BlockAwaiting(h[S \ {Max(S)}], q[Max(S)])]
           it == CHOOSE h : Rec(h)
<1>1. /\ n \in Nat /\ DOMAIN runs = 1..n /\ DOMAIN q = 1..n /\ \A i \in 1..n : q[i] = i
      /\ Stored(s) = 1..n
  BY FieldsOf, LenProperties
<1>2. s \in B
  BY DEF Kept, StatusStep
<1>3. ASSUME NEW t \in B, NEW i \in 1..n PROVE BlockAwaiting(t, i) \in B
  <2> DEFINE u == SetStatus(t, i, "blocked")
  <2>1. i \in Stored(t) /\ Seat(t, i) \in Member
    BY <1>1, <1>3, FieldsOf DEF Kept
  <2>2. CASE Status(t, i) = "awaiting_peer"
    <3>1. u \in State /\ Kept(t, u) /\ Sound(u, Stored(t)) /\ NoIdle(u)
      BY <2>1, <2>2, SettleSound DEF Whole
    <3>2. BlockAwaiting(t, i) = Sync(u, Seat(t, i))
      BY <2>2 DEF BlockAwaiting
    <3> HIDE DEF u
    <3>3. Alike(u, BlockAwaiting(t, i))
      BY <2>1, <3>1, <3>2, SyncIs
    <3>4. Stored(u) = Stored(t)
      BY <3>1, FieldsOf DEF Kept
    <3>5. /\ BlockAwaiting(t, i) \in State /\ Kept(u, BlockAwaiting(t, i))
          /\ Whole(BlockAwaiting(t, i))
      BY <3>1, <3>3, <3>4, AlikeIs DEF Whole
    <3>6. Kept(s, BlockAwaiting(t, i))
      <4>1. Kept(s, u)
        BY <3>1, KeptThen
      <4> QED
        BY <3>1, <3>5, <4>1, KeptThen
    <3> QED
      BY <3>5, <3>6
  <2>3. CASE Status(t, i) # "awaiting_peer"
    BY <2>3 DEF BlockAwaiting
  <2> QED
    BY <2>2, <2>3
<1> HIDE DEF B
<1>4. \A S \in SUBSET (1..n), k \in 1..n :
          (\A j \in S : j < k) => \A p \in F[S] : g[<<p, k>>] \in F[S \cup {k}]
  BY <1>3
<1>5. s \in F[{}]
  BY <1>2
<1> HIDE DEF F
<1>6. PICK h : Folding(h, n, s, g) /\ \A S \in SUBSET (1..n) : h[S] \in F[S]
  <2> HIDE DEF g
  <2> QED
    BY <1>1, <1>4, <1>5, FoldValues
<1>7. ASSUME NEW S \in SUBSET (1..n), S # {}
      PROVE  g[<<h[S \ {Max(S)}], Max(S)>>] = BlockAwaiting(h[S \ {Max(S)}], q[Max(S)])
  <2>1. Max(S) \in 1..n /\ h[S \ {Max(S)}] \in B
    BY <1>1, <1>6, <1>7, MaxIs DEF F
  <2> QED
    BY <1>1, <2>1
<1> HIDE DEF g
<1>8. Rec(it)
  <2>1. Rec(h)
    BY <1>1, <1>6, <1>7 DEF Folding
  <2> QED
    BY <2>1
<1>9. it[1..n] \in B
  <2> HIDE DEF it
  <2>1. it[{}] \in F[{}]
    BY <1>5, <1>8
  <2>2. ASSUME NEW S \in SUBSET (1..n), S # {}, it[S \ {Max(S)}] \in F[S \ {Max(S)}]
        PROVE  it[S] \in F[S]
    <3>1. Max(S) \in 1..n
      BY <1>1, <2>2, MaxIs
    <3>2. it[S] = BlockAwaiting(it[S \ {Max(S)}], q[Max(S)])
      BY <1>1, <1>8, <2>2
    <3>3. it[S \ {Max(S)}] \in B /\ q[Max(S)] = Max(S)
      BY <1>1, <2>2, <3>1 DEF F
    <3>4. it[S] \in B
      BY <1>3, <3>1, <3>2, <3>3
    <3> QED
      BY <3>4 DEF F
  <2>3. \A S \in SUBSET (1..n) : it[S] \in F[S]
    BY <1>1, <2>1, <2>2, FoldIn
  <2> QED
    BY <1>1, <2>3 DEF F
<1>10. r = it[1..n]
  BY <1>1 DEF FoldLeftDomain, FoldLeft, MapThenFoldSet
<1> QED
  BY <1>1, <1>9, <1>10 DEF B

\* The envelopes that the file mail shows as not sent are dispatched.
Resent(s, mail) ==
    FoldLeftDomain(LAMBDA t, e : IF mail[e].delivery = "outbox" /\ mail[e].run = 0
                                 THEN Dispatch(t, e) ELSE t,
                   s, mail)

LEMMA ResentGood ==
    ASSUME NEW s \in State, Filed(s), Whole(s),
           NEW mail \in Seq(MailRec), Len(mail) = Len(s.disk.mail),
           \A e \in 1..Len(mail) : /\ mail[e].run = s.disk.mail[e].run
                                   /\ mail[e].delivery = "outbox" <=> Unsent(s, e),
           NEW r, r = Resent(s, mail)
    PROVE  Good(r) /\ Follows(s, r) /\ r.disk.said = s.disk.said
<1> DEFINE n == Len(mail)
           q == [i \in DOMAIN mail |-> i]
           Step(t, e) == IF mail[e].delivery = "outbox" /\ mail[e].run = 0
                         THEN Dispatch(t, e) ELSE t
           P(t, S) == IF n \in S THEN Good(t) /\ Follows(s, t) /\ t.disk.said = s.disk.said
                                 ELSE t = s
           F == [S \in SUBSET (1..n) |-> {t \in State : P(t, S)}]
           g == [p \in State \X (1..n) |-> Step(p[1], p[2])]
           Rec(h) == h = [S \in SUBSET DOMAIN q |->
                            IF S = {} THEN s ELSE Step(h[S \ {Max(S)}], q[Max(S)])]
           it == CHOOSE h : Rec(h)
<1>1. /\ n \in Nat /\ DOMAIN mail = 1..n /\ DOMAIN q = 1..n /\ \A i \in 1..n : q[i] = i
      /\ DOMAIN s.disk.mail = 1..n
  BY FieldsOf, LenProperties
<1>2. P(s, {})
  OBVIOUS
<1>3. \A e \in 1..n : Unsent(s, e) => e = n /\ mail[e].run = 0
  BY <1>1 DEF Filed, Bounded
<1>4. Follows(s, s)
  BY FieldsOf DEF Follows, StatusStep
<1>5. (\A e \in 1..n : ~Unsent(s, e)) => Good(s)
  BY <1>1 DEF Good, Sent
<1>6. ASSUME NEW t \in State, NEW S \in SUBSET (1..n), NEW k \in 1..n, \A j \in S : j < k, P(t, S)
      PROVE  Step(t, k) \in State /\ P(Step(t, k), S \cup {k})
  <2>1. CASE k = n
    <3>1. n \notin S
      <4>1. ~(n < n)
        BY <1>1
      <4> QED
        BY <1>6, <2>1, <4>1
    <3>2. t = s
      BY <1>6, <3>1
    <3>3. CASE Unsent(s, n)
      <4>1. Step(t, k) = Dispatch(s, n)
        BY <1>1, <1>3, <1>6, <2>1, <3>2, <3>3
      <4>2. n \in DOMAIN s.disk.mail
        BY <1>1, <2>1
      <4> HIDE DEF n, Step
      <4>3. Good(Dispatch(s, n)) /\ Follows(s, Dispatch(s, n))
            /\ Dispatch(s, n).disk.said = s.disk.said
        BY <3>3, <4>2, DispatchGood
      <4> QED
        BY <2>1, <4>1, <4>3 DEF Good
    <3>4. CASE ~Unsent(s, n)
      <4>1. Step(t, k) = s
        BY <1>1, <1>6, <2>1, <3>2, <3>4
      <4>2. Good(s)
        BY <1>3, <1>5, <3>4
      <4> HIDE DEF Step
      <4> QED
        BY <1>4, <2>1, <4>1, <4>2
    <3> QED
      BY <3>3, <3>4
  <2>2. CASE k # n
    <3>1. Step(t, k) = t
      BY <1>3, <2>2
    <3> HIDE DEF Step
    <3> QED
      BY <1>6, <2>2, <3>1
  <2> QED
    BY <2>1, <2>2
<1> HIDE DEF P, Step
<1>7. \A S \in SUBSET (1..n), k \in 1..n :
          (\A j \in S : j < k) => \A p \in F[S] : g[<<p, k>>] \in F[S \cup {k}]
  <2>1. SUFFICES ASSUME NEW S \in SUBSET (1..n), NEW k \in 1..n, \A j \in S : j < k,
                        NEW p \in F[S]
                 PROVE  g[<<p, k>>] \in F[S \cup {k}]
    OBVIOUS
  <2>2. p \in State /\ P(p, S) /\ S \cup {k} \in SUBSET (1..n)
    <3>1. p \in {u \in State : P(u, S)}
      BY <2>1
    <3> QED
      BY <3>1
  <2>3. g[<<p, k>>] = Step(p, k)
    BY <2>2
  <2> HIDE DEF g, n
  <2>4. Step(p, k) \in State /\ P(Step(p, k), S \cup {k})
    BY <1>6, <2>1, <2>2
  <2> QED
    BY <2>2, <2>3, <2>4
<1>8. PICK h : Folding(h, n, s, g) /\ \A S \in SUBSET (1..n) : h[S] \in F[S]
  <2>1. s \in F[{}]
    BY <1>2
  <2> HIDE DEF F, g, n
  <2> QED
    BY <1>1, <1>7, <2>1, FoldValues
<1>9. Rec(it)
  <2>1. ASSUME NEW S \in SUBSET (1..n), S # {}
        PROVE  g[<<h[S \ {Max(S)}], Max(S)>>] = Step(h[S \ {Max(S)}], q[Max(S)])
    <3>1. Max(S) \in 1..n
      BY <1>1, <2>1, MaxIs
    <3>2. h[S \ {Max(S)}] \in State /\ q[Max(S)] = Max(S)
      BY <1>1, <1>8, <3>1
    <3> HIDE DEF q, n
    <3> QED
      BY <3>1, <3>2
  <2> HIDE DEF g, F
  <2>2. Rec(h)
    BY <1>1, <1>8, <2>1 DEF Folding
  <2> QED
    BY <2>2
<1>10. it[1..n] \in F[1..n]
  <2> HIDE DEF it
  <2>1. it[{}] \in F[{}]
    <3>1. it[{}] = s
      BY <1>9
    <3> QED
      BY <1>1, <1>2, <3>1
  <2>2. ASSUME NEW S \in SUBSET (1..n), S # {}, it[S \ {Max(S)}] \in F[S \ {Max(S)}]
        PROVE  it[S] \in F[S]
    <3>1. Max(S) \in 1..n /\ Max(S) \in S /\ \A j \in S \ {Max(S)} : j < Max(S)
      <4>1. PICK x \in 1..n : x = Max(S) /\ x \in S /\ \A j \in S : j <= x
        BY <1>1, <2>2, MaxIs
      <4>2. ASSUME NEW j \in S \ {x} PROVE j < x
        <5>1. j \in 1..n /\ j <= x /\ j # x
          BY <4>1
        <5> QED
          BY <4>1, <5>1
      <4> QED
        BY <4>1, <4>2
    <3>2. it[S \ {Max(S)}] \in State /\ P(it[S \ {Max(S)}], S \ {Max(S)})
      <4>1. S \ {Max(S)} \in SUBSET (1..n)
        OBVIOUS
      <4> HIDE DEF q, n
      <4> QED
        BY <2>2, <4>1
    <3>3. q[Max(S)] = Max(S)
      BY <1>1, <3>1
    <3> HIDE DEF q, n
    <3>4. it[S] = Step(it[S \ {Max(S)}], Max(S))
      BY <1>1, <1>9, <2>2, <3>3
    <3>5. it[S] \in State /\ P(it[S], (S \ {Max(S)}) \cup {Max(S)})
      <4> HIDE DEF P, it, Step
      <4>1. /\ Step(it[S \ {Max(S)}], Max(S)) \in State
            /\ P(Step(it[S \ {Max(S)}], Max(S)), (S \ {Max(S)}) \cup {Max(S)})
        BY <1>6, <3>1, <3>2
      <4> QED
        BY <3>4, <4>1
    <3>6. (S \ {Max(S)}) \cup {Max(S)} = S
      BY <3>1
    <3> QED
      BY <2>2, <3>5, <3>6
  <2>3. \A S \in SUBSET (1..n) : it[S] \in F[S]
    <3> HIDE DEF F, n
    <3> QED
      BY <1>1, <2>1, <2>2, FoldIn
  <2> HIDE DEF F
  <2> QED
    BY <1>1, <2>3
<1>11. r = it[1..n]
  BY <1>1 DEF Resent, FoldLeftDomain, FoldLeft, MapThenFoldSet, Step
<1> HIDE DEF it
<1>12. P(r, 1..n)
  BY <1>1, <1>10, <1>11
<1>13. CASE n = 0
  BY <1>1, <1>4, <1>5, <1>12, <1>13 DEF P
<1>14. CASE n # 0
  BY <1>1, <1>12, <1>14 DEF P
<1> QED
  BY <1>13, <1>14

-----------------------------------------------------------------------------
(* What users do. *)

\* A state that an operation of a living process may lead to.
Taken(t) ==
    /\ Good(t) /\ Follows(Now, t)
    /\ \A j \in t.disk.said \ disk.said : Status(Now, j) = "running" /\ j \in mem.slots

LEMMA NowIs ==
    ASSUME IInv, up = TRUE
    PROVE  Good(Now) /\ Now \in State /\ Now.disk = disk /\ Now.mem = mem /\ Taken(Now)
<1>1. Good(Now) /\ Now \in State
  BY DEF IInv, Good
<1>2. Now.disk = disk /\ Now.mem = mem
  BY DEF Now
<1>3. Follows(Now, Now)
  BY <1>1, FieldsOf DEF Follows, StatusStep
<1> QED
  BY <1>1, <1>2, <1>3 DEF Taken

\* What leaves the publications alone.
LEMMA TakenIf ==
    ASSUME NEW t, Good(t), Follows(Now, t), t.disk.said = disk.said PROVE Taken(t)
BY DEF Taken

LEMMA UserMessageStep ==
    ASSUME IInv, NEW targets \in Addressed, UserMessage(targets)
    PROVE  \E t : Then(t) /\ Taken(t)
<1> DEFINE t == Reached(Now, targets, Fresh)
<1>1. up = TRUE /\ Then(t)
  BY DEF UserMessage, Active, Reached, IInv
<1>2. /\ Good(Now) /\ Now.disk = disk
  BY <1>1, NowIs
<1>3. /\ Len(Now.disk.run) + Len(targets) <= MaxRuns
      /\ t = Reached(Now, targets, <<"user", Len(Now.disk.run)>>)
  BY <1>2 DEF UserMessage, Fits, Fresh
<1> HIDE DEF t
<1>4. Good(t) /\ Follows(Now, t) /\ t.disk.said = Now.disk.said
  BY <1>2, <1>3, ReachedGood
<1> QED
  BY <1>1, <1>2, <1>4, TakenIf

LEMMA UpdateRoomStep ==
    ASSUME IInv, NEW status \in {"active", "paused", "archived"}, NEW n \in Limits,
           UpdateRoom(status, n)
    PROVE  \E t : Then(t) /\ Taken(t)
<1> DEFINE room == [status |-> status, max |-> n]
           s == [Now EXCEPT !.disk.room = room]
           disk1 == [disk EXCEPT !.room = room]
           t == IF status = "active" THEN Drain(s) ELSE s
<1>1. up = TRUE /\ Then(t)
  BY DEF UpdateRoom, IInv
<1>2. /\ Good(Now) /\ Now.disk = disk /\ Now.mem = mem /\ Now \in State
      /\ disk \in Disk /\ mem \in Memory
  BY <1>1, NowIs, FieldsOf
<1>3. room \in RoomRec /\ room.status = status
  BY DEF RoomRec
<1> HIDE DEF room
<1>4. s = [Now EXCEPT !.disk = disk1]
  BY <1>2
<1>5. disk1 \in Disk
  BY <1>2, <1>3 DEF Disk
<1>6. /\ s \in State /\ s.mem = mem /\ s.disk.run = disk.run /\ s.disk.mail = disk.mail
      /\ s.disk.approval = disk.approval /\ s.disk.said = disk.said /\ s.disk.room = room
  <2>1. s \in State /\ s.mem = mem /\ s.disk = disk1
    BY <1>2, <1>4, <1>5 DEF State
  <2> HIDE DEF s
  <2> QED
    BY <1>2, <2>1 DEF Disk
<1> HIDE DEF s
<1>7. /\ Stored(s) = Stored(Now)
      /\ \A i : Seat(s, i) = Seat(Now, i) /\ Status(s, i) = Status(Now, i)
                /\ Cause(s, i) = Cause(Now, i)
  BY <1>2, <1>6 DEF Stored, Seat, Status, Cause
<1>8. Sound(s, Stored(s))
  BY <1>2, <1>6, <1>7 DEF Good, Whole, Sound, Queued, Slotted, Turning
<1>9. Filed(s) /\ Sent(s)
  <2>1. Linked(s)
    BY <1>2, <1>6, <1>7 DEF Good, Filed, Linked
  <2>2. Caused(s)
    BY <1>2, <1>6, <1>7 DEF Good, Filed, Caused
  <2>3. Unrepeated(s)
    BY <1>2, <1>7, StillUnrepeated DEF Good, Filed
  <2>4. Sent(s)
    BY <1>2, <1>6 DEF Good, Sent, Unsent
  <2>5. Bounded(s)
    BY <1>2, <1>6, <2>4 DEF Good, Filed, Bounded, Sent
  <2> QED
    BY <2>1, <2>2, <2>3, <2>4, <2>5 DEF Filed
<1>10. Follows(Now, s)
  BY <1>2, <1>6, <1>7, FieldsOf DEF Follows, StatusStep
<1>11. CASE status = "active"
  <2>1. t = Drain(s)
    BY <1>11
  <2> HIDE DEF t
  <2>2. t \in State /\ Kept(s, t) /\ Sound(t, Stored(s)) /\ NoIdle(t)
    BY <1>6, <1>8, <2>1, DrainSound
  <2>3. Stored(t) = Stored(s)
    BY <1>6, <2>2, FieldsOf DEF Kept
  <2>4. Good(t) /\ t.disk.said = disk.said
    BY <1>6, <1>9, <2>2, <2>3, KeptFiled DEF Good, Whole, Kept
  <2>5. Follows(Now, t)
    BY <1>2, <1>6, <1>10, <2>2, FollowsIf
  <2> QED
    BY <1>1, <2>4, <2>5, TakenIf
<1>12. CASE status # "active"
  <2>1. t = s
    BY <1>12
  <2>2. NoIdle(s)
    BY <1>3, <1>6, <1>12 DEF NoIdle, CanStart
  <2>3. Good(s)
    BY <1>6, <1>8, <1>9, <2>2 DEF Good, Whole
  <2> QED
    BY <1>1, <1>6, <1>10, <2>1, <2>3, TakenIf
<1> QED
  BY <1>11, <1>12

\* What only changes runs that there are.
LEMMA TakenKept ==
    ASSUME IInv, up = TRUE, NEW t \in State, Kept(Now, t), Whole(t)
    PROVE  Taken(t)
<1>1. Good(Now) /\ Now \in State /\ Now.disk = disk
  BY NowIs
<1>2. Filed(t) /\ Sent(t)
  BY <1>1, KeptFiled DEF Good
<1>3. Follows(Now, t) /\ t.disk.said = disk.said
  BY <1>1, FollowsIf DEF Kept
<1> QED
  BY <1>2, <1>3, TakenIf DEF Good

LEMMA CancelRunStep ==
    ASSUME IInv, NEW i \in DOMAIN disk.run, CancelRun(i)
    PROVE  \E t : Then(t) /\ Taken(t)
<1> DEFINE t == Cancel(Now, i)
<1>1. up = TRUE /\ Then(t)
  BY DEF CancelRun, IInv
<1>2. Good(Now) /\ Now \in State /\ i \in Stored(Now)
  BY <1>1, NowIs DEF Stored
<1> HIDE DEF t
<1>3. t \in State /\ Kept(Now, t) /\ Whole(t)
  BY <1>2, CancelWhole DEF t, Good
<1> QED
  BY <1>1, <1>3, TakenKept

\* A run that is started on behalf of another one.
LEMMA AgainTaken ==
    ASSUME IInv, up = TRUE, Fits(1), NEW i \in DOMAIN disk.run, NEW m \in Member
    PROVE  Taken(Add(Now, m, <<"again", i>>))
<1>1. Good(Now) /\ Now \in State /\ i \in Stored(Now) /\ Now.disk = disk
  BY NowIs DEF Stored
<1>2. i \in Nat /\ Len(Now.disk.run) \in Nat
  BY <1>1, FieldsOf
<1>3. Len(Now.disk.run) < MaxRuns
  BY <1>1, <1>2, BoundAssumption DEF Fits, BoundAssumption
<1>4. Fit(Now, m, <<"again", i>>) /\ <<"again", i>> \in Kind \X Nat
  BY <1>1, <1>2, <1>3 DEF Fit, Kind, Good, Sent
<1> DEFINE t == Add(Now, m, <<"again", i>>)
<1>5. /\ t \in State /\ Grown(Now, t, m, <<"again", i>>) /\ Good(t) /\ Follows(Now, t)
  BY <1>1, <1>4, AddGood DEF Good, Whole
<1> HIDE DEF t
<1>6. t.disk.said = disk.said
  BY <1>1, <1>5 DEF Grown
<1> QED
  BY <1>5, <1>6, TakenIf DEF t

LEMMA RetryRunStep ==
    ASSUME IInv, NEW i \in DOMAIN disk.run, NEW m \in Member, RetryRun(i, m)
    PROVE  \E t : Then(t) /\ Taken(t)
BY AgainTaken DEF RetryRun, Active, IInv

LEMMA ConfirmResumeStep ==
    ASSUME IInv, NEW i \in DOMAIN disk.run, ConfirmResume(i)
    PROVE  \E t : Then(t) /\ Taken(t)
<1>1. up = TRUE /\ Fits(1) /\ Then(Add(Now, Seat(Now, i), <<"again", i>>))
  BY DEF ConfirmResume, Active, IInv
<1>2. Now \in State /\ i \in Stored(Now)
  BY <1>1, NowIs DEF Stored
<1>3. Seat(Now, i) \in Member
  BY <1>2, FieldsOf
<1> QED
  BY <1>1, <1>3, AgainTaken

LEMMA SetBotOwnerConsentStep ==
    ASSUME IInv, NEW m \in Member, NEW consent \in BOOLEAN, SetBotOwnerConsent(m, consent)
    PROVE  \E t : Then(t) /\ Taken(t)
<1> DEFINE f == [disk.member EXCEPT ![m].consent = consent]
           disk1 == [disk EXCEPT !.member = f]
           s == [Now EXCEPT !.disk.member[m].consent = consent]
           t == IF consent THEN s ELSE CancelAllOf(s, m)
<1>1. up = TRUE /\ Then(t)
  BY DEF SetBotOwnerConsent, IInv
<1>2. /\ Good(Now) /\ Now.disk = disk /\ Now.mem = mem /\ Now \in State
      /\ disk \in Disk /\ mem \in Memory
  BY <1>1, NowIs, FieldsOf
<1>3. f \in [Member -> MemberRec]
  <2>1. disk.member \in [Member -> MemberRec]
    BY <1>2 DEF Disk
  <2>2. [disk.member[m] EXCEPT !.consent = consent] \in MemberRec
    BY <2>1 DEF MemberRec
  <2> QED
    BY <2>1, <2>2
<1>4. s = [Now EXCEPT !.disk = disk1]
  BY <1>2
<1> HIDE DEF f
<1>5. disk1 \in Disk
  BY <1>2, <1>3 DEF Disk
<1>6. Alike(Now, s)
  <2>1. s \in State /\ s.mem = mem /\ s.disk = disk1
    BY <1>2, <1>4, <1>5 DEF State
  <2> HIDE DEF s
  <2> QED
    BY <1>2, <2>1 DEF Disk, Alike
<1> HIDE DEF s
<1>7. s \in State /\ Kept(Now, s) /\ Whole(s)
  BY <1>2, <1>6, AlikeIs DEF Good, Whole
<1>8. CASE consent
  BY <1>1, <1>7, <1>8, TakenKept
<1>9. CASE ~consent
  <2>1. t = CancelAllOf(s, m)
    BY <1>9
  <2> HIDE DEF t
  <2>2. t \in State /\ Kept(s, t) /\ Whole(t)
    BY <1>7, <2>1, CancelAllWhole
  <2>3. Kept(Now, t)
    BY <1>2, <1>7, <2>2, KeptThen
  <2> QED
    BY <1>1, <2>2, <2>3, TakenKept
<1> QED
  BY <1>8, <1>9

LEMMA RemoveMemberStep ==
    ASSUME IInv, NEW m \in Member, RemoveMember(m)
    PROVE  \E t : Then(t) /\ Taken(t)
<1> DEFINE s == CancelAllOf(Now, m)
           t == SetMember(s, m, "removed")
<1>1. up = TRUE /\ Then(t)
  BY DEF RemoveMember, IInv
<1>2. Good(Now) /\ Now \in State /\ Whole(Now)
  BY <1>1, NowIs DEF Good
<1>3. s \in State /\ Kept(Now, s) /\ Whole(s)
  BY <1>2, CancelAllWhole
<1> HIDE DEF s
<1>4. Alike(s, t)
  BY <1>3, SetMemberIs DEF MemberStatus
<1> HIDE DEF t
<1>5. t \in State /\ Kept(s, t) /\ Whole(t)
  BY <1>3, <1>4, AlikeIs DEF Whole
<1>6. Kept(Now, t)
  BY <1>2, <1>3, <1>5, KeptThen
<1> QED
  BY <1>1, <1>5, <1>6, TakenKept

LEMMA ResolveUserApprovalStep ==
    ASSUME IInv, NEW k \in DOMAIN disk.approval, NEW d \in {"approved", "denied"},
           ResolveUserApproval(k, d)
    PROVE  \E t : Then(t) /\ Taken(t)
<1> DEFINE s == Decided(Now, k, d)
           m == Seat(Now, disk.approval[k].run)
           t == IF d = "denied" \/ disk.room.status # "active" THEN Sync(s, m)
                ELSE Add(s, m, <<"approval", k>>)
<1>1. up = TRUE /\ Then(t) /\ disk.approval[k].status = "pending" /\ Fits(1)
  BY DEF ResolveUserApproval, IInv
<1>2. Good(Now) /\ Now \in State /\ Now.disk = disk
  BY <1>1, NowIs
<1>3. m \in Member /\ k \in Nat /\ Len(disk.run) \in Nat /\ Len(disk.run) < MaxRuns
  <2>1. disk.approval[k].run \in Stored(Now)
    BY <1>2 DEF Good, Filed, Linked
  <2>2. Len(disk.run) \in Nat /\ k \in Nat
    BY <1>2, FieldsOf
  <2>3. Len(disk.run) < MaxRuns
    BY <1>1, <2>2, BoundAssumption DEF Fits, BoundAssumption
  <2> QED
    BY <1>2, <2>1, <2>2, <2>3, FieldsOf
<1>4. /\ Good(s) /\ Follows(Now, s) /\ s.disk.said = disk.said
      /\ Len(s.disk.run) = Len(disk.run)
      /\ k \in DOMAIN s.disk.approval /\ s.disk.approval[k].status # "pending"
      /\ RunsFor(s, <<"approval", k>>) = {}
  BY <1>1, <1>2, DecidedIs
<1> HIDE DEF s, m
<1>5. CASE d = "denied" \/ disk.room.status # "active"
  <2>1. Alike(s, t)
    BY <1>3, <1>4, <1>5, SyncIs DEF Good
  <2> HIDE DEF t
  <2>2. t \in State /\ Kept(s, t) /\ Whole(t) /\ t.disk.said = disk.said
    BY <1>4, <2>1, AlikeIs DEF Good, Whole, Alike
  <2>3. Good(t) /\ Follows(Now, t)
    BY <1>2, <1>4, <2>2, KeptFiled, FollowsIf DEF Good
  <2> QED
    BY <1>1, <2>2, <2>3, TakenIf
<1>6. CASE ~(d = "denied" \/ disk.room.status # "active")
  <2>1. t = Add(s, m, <<"approval", k>>)
    BY <1>6
  <2>2. Fit(s, m, <<"approval", k>>) /\ <<"approval", k>> \in Kind \X Nat
    BY <1>3, <1>4 DEF Fit, Kind, Good, Sent
  <2> HIDE DEF t
  <2>3. t \in State /\ Grown(s, t, m, <<"approval", k>>) /\ Good(t) /\ Follows(s, t)
    BY <1>3, <1>4, <2>1, <2>2, AddGood DEF Good, Whole
  <2>4. t.disk.said = disk.said
    BY <1>4, <2>3 DEF Grown
  <2>5. Follows(Now, t)
    BY <1>2, <1>4, <2>3, FollowsIf DEF Good
  <2> QED
    BY <1>1, <2>3, <2>4, <2>5, TakenIf
<1> QED
  BY <1>5, <1>6

-----------------------------------------------------------------------------
(* What agents do. *)

\* Run i has posted envelope e to m, and s is the state it posted it in.
Posted(i, m, s, e) ==
    /\ up = TRUE /\ Good(Now) /\ Now \in State /\ Now.disk = disk /\ i \in Stored(Now)
    /\ SameRuns(Now, s) /\ Filed(s) /\ Whole(s)
    /\ e \in DOMAIN s.disk.mail /\ e \in Nat
    /\ s.disk.mail[e].to = m /\ Unsent(s, e) /\ RunsFor(s, <<"mail", e>>) = {}
    /\ Follows(Now, s)

LEMMA MayPostIs ==
    ASSUME IInv, NEW i \in mem.turns, NEW m \in Member, NEW type \in {"message", "question"},
           MayPost(i, m)
    PROVE  Posted(i, m, Post(Now, i, m, type), Len(disk.mail) + 1)
<1> DEFINE s == Post(Now, i, m, type)
           e == Len(disk.mail) + 1
<1>1. up = TRUE /\ Fits(1) /\ RunDepth(Now, i) < MaxA2ADepth
  BY DEF MayPost, Active, IInv
<1>2. Good(Now) /\ Now \in State /\ Now.disk = disk /\ Now.mem = mem
  BY <1>1, NowIs
<1>3. i \in Stored(Now) /\ Len(Now.disk.run) < MaxRuns
  <2>1. i \in Stored(Now)
    BY <1>2 DEF Good, Whole, Sound, Turning
  <2>2. Len(disk.run) \in Nat
    BY <1>2, FieldsOf
  <2> QED
    BY <1>1, <1>2, <2>1, <2>2, BoundAssumption DEF Fits, BoundAssumption
<1>4. e = Len(Now.disk.mail) + 1
  BY <1>2
<1>5. /\ SameRuns(Now, s) /\ Filed(s) /\ Whole(s)
      /\ e = Len(s.disk.mail) /\ e \in DOMAIN s.disk.mail /\ e \in Nat
      /\ s.disk.mail[e].to = m /\ Unsent(s, e)
      /\ RunsFor(s, <<"mail", e>>) = {}
  BY <1>1, <1>2, <1>3, <1>4, PostIs
<1> HIDE DEF s
<1>6. Follows(Now, s)
  BY <1>2, <1>5, SameRunsIs
<1>7. Posted(i, m, s, e)
  BY <1>1, <1>2, <1>3, <1>5, <1>6 DEF Posted
<1> QED
  BY <1>7 DEF s

LEMMA SendGood ==
    ASSUME IInv, NEW i \in mem.turns, NEW m \in Member, NEW type \in {"message", "question"},
           MayPost(i, m), NEW s, s = Post(Now, i, m, type), NEW e, e = Len(disk.mail) + 1,
           NEW t, t = Dispatch(s, e)
    PROVE  Good(t) /\ Follows(Now, t) /\ t.disk.said = disk.said
<1>1. /\ up = TRUE /\ Now \in State /\ Now.disk = disk /\ i \in Stored(Now)
      /\ SameRuns(Now, s) /\ Filed(s) /\ Whole(s)
      /\ e \in DOMAIN s.disk.mail /\ Unsent(s, e) /\ Follows(Now, s)
  <2>1. Posted(i, m, s, e)
    BY MayPostIs
  <2> QED
    BY <2>1 DEF Posted
<1>2. s \in State /\ s.disk.said = disk.said
  <2>1. s \in State
    BY <1>1 DEF SameRuns
  <2>2. disk \in Disk
    BY <1>1, FieldsOf
  <2>3. s.disk = [disk EXCEPT !.mail = s.disk.mail]
    BY <1>1, <2>2 DEF Post, State, Disk
  <2>4. s.disk.said = disk.said
    BY <2>2, <2>3 DEF Disk
  <2> QED
    BY <2>1, <2>4
<1>3. Good(t) /\ Follows(s, t) /\ t.disk.said = s.disk.said
  BY <1>1, <1>2, DispatchGood
<1> QED
  BY <1>1, <1>2, <1>3, FollowsIf DEF Good

LEMMA RoomSendStep ==
    ASSUME IInv, NEW i \in mem.turns, NEW m \in Member, RoomSend(i, m)
    PROVE  \E t : Then(t) /\ Taken(t)
<1> DEFINE t == Dispatch(Post(Now, i, m, "message"), Len(disk.mail) + 1)
<1>1. Then(t) /\ MayPost(i, m)
  BY DEF RoomSend
<1>2. Good(t) /\ Follows(Now, t) /\ t.disk.said = disk.said
  BY <1>1, SendGood
<1> HIDE DEF t
<1> QED
  BY <1>1, <1>2, TakenIf

LEMMA RoomAskStep ==
    ASSUME IInv, NEW i \in mem.turns, NEW m \in Member, RoomAsk(i, m)
    PROVE  \E t : Then(t) /\ Taken(t)
<1> DEFINE s == Dispatch(Post(Now, i, m, "question"), Len(disk.mail) + 1)
           u == Park(s, i, "awaiting_peer")
           t == IF Status(s, i) # "running" THEN s ELSE Sync(u, Seat(s, i))
<1>1. Then(t) /\ MayPost(i, m)
  BY DEF RoomAsk
<1>2. Good(s) /\ Follows(Now, s) /\ s.disk.said = disk.said
  BY <1>1, SendGood
<1>3. Now \in State /\ i \in Stored(Now)
  BY <1>1, MayPostIs DEF Posted
<1> HIDE DEF s
<1>4. s \in State /\ i \in Stored(s)
  BY <1>2, <1>3, FollowsIf DEF Good
<1>5. CASE Status(s, i) # "running"
  BY <1>1, <1>2, <1>5, TakenIf
<1>6. CASE Status(s, i) = "running"
  <2>1. u \in State /\ Kept(s, u) /\ Whole(u)
    BY <1>2, <1>4, <1>6, ParkSound DEF Good, Whole
  <2> HIDE DEF u
  <2>2. t = Sync(u, Seat(s, i)) /\ Seat(s, i) \in Member
    BY <1>4, <1>6, FieldsOf
  <2> HIDE DEF t
  <2>3. Alike(u, t)
    BY <2>1, <2>2, SyncIs
  <2>4. t \in State /\ Kept(u, t) /\ Whole(t)
    BY <2>1, <2>3, AlikeIs DEF Whole
  <2>5. Kept(s, t)
    BY <1>4, <2>1, <2>4, KeptThen
  <2>6. Good(t) /\ t.disk.said = disk.said
    BY <1>2, <1>4, <2>4, <2>5, KeptFiled DEF Good, Kept
  <2>7. Follows(Now, t)
    BY <1>2, <1>3, <1>4, <2>4, <2>5, FollowsIf
  <2> QED
    BY <1>1, <2>6, <2>7, TakenIf
<1> QED
  BY <1>5, <1>6

LEMMA RoomReplyStep ==
    ASSUME IInv, NEW i \in mem.turns, NEW e \in DOMAIN disk.mail, RoomReply(i, e)
    PROVE  \E t : Then(t) /\ Taken(t)
<1> DEFINE s == Answered(Now, e)
           m == Seat(Now, disk.mail[e].from)
           c == <<"reply", e>>
           t == IF Wakes(Now, e) THEN Add(s, m, c) ELSE s
<1>1. up = TRUE /\ Fits(1) /\ Then(t)
  BY DEF RoomReply, MayReply, IInv
<1>2. Good(Now) /\ Now \in State /\ Now.disk = disk
  BY <1>1, NowIs
<1>3. Good(s) /\ Kept(Now, s)
  BY <1>2, AnsweredIs
<1>4. m \in Member /\ e \in Nat /\ Len(disk.run) \in Nat /\ Len(disk.run) < MaxRuns
  <2>1. disk.mail[e].from \in Stored(Now)
    BY <1>2 DEF Good, Filed, Linked
  <2>2. Len(disk.run) \in Nat /\ e \in Nat
    BY <1>2, FieldsOf
  <2>3. Len(disk.run) < MaxRuns
    BY <1>1, <2>2, BoundAssumption DEF Fits, BoundAssumption
  <2> QED
    BY <1>2, <2>1, <2>2, <2>3, FieldsOf
<1> HIDE DEF s, m
<1>5. CASE ~Wakes(Now, e)
  <2>1. s \in State /\ Whole(s)
    BY <1>3 DEF Good
  <2> QED
    BY <1>1, <1>3, <1>5, <2>1, TakenKept
<1>6. CASE Wakes(Now, e)
  <2>1. t = Add(s, m, c)
    BY <1>6
  <2>2. RunsFor(s, c) = {}
    <3>1. RunsFor(Now, c) = {}
      BY <1>6 DEF Wakes
    <3>2. Stored(s) = Stored(Now)
      BY <1>2, <1>3, FieldsOf DEF Kept, Good
    <3> QED
      BY <1>3, <3>1, <3>2 DEF RunsFor, Stored, Cause, Kept
  <2>3. Len(s.disk.run) < MaxRuns
    BY <1>2, <1>3, <1>4 DEF Kept
  <2>4. Fit(s, m, c) /\ c \in Kind \X Nat
    BY <1>3, <1>4, <2>2, <2>3 DEF Fit, Kind, Good, Sent
  <2> HIDE DEF t, c
  <2>5. t \in State /\ Grown(s, t, m, c) /\ Good(t) /\ Follows(s, t)
    BY <1>3, <1>4, <2>1, <2>4, AddGood DEF Good, Whole
  <2>6. t.disk.said = disk.said
    BY <1>2, <1>3, <2>5 DEF Grown, Kept
  <2>7. Follows(Now, s)
    BY <1>2, <1>3, FollowsIf DEF Good
  <2>8. Follows(Now, t)
    BY <1>2, <1>3, <2>5, <2>7, FollowsIf DEF Good
  <2> QED
    BY <1>1, <2>5, <2>6, <2>8, TakenIf
<1> QED
  BY <1>5, <1>6

LEMMA RequestUserApprovalStep ==
    ASSUME IInv, NEW i \in mem.turns, RequestUserApproval(i)
    PROVE  \E t : Then(t) /\ Taken(t)
<1> DEFINE x == [run |-> i, status |-> "pending"]
           a == Append(disk.approval, x)
           s == [Now EXCEPT !.disk.approval = Append(@, [run |-> i, status |-> "pending"])]
           u == Park(s, i, "awaiting_user")
           t == SetMember(u, Seat(s, i), "awaiting_user")
<1>1. up = TRUE /\ Then(t) /\ Status(Now, i) = "running"
  BY DEF RequestUserApproval, IInv
<1>2. /\ Good(Now) /\ Now \in State /\ Now.disk = disk /\ Now.mem = mem
      /\ disk.approval \in Seq(ApprovalRec) /\ Len(disk.approval) \in Nat
      /\ DOMAIN disk.approval = 1..Len(disk.approval)
  BY <1>1, NowIs, FieldsOf
<1>3. i \in Stored(Now) /\ i \in Nat
  <2>1. i \in Stored(Now)
    BY <1>2 DEF Good, Whole, Sound, Turning
  <2> QED
    BY <1>2, <2>1, FieldsOf
<1>4. x \in ApprovalRec /\ x.run = i
  BY <1>3 DEF ApprovalRec
<1>5. s = [Now EXCEPT !.disk.approval = a]
  BY <1>2
<1> HIDE DEF x
<1>6. /\ a \in Seq(ApprovalRec) /\ Len(a) = Len(disk.approval) + 1
      /\ \A k \in 1..Len(disk.approval) : a[k] = disk.approval[k]
      /\ a[Len(disk.approval) + 1] = x
  BY <1>2, <1>4, AppendIs
<1> HIDE DEF a, s
<1>7. a \in Requests(Now)
  <2>1. \A k \in 1..Len(disk.approval) : disk.approval[k].run \in Stored(Now)
    BY <1>2 DEF Good, Filed, Linked
  <2>2. \A k \in 1..Len(a) : a[k].run \in Stored(Now)
    <3>1. \A k \in 1..Len(a) : k \in 1..Len(disk.approval) \/ k = Len(disk.approval) + 1
      BY <1>2, <1>6
    <3> QED
      BY <1>3, <1>4, <1>6, <2>1, <3>1
  <2>3. Len(Now.disk.approval) <= Len(a)
    BY <1>2, <1>6
  <2> QED
    BY <1>2, <1>6, <2>2, <2>3 DEF Requests
<1>8. /\ Good(s) /\ SameRuns(Now, s) /\ s.disk.said = Now.disk.said
  BY <1>2, <1>5, <1>7, RequestsGood
<1>9. /\ Stored(s) = Stored(Now) /\ Follows(Now, s) /\ s \in State
      /\ Status(s, i) = "running"
  BY <1>1, <1>2, <1>8, SameRunsIs DEF Good
<1>10. u \in State /\ Kept(s, u) /\ Whole(u)
  BY <1>3, <1>8, <1>9, ParkSound DEF Good, Whole
<1> HIDE DEF u
<1>11. Seat(s, i) \in Member
  BY <1>3, <1>9, FieldsOf
<1>12. Alike(u, t)
  BY <1>10, <1>11, SetMemberIs DEF MemberStatus
<1> HIDE DEF t
<1>13. t \in State /\ Kept(u, t) /\ Whole(t)
  BY <1>10, <1>12, AlikeIs DEF Whole
<1>14. Kept(s, t)
  BY <1>9, <1>10, <1>13, KeptThen
<1>15. Good(t) /\ t.disk.said = disk.said
  BY <1>2, <1>8, <1>9, <1>13, <1>14, KeptFiled DEF Good, Kept
<1>16. Follows(Now, t)
  BY <1>2, <1>9, <1>13, <1>14, FollowsIf
<1> QED
  BY <1>1, <1>15, <1>16, TakenIf

LEMMA TurnReturnsStep ==
    ASSUME IInv, NEW i \in mem.turns, NEW outcome \in {"text", "error"}, TurnReturns(i, outcome)
    PROVE  \E t : Then(t) /\ Taken(t)
<1> DEFINE w == Settled(Now, i, outcome)
           s == Over(w, i)
           r == Release(s, i)
           t == Sync(r, Seat(s, i))
<1>1. up = TRUE /\ Then(t)
  BY DEF TurnReturns, Over, IInv
<1>2. Good(Now) /\ Now \in State /\ Now.disk = disk /\ Now.mem = mem
  BY <1>1, NowIs
<1>3. i \in Now.mem.turns /\ i \in Stored(Now)
  BY <1>2 DEF Good, Whole, Sound, Turning
<1>4. /\ w \in State /\ Filed(w) /\ Sent(w) /\ w.mem = Now.mem /\ w.disk.room = Now.disk.room
      /\ SettledRun(Now, w, i)
      /\ \A j \in w.disk.said \ Now.disk.said : j = i /\ Status(Now, i) = "running"
  BY <1>2, <1>3, SettledIs
<1> HIDE DEF w
<1>5. /\ Good(r) /\ Follows(Now, r) /\ r.disk.said = w.disk.said
      /\ Seat(s, i) = Seat(Now, i)
  BY <1>2, <1>3, <1>4, TurnEnds
<1>6. Seat(s, i) \in Member
  BY <1>2, <1>3, <1>5, FieldsOf
<1> HIDE DEF s, r
<1>7. Alike(r, t)
  BY <1>5, <1>6, SyncIs DEF Good
<1> HIDE DEF t
<1>8. t \in State /\ Kept(r, t) /\ Whole(t) /\ t.disk.said = w.disk.said
  BY <1>5, <1>7, AlikeIs DEF Good, Whole, Alike
<1>9. Good(t) /\ Follows(Now, t)
  BY <1>2, <1>5, <1>8, KeptFiled, FollowsIf DEF Good
<1>10. \A j \in t.disk.said \ disk.said : Status(Now, j) = "running" /\ j \in mem.slots
  <2>1. Status(Now, i) = "running" => i \in mem.slots
    BY <1>2, <1>3 DEF Good, Whole, Sound, Slotted
  <2> QED
    BY <1>2, <1>4, <1>8, <2>1
<1> QED
  BY <1>1, <1>9, <1>10 DEF Taken

-----------------------------------------------------------------------------
(* Crashes. *)

\* A state whose records may be left behind.
Left(t) == t \in State /\ Filed(t) /\ Follows(Now, t) /\ t.disk.said = disk.said

LEMMA CrashStep ==
    ASSUME IInv, Crash PROVE \E t : Die(t.disk) /\ Left(t)
<1>1. up = TRUE /\ Die(disk)
  BY DEF Crash, IInv
<1>2. Good(Now) /\ Now \in State /\ Now.disk = disk /\ Follows(Now, Now)
  BY <1>1, NowIs DEF Taken
<1> QED
  BY <1>1, <1>2 DEF Left, Good

LEMMA CrashWhileSendingStep ==
    ASSUME IInv, NEW i \in mem.turns, NEW m \in Member, NEW type \in {"message", "question"},
           CrashWhileSending(i, m, type)
    PROVE  \E t : Die(t.disk) /\ Left(t)
<1> DEFINE s == Post(Now, i, m, type)
           e == Len(disk.mail) + 1
           c == <<"mail", e>>
           n == NewRun(s, m, c)
           a == Add(s, m, c)
           d == Dispatch(s, e)
<1>1. MayPost(i, m) /\ (Die(s.disk) \/ Die(n.disk) \/ Die(a.disk) \/ Die(d.disk))
  BY DEF CrashWhileSending
<1>2. Good(d) /\ Follows(Now, d) /\ d.disk.said = disk.said
  BY <1>1, SendGood
<1>3. /\ up = TRUE /\ Good(Now) /\ Now \in State /\ Now.disk = disk
      /\ SameRuns(Now, s) /\ Filed(s) /\ Whole(s)
      /\ e \in DOMAIN s.disk.mail /\ Unsent(s, e) /\ RunsFor(s, c) = {}
      /\ Follows(Now, s)
  <2>1. Posted(i, m, s, e)
    BY <1>1, MayPostIs
  <2> HIDE DEF s, e, c
  <2> QED
    BY <2>1 DEF Posted, c
<1>4. s.disk.said = disk.said
  <2>1. disk \in Disk
    BY <1>3, FieldsOf
  <2>2. s.disk = [disk EXCEPT !.mail = s.disk.mail]
    BY <1>3, <2>1 DEF Post, State, Disk
  <2> HIDE DEF s
  <2> QED
    BY <2>1, <2>2 DEF Disk
<1> HIDE DEF s, e, d
<1>5. s \in State
  BY <1>3 DEF SameRuns
<1>6. Fit(s, m, c) /\ c \in Kind \X Nat
  BY <1>3, <1>5, MailFit
<1> HIDE DEF c
<1>7. n \in State /\ Grown(s, n, m, c)
  BY <1>5, <1>6, NewRunIs
<1>8. Filed(n) /\ Follows(s, n)
  BY <1>3, <1>5, <1>6, <1>7, GrownFiled, FollowsIf
<1>9. a \in State /\ Grown(s, a, m, c) /\ Filed(a) /\ Follows(s, a)
  BY <1>3, <1>5, <1>6, AddGood DEF Whole
<1> HIDE DEF n, a
<1>10. Left(s) /\ Left(d)
  BY <1>2, <1>3, <1>4, <1>5 DEF Left, Good
<1>11. Left(n)
  <2>1. n.disk.said = disk.said
    BY <1>4, <1>7 DEF Grown
  <2>2. Follows(Now, n)
    BY <1>3, <1>5, <1>7, <1>8, FollowsIf
  <2> QED
    BY <1>7, <1>8, <2>1, <2>2 DEF Left
<1>12. Left(a)
  <2>1. a.disk.said = disk.said
    BY <1>4, <1>9 DEF Grown
  <2>2. Follows(Now, a)
    BY <1>3, <1>5, <1>9, FollowsIf
  <2> QED
    BY <1>9, <2>1, <2>2 DEF Left
<1> QED
  BY <1>1, <1>10, <1>11, <1>12

LEMMA CrashBeforeRequestStep ==
    ASSUME IInv, NEW i \in mem.turns, CrashBeforeRequest(i)
    PROVE  \E t : Die(t.disk) /\ Left(t)
<1> DEFINE t == SetStatus(Now, i, "awaiting_user")
<1>1. up = TRUE /\ Die(t.disk) /\ Status(Now, i) = "running"
  BY DEF CrashBeforeRequest, IInv
<1>2. Good(Now) /\ Now \in State /\ Now.disk = disk /\ Now.mem = mem
  BY <1>1, NowIs
<1>3. i \in Stored(Now)
  BY <1>2 DEF Good, Whole, Sound, Turning
<1>4. t \in State /\ Restated(Now, t, i, "awaiting_user") /\ Elsewhere(Now, t)
  BY <1>2, <1>3, SetStatusIs DEF RunStatus
<1> HIDE DEF t
<1>5. Kept(Now, t)
  BY <1>1, <1>2, <1>3, <1>4, RestatedKept DEF StatusStep
<1>6. Filed(t) /\ Follows(Now, t) /\ t.disk.said = disk.said
  BY <1>2, <1>4, <1>5, KeptFiled, FollowsIf DEF Good, Kept
<1> QED
  BY <1>1, <1>4, <1>6 DEF Left

LEMMA CrashBeforeReplyRunStep ==
    ASSUME IInv, NEW i \in mem.turns, NEW e \in DOMAIN disk.mail, CrashBeforeReplyRun(i, e)
    PROVE  \E t : Die(t.disk) /\ Left(t)
<1> DEFINE t == Answered(Now, e)
<1>1. up = TRUE /\ Die(t.disk)
  BY DEF CrashBeforeReplyRun, MayReply, IInv
<1>2. Good(Now) /\ Now \in State /\ Now.disk = disk
  BY <1>1, NowIs
<1>3. Good(t) /\ Kept(Now, t)
  BY <1>2, AnsweredIs
<1> HIDE DEF t
<1>4. Follows(Now, t) /\ t.disk.said = disk.said
  BY <1>2, <1>3, FollowsIf DEF Good, Kept
<1> QED
  BY <1>1, <1>3, <1>4 DEF Left, Good

LEMMA CrashBeforeApprovalRunStep ==
    ASSUME IInv, NEW k \in DOMAIN disk.approval, NEW d \in {"approved", "denied"},
           CrashBeforeApprovalRun(k, d)
    PROVE  \E t : Die(t.disk) /\ Left(t)
<1> DEFINE t == Decided(Now, k, d)
<1>1. up = TRUE /\ disk.approval[k].status = "pending" /\ Die(t.disk)
  BY DEF CrashBeforeApprovalRun, IInv
<1>2. Good(Now) /\ Now \in State /\ Now.disk = disk
  BY <1>1, NowIs
<1>3. Good(t) /\ Follows(Now, t) /\ t.disk.said = disk.said
  BY <1>1, <1>2, DecidedIs
<1> QED
  BY <1>1, <1>3 DEF Left, Good

\* Recovery makes one whole again of whatever was left behind.
LEMMA RecoverStep ==
    ASSUME IInv, RecoverInterruptedRuns
    PROVE  /\ up' = TRUE
           /\ \E t : disk' = t.disk /\ mem' = t.mem /\ Taken(t)
<1> DEFINE interrupted == {i \in DOMAIN disk.run : Status(Now, i) = "running"}
           s1 == FoldLeftDomain(RecoverRun, Now, disk.run)
           s2 == FoldLeftDomain(BlockAwaiting, s1, disk.run)
           b == Marked(s2.disk.mail, interrupted, {"dispatched", "accepted"}, "outcome_unknown")
           s3 == OutcomeUnknown(s2, interrupted)
           t == Resent(s3, disk.mail)
<1>1. up # TRUE /\ up' = TRUE /\ disk' = t.disk /\ mem' = t.mem
  BY DEF RecoverInterruptedRuns, Resent
<1>2. /\ Now \in State /\ Filed(Now) /\ Now.disk = disk /\ Now.mem = NoMemory
      /\ disk.run \in Seq(RunRec) /\ disk.mail \in Seq(MailRec)
      /\ DOMAIN disk.mail = 1..Len(disk.mail)
  <2>1. Now.disk = disk /\ Now.mem = mem
    BY DEF Now
  <2>2. Now \in State /\ Filed(Now) /\ mem = NoMemory
    BY <1>1 DEF IInv
  <2> QED
    BY <2>1, <2>2, FieldsOf
<1>3. s1 \in State /\ Kept(Now, s1) /\ Whole(s1)
  BY <1>2, RecoveredWhole
<1> HIDE DEF s1
<1>4. Len(disk.run) = Len(s1.disk.run)
  BY <1>2, <1>3 DEF Kept
<1>5. s2 \in State /\ Kept(s1, s2) /\ Whole(s2)
  BY <1>2, <1>3, <1>4, BlockedWhole
<1> HIDE DEF s2
<1>6. b \in Boxes(s2.disk.mail)
  BY <1>5, FieldsOf, MarkedIs
<1>7. s3 = [s2 EXCEPT !.disk.mail = b]
  BY DEF OutcomeUnknown
<1> HIDE DEF b, interrupted
<1>8. SameRuns(s2, s3) /\ Kept(s2, s3)
  BY <1>5, <1>6, <1>7, BoxesKept
<1> HIDE DEF s3
<1>9. s3 \in State /\ Whole(s3)
  BY <1>5, <1>8, SameRunsIs DEF SameRuns
<1>10. Kept(Now, s3)
  <2>1. Kept(Now, s2)
    BY <1>2, <1>3, <1>5, KeptThen
  <2> QED
    BY <1>2, <1>5, <1>8, <1>9, <2>1, KeptThen
<1>11. Filed(s3) /\ Follows(Now, s3) /\ s3.disk.said = disk.said
  BY <1>2, <1>9, <1>10, KeptFiled, FollowsIf DEF Kept
<1>12. Len(disk.mail) = Len(s3.disk.mail)
  BY <1>2, <1>10 DEF Kept
<1>13. \A e \in 1..Len(disk.mail) : /\ disk.mail[e].run = s3.disk.mail[e].run
                                    /\ disk.mail[e].delivery = "outbox" <=> Unsent(s3, e)
  BY <1>2, <1>10 DEF Kept, Unsent
<1>14. Good(t) /\ Follows(s3, t) /\ t.disk.said = s3.disk.said
  BY <1>2, <1>9, <1>11, <1>12, <1>13, ResentGood
<1> HIDE DEF t
<1>15. Follows(Now, t)
  BY <1>2, <1>9, <1>11, <1>14, FollowsIf DEF Good
<1> QED
  BY <1>1, <1>11, <1>14, <1>15, TakenIf

-----------------------------------------------------------------------------
(* The invariant. *)

\* What SpeaksOnlyWhileRunning says of one step.
SpeaksStep ==
    /\ \A i \in disk'.said \ disk.said : disk.run[i].status = "running" /\ i \in mem.slots
    /\ \A i \in Runs :
          /\ disk.run[i].status \in {"done", "failed", "cancelled", "blocked"}
             => disk'.run[i].status = disk.run[i].status
          /\ disk.run[i].status # "queued" => disk'.run[i].status # "queued"

LEMMA FollowsSpeaks ==
    ASSUME NEW t, Follows(Now, t), t.disk = disk',
           \A j \in t.disk.said \ disk.said : Status(Now, j) = "running" /\ j \in mem.slots
    PROVE  SpeaksStep
<1>1. Now.disk = disk
  BY DEF Now
<1>2. \A i \in Runs : StatusStep(disk.run[i].status, disk'.run[i].status)
  BY <1>1 DEF Follows, Runs, Stored, Status
<1>3. \A i \in disk'.said \ disk.said : disk.run[i].status = "running" /\ i \in mem.slots
  BY <1>1 DEF Status
<1> QED
  BY <1>2, <1>3 DEF SpeaksStep, StatusStep

\* Where an operation leads to.
LEMMA TakenSteps ==
    ASSUME NEW t, Taken(t), disk' = t.disk, mem' = t.mem, up' = TRUE
    PROVE  IInv' /\ SpeaksStep
<1>1. Good(t) /\ t \in State
  BY DEF Taken, Good
<1>2. Now' = t
  BY <1>1 DEF Now, State
<1>3. IInv'
  BY <1>1, <1>2 DEF IInv, Good
<1>4. SpeaksStep
  BY FollowsSpeaks DEF Taken
<1> QED
  BY <1>3, <1>4

\* What a crash leaves behind.
LEMMA LeftSteps ==
    ASSUME NEW t, Left(t), Die(t.disk)
    PROVE  IInv' /\ SpeaksStep
<1>1. disk' = t.disk /\ mem' = NoMemory /\ up' = FALSE
  BY DEF Die
<1>2. t \in State /\ Filed(t) /\ Follows(Now, t) /\ t.disk.said = disk.said
  BY DEF Left
<1>3. Now' \in State /\ Now'.disk = t.disk
  <2>1. NoMemory \in Memory
    BY DEF NoMemory, Memory
  <2>2. Now' = [disk |-> t.disk, mem |-> NoMemory]
    BY <1>1 DEF Now
  <2> QED
    BY <1>2, <2>1, <2>2 DEF State
<1>4. Filed(Now')
  <2>1. /\ Stored(Now') = Stored(t)
        /\ \A i : Seat(Now', i) = Seat(t, i) /\ Cause(Now', i) = Cause(t, i)
        /\ \A e : Unsent(Now', e) <=> Unsent(t, e)
        /\ \A c : RunsFor(Now', c) = RunsFor(t, c)
    BY <1>3 DEF Stored, Seat, Cause, Unsent, RunsFor
  <2>2. Linked(Now')
    BY <1>2, <1>3, <2>1 DEF Filed, Linked
  <2>3. Caused(Now')
    BY <1>2, <1>3, <2>1 DEF Filed, Caused
  <2>4. Unrepeated(Now')
    BY <1>2, <2>1, StillUnrepeated DEF Filed
  <2>5. Bounded(Now')
    BY <1>2, <1>3, <2>1 DEF Filed, Bounded
  <2> QED
    BY <2>2, <2>3, <2>4, <2>5 DEF Filed
<1>5. IInv'
  BY <1>1, <1>3, <1>4 DEF IInv
<1>6. SpeaksStep
  BY <1>1, <1>2, FollowsSpeaks
<1> QED
  BY <1>5, <1>6

LEMMA Starts == ASSUME Init PROVE IInv
<1>1. PICK n \in Limits :
          disk = [room |-> [status |-> "active", max |-> n],
                  member |-> [m \in Member |-> [status |-> "idle", consent |-> TRUE]],
                  run |-> << >>, mail |-> << >>, approval |-> << >>, said |-> {}]
  BY DEF Init
<1>2. mem = NoMemory /\ up = TRUE
  BY DEF Init
<1>3. disk \in Disk
  <2>1. [status |-> "active", max |-> n] \in RoomRec
    BY DEF RoomRec
  <2>2. [m \in Member |-> [status |-> "idle", consent |-> TRUE]] \in [Member -> MemberRec]
    BY DEF MemberRec
  <2>3. << >> \in Seq(RunRec) /\ << >> \in Seq(MailRec) /\ << >> \in Seq(ApprovalRec)
    OBVIOUS
  <2> QED
    BY <1>1, <2>1, <2>2, <2>3 DEF Disk
<1>4. Now \in State /\ Now.disk = disk /\ Now.mem = NoMemory
  <2>1. NoMemory \in Memory
    BY DEF NoMemory, Memory
  <2> QED
    BY <1>2, <1>3, <2>1 DEF Now, State
<1>5. /\ Stored(Now) = {} /\ Len(Now.disk.run) = 0 /\ DOMAIN Now.disk.mail = {}
      /\ DOMAIN Now.disk.approval = {} /\ Now.disk.said = {}
  BY <1>1, <1>4 DEF Stored
<1>6. Filed(Now)
  <2>1. 0 <= MaxRuns
    BY BoundAssumption DEF BoundAssumption
  <2> QED
    BY <1>5, <2>1 DEF Filed, Linked, Caused, Unrepeated, Bounded
<1>7. Sent(Now) /\ Whole(Now)
  <2>1. ToSet(<< >>) = {} /\ IsInjective(<< >>)
    BY DEF ToSet, IsInjective
  <2> QED
    BY <1>4, <1>5, <2>1 DEF Sent, Whole, NoMemory, Sound, Queued, Slotted, Turning, NoIdle
<1> QED
  BY <1>2, <1>4, <1>6, <1>7 DEF IInv

\* Users and agents act in a living process.
LEMMA Living ==
    ASSUME IInv, NEW t, Then(t), Taken(t), up = TRUE PROVE IInv' /\ SpeaksStep
BY TakenSteps DEF Then

LEMMA UserSteps ==
    ASSUME IInv, UserNext PROVE IInv' /\ SpeaksStep
<1>1. up = TRUE
  BY DEF UserNext, UserMessage, UpdateRoom, CancelRun, ConfirmResume, RetryRun, RemoveMember,
         SetBotOwnerConsent, ResolveUserApproval, Active, IInv
<1>2. \E t : Then(t) /\ Taken(t)
  <2>1. CASE \E targets \in Addressed : UserMessage(targets)
    BY <2>1, UserMessageStep
  <2>2. CASE \E status \in {"active", "paused", "archived"}, n \in Limits : UpdateRoom(status, n)
    BY <2>2, UpdateRoomStep
  <2>3. CASE \E i \in DOMAIN disk.run : CancelRun(i)
    BY <2>3, CancelRunStep
  <2>4. CASE \E i \in DOMAIN disk.run : ConfirmResume(i)
    BY <2>4, ConfirmResumeStep
  <2>5. CASE \E i \in DOMAIN disk.run : \E m \in Member : RetryRun(i, m)
    BY <2>5, RetryRunStep
  <2>6. CASE \E m \in Member : RemoveMember(m)
    BY <2>6, RemoveMemberStep
  <2>7. CASE \E m \in Member : \E c \in BOOLEAN : SetBotOwnerConsent(m, c)
    BY <2>7, SetBotOwnerConsentStep
  <2>8. CASE \E k \in DOMAIN disk.approval, d \in {"approved", "denied"} :
                 ResolveUserApproval(k, d)
    BY <2>8, ResolveUserApprovalStep
  <2> QED
    BY <2>1, <2>2, <2>3, <2>4, <2>5, <2>6, <2>7, <2>8 DEF UserNext
<1> QED
  BY <1>1, <1>2, Living

LEMMA AgentSteps ==
    ASSUME IInv, AgentNext PROVE IInv' /\ SpeaksStep
<1>1. PICK i \in mem.turns :
          \/ \E m \in Member : RoomSend(i, m) \/ RoomAsk(i, m)
          \/ \E e \in DOMAIN disk.mail : RoomReply(i, e)
          \/ RequestUserApproval(i)
          \/ \E outcome \in {"text", "error"} : TurnReturns(i, outcome)
  BY DEF AgentNext
<1>2. up = TRUE
  BY <1>1 DEF RoomSend, RoomAsk, MayPost, RoomReply, MayReply, RequestUserApproval, TurnReturns,
              Active, IInv
<1>3. \E t : Then(t) /\ Taken(t)
  <2>1. CASE \E m \in Member : RoomSend(i, m)
    BY <2>1, RoomSendStep
  <2>2. CASE \E m \in Member : RoomAsk(i, m)
    BY <2>2, RoomAskStep
  <2>3. CASE \E e \in DOMAIN disk.mail : RoomReply(i, e)
    BY <2>3, RoomReplyStep
  <2>4. CASE RequestUserApproval(i)
    BY <2>4, RequestUserApprovalStep
  <2>5. CASE \E outcome \in {"text", "error"} : TurnReturns(i, outcome)
    BY <2>5, TurnReturnsStep
  <2> QED
    BY <1>1, <2>1, <2>2, <2>3, <2>4, <2>5
<1> QED
  BY <1>2, <1>3, Living

LEMMA CrashSteps ==
    ASSUME IInv, CrashNext PROVE IInv' /\ SpeaksStep
<1>1. CASE RecoverInterruptedRuns
  BY <1>1, RecoverStep, TakenSteps
<1>2. CASE ~RecoverInterruptedRuns
  <2>1. \E t : Die(t.disk) /\ Left(t)
    <3>1. CASE Crash
      BY <3>1, CrashStep
    <3>2. CASE \E i \in mem.turns : \E m \in Member, type \in {"message", "question"} :
                   CrashWhileSending(i, m, type)
      BY <3>2, CrashWhileSendingStep
    <3>3. CASE \E i \in mem.turns : \E e \in DOMAIN disk.mail : CrashBeforeReplyRun(i, e)
      BY <3>3, CrashBeforeReplyRunStep
    <3>4. CASE \E i \in mem.turns : CrashBeforeRequest(i)
      BY <3>4, CrashBeforeRequestStep
    <3>5. CASE \E k \in DOMAIN disk.approval, d \in {"approved", "denied"} :
                   CrashBeforeApprovalRun(k, d)
      BY <3>5, CrashBeforeApprovalRunStep
    <3> QED
      BY <1>2, <3>1, <3>2, <3>3, <3>4, <3>5 DEF CrashNext
  <2> QED
    BY <2>1, LeftSteps
<1> QED
  BY <1>1, <1>2

LEMMA Steps ==
    ASSUME IInv, [Next]_vars PROVE IInv' /\ [SpeaksStep]_vars
<1>1. CASE UserNext
  BY <1>1, UserSteps
<1>2. CASE AgentNext
  BY <1>2, AgentSteps
<1>3. CASE CrashNext
  BY <1>3, CrashSteps
<1>4. CASE UNCHANGED vars
  <2>1. disk' = disk /\ mem' = mem /\ up' = up
    BY <1>4 DEF vars
  <2>2. Now' = Now
    BY <2>1 DEF Now
  <2>3. IInv'
    BY <2>1, <2>2 DEF IInv
  <2> QED
    BY <1>4, <2>3
<1> QED
  BY <1>1, <1>2, <1>3, <1>4 DEF Next

-----------------------------------------------------------------------------
(* Theorems. *)

\* The inductive invariant holds: records, queue, slots and executors belong
\* together after every operation, crash and recovery.
THEOREM Invariance == Spec => []IInv
<1>1. Init => IInv
  BY Starts
<1>2. IInv /\ [Next]_vars => IInv'
  BY Steps
<1> QED
  BY <1>1, <1>2, PTL DEF Spec

\* Everything is typed, and the queue holds the runs stored as queued, each
\* once (enqueue, recoverInterruptedRuns).
THEOREM TypeCorrect == Spec => []RoomTypeOK
<1>1. IInv => RoomTypeOK
  <2> SUFFICES ASSUME IInv PROVE RoomTypeOK
    OBVIOUS
  <2>1. Now \in State /\ Now.disk = disk /\ Now.mem = mem /\ Filed(Now)
    BY DEF IInv, Now
  <2>2. /\ disk \in Disk /\ Runs = Stored(Now)
        /\ \A i \in Runs : disk.run[i].member \in Member /\ disk.run[i].status \in RunStatus
    BY <2>1, FieldsOf DEF Stored, Runs, Seat, Status
  <2>3. /\ disk.room \in [status : {"active", "paused", "archived"}, max : Limits]
        /\ disk.member \in [Member -> [status : {"idle", "queued", "running", "awaiting_user",
                                                 "removed"}, consent : BOOLEAN]]
    BY <2>2 DEF Disk, RoomRec, MemberRec
  <2>4. Len(disk.run) <= MaxRuns /\ disk.said \subseteq Runs
    BY <2>1, <2>2 DEF Filed, Bounded, Linked
  <2>5. CASE up = TRUE
    <3>1. Sound(Now, Stored(Now))
      BY <2>5 DEF IInv, Whole
    <3>2. /\ IsInjective(mem.queue)
          /\ ToSet(mem.queue) = {i \in Runs : disk.run[i].status = "queued"}
      BY <2>1, <2>2, <3>1 DEF Sound, Queued, Status
    <3>3. mem.slots \cup mem.aborted \subseteq mem.turns
      BY <2>1, <3>1 DEF Sound, Turning
    <3> QED
      BY <2>2, <2>3, <2>4, <3>2, <3>3 DEF RoomTypeOK
  <2>6. CASE up # TRUE
    <3>1. mem = NoMemory
      BY <2>6 DEF IInv
    <3>2. IsInjective(mem.queue) /\ mem.slots \cup mem.aborted \subseteq mem.turns
      BY <3>1 DEF NoMemory, IsInjective
    <3> QED
      BY <2>2, <2>3, <2>4, <2>6, <3>2 DEF RoomTypeOK
  <2> QED
    BY <2>5, <2>6
<1> QED
  BY <1>1, Invariance, PTL

\* A run is running just when it holds a slot and its executor lives, and the
\* slot of a cancelled run is held until its executor has ended (release).
THEOREM SlotsHeld == Spec => []SlotsMatchTurns
<1>1. IInv => SlotsMatchTurns
  <2> SUFFICES ASSUME IInv, up = TRUE
               PROVE  mem.slots = {i \in Runs : disk.run[i].status = "running"}
                                  \cup {i \in mem.turns : disk.run[i].status = "cancelled"}
    BY DEF SlotsMatchTurns
  <2>1. Now.disk = disk /\ Now.mem = mem /\ Slotted(Now, Stored(Now))
    BY DEF IInv, Whole, Sound, Now
  <2> QED
    BY <2>1 DEF Slotted, Stored, Status, Runs
<1> QED
  BY <1>1, Invariance, PTL

\* No slot stays empty that a waiting run could take (drain).
THEOREM NoneIdle == Spec => []NoIdleSlot
<1>1. IInv => NoIdleSlot
  <2> SUFFICES ASSUME IInv, NEW k \in DOMAIN mem.queue PROVE ~CanStart(Now, mem.queue[k])
    BY DEF NoIdleSlot
  <2>1. CASE up = TRUE
    <3>1. NoIdle(Now) /\ Now.mem = mem
      BY <2>1 DEF IInv, Whole, Now
    <3>2. mem.queue[k] \in ToSet(mem.queue)
      BY DEF ToSet
    <3> QED
      BY <3>1, <3>2 DEF NoIdle
  <2>2. CASE up # TRUE
    <3>1. mem = NoMemory
      BY <2>2 DEF IInv
    <3>2. mem.queue = << >>
      BY <3>1 DEF NoMemory
    <3> QED
      BY <3>2
  <2> QED
    BY <2>1, <2>2
<1> QED
  BY <1>1, Invariance, PTL

\* A member works on one thing at a time (Busy, in canStart).
THEOREM OneAtATime == Spec => []OneTurnPerMember
<1>1. IInv => OneTurnPerMember
  <2> SUFFICES ASSUME IInv, NEW i \in mem.turns \ mem.aborted, NEW j \in mem.turns \ mem.aborted,
                      i # j
               PROVE  disk.run[i].member # disk.run[j].member
    BY DEF OneTurnPerMember
  <2>1. CASE up = TRUE
    <3>1. Slotted(Now, Stored(Now)) /\ Turning(Now, Stored(Now)) /\ Now.disk = disk /\ Now.mem = mem
      BY <2>1 DEF IInv, Whole, Sound, Now
    <3>2. i \in mem.slots /\ j \in mem.slots
      BY <3>1 DEF Turning
    <3>3. Seat(Now, i) # Seat(Now, j)
      BY <3>1, <3>2 DEF Slotted
    <3> QED
      BY <3>1, <3>3 DEF Seat
  <2>2. CASE up # TRUE
    <3>1. mem = NoMemory
      BY <2>2 DEF IInv
    <3>2. mem.turns = {}
      BY <3>1 DEF NoMemory
    <3>3. i \in mem.turns
      OBVIOUS
    <3> QED
      BY <3>2, <3>3
  <2> QED
    BY <2>1, <2>2
<1> QED
  BY <1>1, Invariance, PTL

\* One envelope, answer or approval starts one run, also across crashes and
\* redeliveries (the idempotency key of a run).
THEOREM WorkedOnce == Spec => []OneRunPerCause
<1>1. IInv => OneRunPerCause
  BY DEF IInv, Filed, Unrepeated, OneRunPerCause, Stored, Cause, Seat, Runs, Now
<1> QED
  BY <1>1, Invariance, PTL

\* Only a running run in its slot publishes, and what is over, blocked or begun
\* stays so (casThisRun in executeRun, recoverInterruptedRuns).
THEOREM OverStaysOver == Spec => SpeaksOnlyWhileRunning
<1>1. IInv /\ [Next]_vars => [SpeaksStep]_vars
  BY Steps
<1>2. Spec => [][SpeaksStep]_vars
  BY <1>1, Invariance, PTL DEF Spec
<1> QED
  BY <1>2 DEF SpeaksOnlyWhileRunning, SpeaksStep

=============================================================================
