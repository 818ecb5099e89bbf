-------------------------- MODULE AtomicJson_proofs -------------------------
(* With one process and no damage from outside, writeJsonAtomic's two      *)
(* files implement an atomic file, for any contents and whatever fails:    *)
(* errors at every file operation and the death of the process between any *)
(* two of them.  When nothing else fails, one damage costs one save.       *)
EXTENDS AtomicJson, TLAPS

OneProcess == \E p : Proc = {p}
NoDamage   == MaxDamage = 0

-----------------------------------------------------------------------------
\* Where the content is at each step of the one call in progress.
Located(p) ==
    /\ ~heal[p]
    /\ pc[p] \in {"backup", "parse"} => main \in Value
    /\ pc[p] \in {"replace", "undo"} => main = None
    /\ pc[p] = "undo" => bak # None

IInv ==
    /\ TypeOK
    /\ main # Torn /\ bak # Torn
    /\ \A p \in Proc : Located(p)

\* The invariant holds with one process and no damage.
THEOREM Invariance ==
    ASSUME OneProcess, NoDamage
    PROVE  Spec => []IInv
<1> PICK p : Proc = {p}
  BY DEF OneProcess
<1>1. Init => IInv
  BY ValueAssumption, FaultAssumption DEF Init, IInv, TypeOK, Located, File, Step, Writing, Nothing
<1>2. IInv /\ [Next]_vars => IInv'
  <2> SUFFICES ASSUME IInv, [Next]_vars PROVE IInv'
    OBVIOUS
  <2> USE ValueAssumption
  <2>0. /\ TypeOK /\ main \in Value \cup {None} /\ bak \in Value \cup {None}
        /\ ~heal[p] /\ damage = 0
        /\ pc[p] \in {"backup", "parse"} => main \in Value
        /\ pc[p] \in {"replace", "undo"} => main = None
        /\ pc[p] = "undo" => bak # None
    BY NoDamage DEF NoDamage, IInv, Located, TypeOK, File
  <2>1. CASE UNCHANGED vars
    BY <2>1 DEF vars, IInv, TypeOK, Located
  <2>2. ASSUME NEW v \in Value, BeginWrite(p, v) PROVE IInv'
    BY <2>0, <2>2 DEF BeginWrite, Goto, IInv, TypeOK, Located, File, Step, Writing
  <2>3. CASE RemoveBackup(p)
    BY <2>0, <2>3 DEF RemoveBackup, Goto, IInv, TypeOK, Located, File, Step, Writing
  <2>4. CASE Backup(p)
    BY <2>0, <2>4 DEF Backup, Goto, IInv, TypeOK, Located, File, Step, Writing
  <2>5. CASE Replace(p)
    BY <2>0, <2>5 DEF Replace, Return, Goto, IInv, TypeOK, Located, File, Step, Writing
  <2>6. CASE WriteFails(p)
    <3>1. CASE main = None /\ bak # None
      <4>1. /\ pc' = [pc EXCEPT ![p] = "undo"] /\ pc[p] \in Writing
            /\ UNCHANGED <<main, bak, heal, val, got, saved, damage>>
        BY <2>6, <3>1 DEF WriteFails, Goto
      <4> QED
        BY <2>0, <3>1, <4>1 DEF IInv, TypeOK, Located, Step, Writing
    <3>2. CASE ~(main = None /\ bak # None)
      <4>1. /\ pc' = [pc EXCEPT ![p] = "idle"]
            /\ heal' = [heal EXCEPT ![p] = FALSE] /\ val' = [val EXCEPT ![p] = None]
            /\ UNCHANGED <<main, bak, got, saved, damage>>
        BY <2>0, <2>6, <3>2 DEF WriteFails, Return, Goto
      <4> QED
        BY <2>0, <4>1 DEF IInv, TypeOK, Located, Step, Writing
    <3> QED
      BY <3>1, <3>2
  <2>7. CASE Undo(p)
    BY <2>0, <2>7 DEF Undo, Return, Goto, IInv, TypeOK, Located, File, Step, Writing
  <2>8. CASE BeginRead(p)
    BY <2>0, <2>8 DEF BeginRead, Goto, IInv, TypeOK, Located, File, Step, Writing
  <2>9. CASE Parse(p)
    BY <2>0, <2>9 DEF Parse, Goto, IInv, TypeOK, Located, File, Step, Writing
  <2>10. CASE Crash(p)
    BY <2>0, <2>10 DEF Crash, Goto, IInv, TypeOK, Located, File, Step, Writing
  <2>11. ~Damage
    BY <2>0, NoDamage DEF NoDamage, Damage
  <2> QED
    BY <2>1, <2>2, <2>3, <2>4, <2>5, <2>6, <2>7, <2>8, <2>9, <2>10, <2>11
    DEF Next, WriteNext, ReadNext
<1> QED
  BY <1>1, <1>2, PTL DEF Spec

\* A write takes effect whole and at once or not at all, and nothing else
\* changes what is on the disk.
THEOREM Refinement ==
    ASSUME OneProcess, NoDamage
    PROVE  Spec => ImplementsAtomicFile
<1> PICK p : Proc = {p}
  BY DEF OneProcess
<1>1. Init => Register!Init
  BY DEF Init, Register!Init, Content, Pending, Writing
<1>2. IInv /\ [Next]_vars => [Register!Next]_<<Content, Pending>>
  <2> SUFFICES ASSUME IInv, [Next]_vars PROVE [Register!Next]_<<Content, Pending>>
    OBVIOUS
  <2> USE ValueAssumption
  <2>0. /\ TypeOK /\ ~heal[p] /\ damage = 0
        /\ pc[p] \in {"backup", "parse"} => main \in Value
        /\ pc[p] \in {"replace", "undo"} => main = None
        /\ pc[p] \in Writing => val[p] \in Value
    BY NoDamage DEF NoDamage, IInv, Located, TypeOK, Writing
  <2>1. CASE UNCHANGED vars \/ BeginRead(p)
    BY <2>1 DEF vars, BeginRead, Goto, Content, Pending, IInv, TypeOK, Writing
  <2>2. ASSUME NEW v \in Value, BeginWrite(p, v) PROVE Register!Begin(p, v)
    BY <2>0, <2>2 DEF BeginWrite, Goto, Register!Begin, Content, Pending, TypeOK, Writing
  <2>3. CASE RemoveBackup(p) \/ Backup(p) \/ Undo(p) \/ Parse(p)
    <3>1. Content' = Content
      BY <2>0, <2>3 DEF RemoveBackup, Backup, Undo, Parse, Goto, Content
    <3>2. Pending' = Pending
      BY <2>0, <2>3 DEF RemoveBackup, Backup, Undo, Parse, Return, Goto, Pending, TypeOK, Writing
    <3> QED
      BY <3>1, <3>2
  <2>4. CASE Replace(p)
    <3>1. Content' = Pending[p] /\ Pending[p] # None
      BY <2>0, <2>4 DEF Replace, Content, Pending, Writing
    <3>2. Pending' = [Pending EXCEPT ![p] = None]
      BY <2>0, <2>4 DEF Replace, Return, Goto, Pending, TypeOK, Writing
    <3> QED
      BY <3>1, <3>2 DEF Register!Next, Register!TakeEffect
  <2>5. CASE WriteFails(p) \/ Crash(p)
    <3>1. Content' = Content
      BY <2>5 DEF WriteFails, Crash, Content
    <3>2. Pending' = [Pending EXCEPT ![p] = None]
      BY <2>0, <2>5 DEF WriteFails, Crash, Return, Goto, Pending, TypeOK, Writing
    <3> QED
      BY <3>1, <3>2 DEF Register!Next, Register!GiveUp
  <2>6. ~Damage
    BY <2>0, NoDamage DEF NoDamage, Damage
  <2> QED
    BY <2>1, <2>2, <2>3, <2>4, <2>5, <2>6
    DEF Next, WriteNext, ReadNext, Register!Next
<1> QED
  BY <1>1, <1>2, Invariance, PTL DEF Spec, ImplementsAtomicFile, Register!Spec
-----------------------------------------------------------------------------
\* The part of TypeOK that is about calls.
CallTypes ==
    /\ pc \in [Proc -> Step]
    /\ heal \in [Proc -> BOOLEAN]
    /\ val \in [Proc -> Value \cup {None}]
    /\ got \in [Proc -> Value \cup {None, Nothing}]
    /\ \A p \in Proc : (val[p] # None) = (pc[p] \in Writing \cup {"undo"})

LEMMA ReturnTypes ==
    ASSUME TypeOK, NEW p \in Proc, Goto(p, "idle"), Return(p)
    PROVE  CallTypes'
<1>1. heal' \in [Proc -> BOOLEAN] /\ val' \in [Proc -> Value \cup {None}]
  BY DEF Return, TypeOK
<1>2. got' \in [Proc -> Value \cup {None, Nothing}]
  <2>1. val[p] \in Value \cup {None}
    BY DEF TypeOK
  <2>2. CASE heal[p]
    BY <2>1, <2>2 DEF Return, TypeOK
  <2>3. CASE ~heal[p]
    BY <2>3 DEF Return, TypeOK
  <2> QED
    BY <2>2, <2>3
<1>3. pc' = [pc EXCEPT ![p] = "idle"] /\ val' = [val EXCEPT ![p] = None]
  BY DEF Goto, Return
<1>4. pc' \in [Proc -> Step]
  BY <1>3 DEF TypeOK, Step
<1>5. \A q \in Proc : (val'[q] # None) = (pc'[q] \in Writing \cup {"undo"})
  BY <1>3 DEF TypeOK, Writing
<1> QED
  BY <1>1, <1>2, <1>4, <1>5 DEF CallTypes

\* Types are kept, and a write has its value, by any number of processes,
\* whatever fails and whatever is damaged from outside.
THEOREM TypeCorrect == Spec => []TypeOK
<1>1. Init => TypeOK
  BY FaultAssumption DEF Init, TypeOK, File, Step, Writing, Nothing
<1>2. TypeOK /\ [Next]_vars => TypeOK'
  <2> SUFFICES ASSUME TypeOK, [Next]_vars PROVE TypeOK'
    OBVIOUS
  <2> USE ValueAssumption, FaultAssumption
  <2>1. CASE UNCHANGED vars
    BY <2>1 DEF vars, TypeOK
  <2>2. ASSUME NEW p \in Proc, NEW v \in Value, BeginWrite(p, v) PROVE TypeOK'
    BY <2>2 DEF BeginWrite, Goto, TypeOK, Step, Writing
  <2>3. ASSUME NEW p \in Proc, RemoveBackup(p) PROVE TypeOK'
    BY <2>3 DEF RemoveBackup, Goto, TypeOK, File, Step, Writing
  <2>4. ASSUME NEW p \in Proc, Backup(p) PROVE TypeOK'
    BY <2>4 DEF Backup, Goto, TypeOK, File, Step, Writing
  <2>5. ASSUME NEW p \in Proc, Replace(p) PROVE TypeOK'
    <3>1. val[p] \in Value
      BY <2>5 DEF Replace, TypeOK, Writing
    <3>2. saved' \in Seq(Value) /\ main' \in File
      BY <2>5, <3>1 DEF Replace, TypeOK, File
    <3> QED
      BY <2>5, <3>2, ReturnTypes DEF Replace, TypeOK, CallTypes
  <2>6. ASSUME NEW p \in Proc, WriteFails(p) PROVE TypeOK'
    <3>1. CASE main = None /\ bak # None
      BY <2>6, <3>1 DEF WriteFails, Goto, TypeOK, Step, Writing
    <3>2. CASE ~(main = None /\ bak # None)
      <4>1. Goto(p, "idle") /\ Return(p) /\ UNCHANGED <<main, bak, saved, damage>>
        BY <2>6, <3>2 DEF WriteFails
      <4> QED
        BY <4>1, ReturnTypes DEF TypeOK, CallTypes
    <3> QED
      BY <3>1, <3>2
  <2>7. ASSUME NEW p \in Proc, Undo(p) PROVE TypeOK'
    <3>1. main' \in File /\ bak' \in File
      BY <2>7 DEF Undo, TypeOK, File
    <3> QED
      BY <2>7, <3>1, ReturnTypes DEF Undo, TypeOK, CallTypes
  <2>8. ASSUME NEW p \in Proc, BeginRead(p) PROVE TypeOK'
    BY <2>8 DEF BeginRead, Goto, TypeOK, Step, Writing
  <2>9. ASSUME NEW p \in Proc, Parse(p) PROVE TypeOK'
    <3>1. CASE main \in Value
      BY <2>9, <3>1 DEF Parse, Goto, TypeOK, Step, Writing
    <3>2. CASE main \notin Value /\ bak \in Value
      <4>1. /\ val' = [val EXCEPT ![p] = bak] /\ heal' = [heal EXCEPT ![p] = TRUE]
            /\ pc' = [pc EXCEPT ![p] = "write"] /\ UNCHANGED <<main, bak, got, saved, damage>>
        BY <2>9, <3>2 DEF Parse, Goto
      <4> QED
        BY <3>2, <4>1 DEF TypeOK, Step, Writing
    <3>3. CASE main \notin Value /\ bak \notin Value
      <4>1. /\ main' = None /\ bak' = bak /\ got' = [got EXCEPT ![p] = None]
            /\ pc' = [pc EXCEPT ![p] = "idle"] /\ pc[p] = "parse"
            /\ UNCHANGED <<heal, val, saved, damage>>
        BY <2>9, <3>3 DEF Parse, Goto
      <4> QED
        BY <4>1 DEF TypeOK, File, Step, Writing
    <3> QED
      BY <3>1, <3>2, <3>3
  <2>10. ASSUME NEW p \in Proc, Crash(p) PROVE TypeOK'
    BY <2>10 DEF Crash, Goto, TypeOK, Step, Writing
  <2>11. CASE Damage
    BY <2>11 DEF Damage, TypeOK, File
  <2> QED
    BY <2>1, <2>2, <2>3, <2>4, <2>5, <2>6, <2>7, <2>8, <2>9, <2>10, <2>11
    DEF Next, WriteNext, ReadNext
<1> QED
  BY <1>1, <1>2, PTL DEF Spec

-----------------------------------------------------------------------------
(* One damage from outside, and nothing else goes wrong. *)

NoFault   == Faults = {}
OneDamage == MaxDamage <= 1

\* Before the damage file and backup are the last two saves, but for the
\* moments between the steps of a write.
Intact(p) ==
    LET n == Len(saved) IN
    /\ ~heal[p]
    /\ n = 0 => main = None /\ pc[p] # "parse"
    /\ n > 0 /\ pc[p] # "replace" => main = saved[n]
    /\ n > 0 /\ pc[p] = "replace" => main = None /\ bak = saved[n]
    /\ n > 1 /\ pc[p] \in {"idle", "parse", "write"} => bak = saved[n - 1]

\* After it a call begins with one of the two in its place, or in the backup
\* of a torn file; and what heals the file is one of the two.
Recovers(p) ==
    Len(saved) > 1 =>
        /\ pc[p] \in {"idle", "parse"} => main \in Recent \/ (main = Torn /\ bak \in Recent)
        /\ heal[p] => val[p] \in Recent

Damaged(p) ==
    /\ pc[p] # "undo"
    /\ pc[p] = "backup" => main # None
    /\ heal[p] => pc[p] \in Writing
    /\ IF damage = 0 THEN Intact(p) ELSE damage = 1 /\ Recovers(p)

DamageInv == TypeOK /\ \A p \in Proc : Damaged(p)

LEMMA RecentIs ==
    ASSUME saved \in Seq(Value)
    PROVE  /\ Recent \subseteq Value
           /\ Len(saved) > 0 => saved[Len(saved)] \in Recent
           /\ Len(saved) > 1 => saved[Len(saved) - 1] \in Recent
BY DEF Recent

\* With one process, no failure and at most one damage the invariant holds.
THEOREM DamageInvariance ==
    ASSUME OneProcess, NoFault, OneDamage
    PROVE  Spec => []DamageInv
<1> PICK p : Proc = {p}
  BY DEF OneProcess
<1>1. Init => DamageInv
  <2> SUFFICES ASSUME Init PROVE DamageInv
    OBVIOUS
  <2>1. TypeOK
    BY FaultAssumption DEF Init, TypeOK, File, Step, Writing, Nothing
  <2>2. Damaged(p)
    BY DEF Init, Damaged, Intact
  <2> QED
    BY <2>1, <2>2 DEF DamageInv
<1>2. DamageInv /\ TypeOK' /\ [Next]_vars => DamageInv'
  <2> SUFFICES ASSUME DamageInv, TypeOK', [Next]_vars PROVE Damaged(p)'
    BY DEF DamageInv
  <2> USE ValueAssumption
  <2>0. /\ TypeOK /\ Damaged(p) /\ saved \in Seq(Value) /\ Len(saved) \in Nat
        /\ (val[p] # None) = (pc[p] \in Writing \cup {"undo"})
    BY DEF DamageInv, TypeOK
  <2>1. CASE UNCHANGED vars
    BY <2>0, <2>1 DEF vars, Damaged, Intact, Recovers, Recent
  <2>2. ASSUME NEW v \in Value, BeginWrite(p, v) PROVE Damaged(p)'
    <3>1. /\ pc'[p] = "write" /\ pc[p] = "idle" /\ UNCHANGED <<main, bak, heal, saved, damage>>
      BY <2>0, <2>2 DEF BeginWrite, Goto, TypeOK
    <3> QED
      BY <2>0, <3>1 DEF Damaged, Intact, Recovers, Writing
  <2>3. CASE RemoveBackup(p)
    <3>1. /\ pc[p] = "write" /\ UNCHANGED <<main, heal, val, saved, damage>>
          /\ \/ main = None /\ bak' = bak /\ pc'[p] = "replace"
             \/ main # None /\ pc'[p] = "backup"
      BY <2>0, <2>3 DEF RemoveBackup, Goto, TypeOK
    <3>2. Recent' = Recent
      BY <3>1 DEF Recent
    <3>3. Intact(p) => Intact(p)'
      <4>1. \A i \in 1..Len(saved) : saved[i] # None
        BY <2>0
      <4> QED
        BY <2>0, <3>1, <4>1 DEF Intact
    <3>4. Recovers(p) => Recovers(p)'
      BY <3>1, <3>2 DEF Recovers
    <3> QED
      BY <2>0, <3>1, <3>3, <3>4 DEF Damaged, Writing
  <2>4. CASE Backup(p)
    <3>1. /\ pc[p] = "backup" /\ main # None /\ bak' = main /\ main' = None
          /\ pc'[p] = "replace" /\ UNCHANGED <<heal, val, saved, damage>>
      BY <2>0, <2>4 DEF Backup, Goto, TypeOK
    <3>2. Recent' = Recent
      BY <3>1 DEF Recent
    <3> QED
      BY <2>0, <3>1, <3>2 DEF Damaged, Intact, Recovers, Writing
  <2>5. CASE Replace(p)
    <3>1. /\ pc[p] = "replace" /\ main' = val[p] /\ val[p] \in Value
          /\ pc'[p] = "idle" /\ ~heal'[p] /\ UNCHANGED <<bak, damage>>
          /\ saved' = IF heal[p] THEN saved ELSE Append(saved, val[p])
      BY <2>0, <2>5 DEF Replace, Return, Goto, TypeOK, Writing
    <3>2. CASE heal[p]
      <4>1. saved' = saved /\ Recent' = Recent /\ damage = 1 /\ Recovers(p)
        BY <2>0, <3>1, <3>2 DEF Recent, Damaged, Intact
      <4> QED
        BY <3>1, <3>2, <4>1 DEF Damaged, Recovers
    <3>3. CASE ~heal[p]
      <4>1. /\ saved' = Append(saved, val[p]) /\ Len(saved') = Len(saved) + 1
            /\ saved'[Len(saved')] = val[p] /\ saved' \in Seq(Value)
            /\ Len(saved) > 0 => saved'[Len(saved') - 1] = saved[Len(saved)]
        BY <2>0, <3>1, <3>3
      <4>2. main' \in Recent'
        BY <2>0, <3>1, <4>1 DEF Recent
      <4>3. Intact(p) => Intact(p)'
        BY <2>0, <3>1, <4>1 DEF Intact
      <4>4. Recovers(p)'
        BY <3>1, <4>2 DEF Recovers
      <4> QED
        BY <2>0, <3>1, <4>3, <4>4 DEF Damaged
    <3> QED
      BY <3>2, <3>3
  <2>6. ~WriteFails(p) /\ ~Undo(p) /\ ~Crash(p)
    BY <2>0 DEF NoFault, Damaged, WriteFails, Undo, Crash
  <2>7. CASE BeginRead(p)
    <3>1. /\ pc[p] = "idle" /\ UNCHANGED <<main, bak, heal, val, saved, damage>>
          /\ pc'[p] = "idle" \/ (pc'[p] = "parse" /\ main # None)
      BY <2>0, <2>7 DEF BeginRead, Goto, TypeOK
    <3>2. Recent' = Recent
      BY <3>1 DEF Recent
    <3> QED
      BY <2>0, <3>1, <3>2 DEF Damaged, Intact, Recovers, Writing
  <2>8. CASE Parse(p)
    <3>1. pc[p] = "parse" /\ UNCHANGED <<bak, saved, damage>> /\ Recent' = Recent
      BY <2>8 DEF Parse, Recent
    <3>2. CASE main \in Value
      <4>1. pc'[p] = "idle" /\ UNCHANGED <<main, heal, val>>
        BY <2>0, <2>8, <3>2 DEF Parse, Goto, TypeOK
      <4> QED
        BY <2>0, <3>1, <4>1 DEF Damaged, Intact, Recovers, Writing
    <3>3. CASE main \notin Value /\ bak \in Value
      <4>1. pc'[p] = "write" /\ val'[p] = bak /\ main' = main
        BY <2>0, <2>8, <3>3 DEF Parse, Goto, TypeOK
      <4>2. damage = 1 /\ (Len(saved) > 1 => bak \in Recent)
        <5>1. ~Intact(p)
          <6>1. CASE Len(saved) = 0
            BY <2>0, <3>1, <3>3, <6>1 DEF Intact, Damaged
          <6>2. CASE Len(saved) > 0
            <7>1. saved[Len(saved)] \in Value
              BY <2>0, <6>2
            <7> QED
              BY <3>1, <3>3, <6>2, <7>1 DEF Intact
          <6> QED
            BY <2>0, <6>1, <6>2
        <5>2. Recent \subseteq Value
          BY <2>0, RecentIs
        <5> QED
          BY <2>0, <3>1, <3>3, <5>1, <5>2 DEF Damaged, Recovers
      <4> QED
        BY <2>0, <3>1, <4>1, <4>2 DEF Damaged, Recovers, Writing
    <3>4. CASE main \notin Value /\ bak \notin Value
      <4>1. pc'[p] = "idle" /\ main' = None /\ UNCHANGED <<heal, val>>
        BY <2>0, <2>8, <3>4 DEF Parse, Goto, TypeOK
      <4>2. Len(saved) <= 1 /\ (Len(saved) = 1 => damage = 1)
        <5>1. /\ Recent \subseteq Value
              /\ \A i \in 1..Len(saved) : saved[i] \in Value
          BY <2>0, RecentIs
        <5> QED
          BY <2>0, <3>1, <3>4, <5>1 DEF Damaged, Intact, Recovers
      <4>3. ~heal[p] /\ ~heal'[p]
        BY <2>0, <3>1, <4>1 DEF Damaged, Writing
      <4>4. CASE damage = 0
        <5>1. Len(saved) = 0
          BY <2>0, <4>2, <4>4
        <5> QED
          BY <2>0, <3>1, <4>1, <4>3, <4>4, <5>1 DEF Damaged, Intact
      <4>5. CASE damage # 0
        BY <2>0, <3>1, <4>1, <4>2, <4>3, <4>5 DEF Damaged, Recovers
      <4> QED
        BY <4>4, <4>5
    <3> QED
      BY <3>2, <3>3, <3>4
  <2>9. CASE Damage
    <3>1. /\ damage < MaxDamage /\ main \in Value /\ main' = Torn /\ damage' = damage + 1
          /\ UNCHANGED <<bak, pc, heal, val, saved>>
      BY <2>9 DEF Damage
    <3>2. damage = 0 /\ damage' = 1 /\ Intact(p) /\ Recent' = Recent
      BY <2>0, <3>1, FaultAssumption DEF OneDamage, TypeOK, Damaged, Recent
    <3>3. Len(saved) > 1 => saved[Len(saved) - 1] \in Recent
      BY <2>0, RecentIs
    <3> QED
      BY <2>0, <3>1, <3>2, <3>3 DEF Damaged, Intact, Recovers
  <2> QED
    BY <2>1, <2>2, <2>3, <2>4, <2>5, <2>6, <2>7, <2>8, <2>9 DEF Next, WriteNext, ReadNext
<1> QED
  BY <1>1, <1>2, TypeCorrect, PTL DEF Spec

\* What one torn file costs is at most the newest save: a read answers the
\* last value saved or the one before it (readJsonSafe and the backup).
THEOREM OneSaveLost ==
    ASSUME OneProcess, NoFault, OneDamage
    PROVE  Spec => DamageCostsOneSave
<1>1. DamageInv /\ [Next]_vars
      => [\A p \in Proc : got'[p] # got[p] /\ Len(saved) > 1 => got'[p] \in Recent]_vars
  <2> SUFFICES ASSUME DamageInv, Next, NEW p \in Proc, got'[p] # got[p], Len(saved) > 1
               PROVE  got'[p] \in Recent
    BY DEF vars
  <2>a. Proc = {p}
    BY DEF OneProcess
  <2>0. /\ TypeOK /\ Damaged(p) /\ Recent \subseteq Value /\ None \notin Value /\ Torn \notin Value
        /\ saved[Len(saved)] \in Recent /\ saved[Len(saved) - 1] \in Recent
    BY RecentIs, ValueAssumption DEF DamageInv, TypeOK
  <2>1. pc[p] \in {"idle", "parse"} => main \in Recent \/ (main = Torn /\ bak \in Recent)
    BY <2>0 DEF Damaged, Intact, Recovers
  <2>2. heal[p] => val[p] \in Recent
    BY <2>0 DEF Damaged, Intact, Recovers
  <2>3. CASE BeginRead(p)
    <3>1. pc[p] = "idle" /\ main = None
      BY <2>3 DEF BeginRead
    <3> QED
      BY <2>0, <2>1, <3>1, ValueAssumption
  <2>4. CASE Parse(p)
    <3>1. pc[p] = "parse"
      BY <2>4 DEF Parse
    <3>2. CASE main \in Value
      <4>1. got'[p] = main
        BY <2>0, <2>4, <3>2 DEF Parse, TypeOK
      <4> QED
        BY <2>0, <2>1, <3>1, <3>2, <4>1
    <3>3. CASE main \notin Value
      <4>1. bak \in Value
        BY <2>0, <2>1, <3>1, <3>3
      <4> QED
        BY <2>4, <3>3, <4>1 DEF Parse
    <3> QED
      BY <3>2, <3>3
  <2>5. CASE Replace(p)
    <3>1. heal[p] /\ got'[p] = val[p]
      BY <2>0, <2>5 DEF Replace, Return, TypeOK
    <3> QED
      BY <2>2, <3>1
  <2>6. ~WriteFails(p) /\ ~Undo(p) /\ ~Crash(p)
    BY <2>0 DEF NoFault, Damaged, WriteFails, Undo, Crash
  <2>7. CASE Damage \/ RemoveBackup(p) \/ Backup(p) \/ \E v \in Value : BeginWrite(p, v)
    BY <2>7 DEF Damage, RemoveBackup, Backup, BeginWrite
  <2> QED
    BY <2>a, <2>3, <2>4, <2>5, <2>6, <2>7 DEF Next, WriteNext, ReadNext
<1> QED
  BY <1>1, DamageInvariance, PTL DEF Spec, DamageCostsOneSave
=============================================================================
