----------------------------- MODULE AtomicJson -----------------------------
(***************************************************************************)
(* The JSON files of the main process, written by writeJsonAtomic and read *)
(* by readJsonSafe (apps/electron/src/main/lib/atomic-json.ts): the        *)
(* snapshot store, the collaboration repository, the Kanban store and most *)
(* configuration files are such files.                                     *)
(*                                                                         *)
(* Within a process both calls are synchronous, so a process makes one at  *)
(* a time; other processes interleave with each file operation.  The       *)
(* temporary file is private to its write and appears here as the written  *)
(* value.  Writers exclude each other (withWriteLock of the stores that    *)
(* several processes share); readers, and what a reader writes to heal the *)
(* file, are outside that lock.                                            *)
(***************************************************************************)
EXTENDS Naturals, Sequences

CONSTANTS
    Proc,       \* processes that use the file
    Value,      \* contents written, each by one save
    None,       \* no file; also: no value
    Torn,       \* a file that does not parse
    Faults,     \* a subset of {"crash", "error"} that can happen
    MaxDamage   \* how often the file may become torn from outside

ASSUME ValueAssumption == None \notin Value /\ Torn \notin Value /\ Torn # None
ASSUME FaultAssumption == Faults \subseteq {"crash", "error"} /\ MaxDamage \in Nat

VARIABLES
    main,    \* the file <path>
    bak,     \* the file <path>.bak
    pc,      \* pc[p]: where p is in its call
    heal,    \* heal[p]: p's write is readJsonSafe writing the backup back
    val,     \* val[p]: the value p writes
    got,     \* got[p]: what p's last read returned
    saved,   \* the values saved so far, oldest first
    damage   \* how often the file was torn

vars == <<main, bak, pc, heal, val, got, saved, damage>>

File    == Value \cup {None, Torn}
Step    == {"idle", "write", "backup", "replace", "undo", "parse"}
Writing == {"write", "backup", "replace"}
Nothing == "nothing"  \* got[p] before p has read

Init ==
    /\ main = None /\ bak = None
    /\ pc = [p \in Proc |-> "idle"]
    /\ heal = [p \in Proc |-> FALSE]
    /\ val = [p \in Proc |-> None]
    /\ got = [p \in Proc |-> Nothing]
    /\ saved = << >>
    /\ damage = 0

Goto(p, step) == pc' = [pc EXCEPT ![p] = step]

\* Mutant of Return: a failed call leaves its value behind.
ReturnKeeping(p) ==
    /\ got' = IF heal[p] THEN [got EXCEPT ![p] = val[p]] ELSE got
    /\ heal' = [heal EXCEPT ![p] = FALSE]
    /\ val' = val

\* The call ends; a read that healed the file returns the value it restored.
Return(p) ==
    /\ got' = IF heal[p] THEN [got EXCEPT ![p] = val[p]] ELSE got
    /\ heal' = [heal EXCEPT ![p] = FALSE]
    /\ val' = [val EXCEPT ![p] = None]

-----------------------------------------------------------------------------
(* writeJsonAtomic. *)

\* The new content is in the temporary file, flushed to disk.
BeginWrite(p, v) ==
    /\ pc[p] = "idle"
    /\ \A q \in Proc : pc[q] \in Writing \cup {"undo"} => heal[q]
    /\ \A i \in DOMAIN saved : saved[i] # v
    /\ val' = [val EXCEPT ![p] = v]
    /\ Goto(p, "write")
    /\ UNCHANGED <<main, bak, heal, got, saved, damage>>

\* Mutant of RemoveBackup: the old backup is removed though there is no file.
RemoveBackupAlways(p) ==
    /\ pc[p] = "write"
    /\ bak' = None
    /\ Goto(p, IF main = None THEN "replace" ELSE "backup")
    /\ UNCHANGED <<main, heal, val, got, saved, damage>>

\* If there is a file, the old backup is removed first; a failure to remove
\* it is ignored.
RemoveBackup(p) ==
    /\ pc[p] = "write"
    /\ \/ main = None /\ bak' = bak /\ Goto(p, "replace")
       \/ main # None /\ bak' \in {None, bak} /\ Goto(p, "backup")
    /\ UNCHANGED <<main, heal, val, got, saved, damage>>

\* The file becomes the backup.
Backup(p) ==
    /\ pc[p] = "backup"
    /\ main # None
    /\ bak' = main /\ main' = None
    /\ Goto(p, "replace")
    /\ UNCHANGED <<heal, val, got, saved, damage>>

\* The temporary file becomes the file, and the call returns.
Replace(p) ==
    /\ pc[p] = "replace"
    /\ main' = val[p]
    /\ saved' = IF heal[p] THEN saved ELSE Append(saved, val[p])
    /\ Goto(p, "idle")
    /\ Return(p)
    /\ UNCHANGED <<bak, damage>>

\* A file operation fails: a rename whose source another process has moved,
\* or any of them if the disk reports an error.  If the file is missing and
\* there is a backup, the backup is to be moved back before the call throws.
WriteFails(p) ==
    /\ pc[p] \in Writing
    /\ "error" \in Faults \/ (pc[p] = "backup" /\ main = None)
    /\ IF main = None /\ bak # None
       THEN Goto(p, "undo") /\ UNCHANGED <<heal, val, got>>
       ELSE Goto(p, "idle") /\ Return(p)
    /\ UNCHANGED <<main, bak, saved, damage>>

\* The backup is moved back over the file; a failure to is ignored.
Undo(p) ==
    /\ pc[p] = "undo"
    /\ \/ bak # None /\ main' = bak /\ bak' = None
       \/ ("error" \in Faults \/ bak = None) /\ UNCHANGED <<main, bak>>
    /\ Goto(p, "idle")
    /\ Return(p)
    /\ UNCHANGED <<saved, damage>>

-----------------------------------------------------------------------------
(* readJsonSafe. *)

\* It looks whether the file exists, and answers its default if not.
BeginRead(p) ==
    /\ pc[p] = "idle"
    /\ IF main = None
       THEN got' = [got EXCEPT ![p] = None] /\ pc' = pc
       ELSE Goto(p, "parse") /\ UNCHANGED got
    /\ UNCHANGED <<main, bak, heal, val, saved, damage>>

\* Mutant of Parse: the backup is not tried.
ParseOnly(p) ==
    /\ pc[p] = "parse"
    /\ got' = [got EXCEPT ![p] = IF main \in Value THEN main ELSE None]
    /\ main' = IF main \in Value THEN main ELSE None
    /\ Goto(p, "idle")
    /\ UNCHANGED <<bak, heal, val, saved, damage>>

\* It reads the file; if that fails, because the file is torn or has gone
\* since, it writes the backup back and returns that; and if there is no
\* usable backup, it sets the file aside and returns its default.
Parse(p) ==
    /\ pc[p] = "parse"
    /\ \/ /\ main \in Value
          /\ got' = [got EXCEPT ![p] = main]
          /\ Goto(p, "idle")
          /\ UNCHANGED <<main, heal, val>>
       \/ /\ main \notin Value /\ bak \in Value
          /\ val' = [val EXCEPT ![p] = bak]
          /\ heal' = [heal EXCEPT ![p] = TRUE]
          /\ Goto(p, "write")
          /\ UNCHANGED <<main, got>>
       \/ /\ main \notin Value /\ bak \notin Value
          /\ main' = None
          /\ got' = [got EXCEPT ![p] = None]
          /\ Goto(p, "idle")
          /\ UNCHANGED <<heal, val>>
    /\ UNCHANGED <<bak, saved, damage>>

-----------------------------------------------------------------------------
(* The surroundings. *)

\* The process dies in the middle of a call.
Crash(p) ==
    /\ "crash" \in Faults
    /\ pc[p] # "idle"
    /\ Goto(p, "idle")
    /\ heal' = [heal EXCEPT ![p] = FALSE]
    /\ val' = [val EXCEPT ![p] = None]
    /\ UNCHANGED <<main, bak, got, saved, damage>>

\* Something else leaves half a file behind (a write that is not atomic, a
\* power loss).
Damage ==
    /\ damage < MaxDamage
    /\ main \in Value
    /\ main' = Torn
    /\ damage' = damage + 1
    /\ UNCHANGED <<bak, pc, heal, val, got, saved>>

WriteNext ==
    \E p \in Proc :
        \/ \E v \in Value : BeginWrite(p, v)
        \/ RemoveBackup(p) \/ Backup(p) \/ Replace(p)
        \/ WriteFails(p) \/ Undo(p)

ReadNext == \E p \in Proc : BeginRead(p) \/ Parse(p)

Next == WriteNext \/ ReadNext \/ Damage \/ \E p \in Proc : Crash(p)

Spec == Init /\ [][Next]_vars

-----------------------------------------------------------------------------
\* Types, and where a call can be: a write has its value, and only a write
\* heals the file.
TypeOK ==
    /\ main \in File /\ bak \in File
    /\ pc \in [Proc -> Step]
    /\ heal \in [Proc -> BOOLEAN]
    /\ val \in [Proc -> Value \cup {None}]
    /\ got \in [Proc -> Value \cup {None, Nothing}]
    /\ saved \in Seq(Value)
    /\ damage \in 0..MaxDamage
    /\ \A p \in Proc : (val[p] # None) = (pc[p] \in Writing \cup {"undo"})

\* Where the content is on the disk: in the file, or else in the backup.
Content == IF main # None THEN main ELSE bak
Pending == [p \in Proc |-> IF pc[p] \in Writing THEN val[p] ELSE None]

\* With one process and no outside damage the two files together are an
\* atomic file, whatever fails and whenever the process dies: what was saved
\* is always still on the disk (writeJsonAtomic's three steps).
Register == INSTANCE AtomicFile WITH content <- Content, writing <- Pending
ImplementsAtomicFile == Register!Spec

\* Once something has been saved, a read never answers the default as if
\* there were no file (writeJsonAtomic: a process that dies in the middle of
\* a write must not cost what was there before).
NeverForgotten ==
    [][saved # << >> => \A p \in Proc : got'[p] = None => got[p] = None]_vars

\* A read after one damage answers the last value saved or, from the
\* backup, the one before it.
Recent ==
    LET n == Len(saved)
    IN  {saved[i] : i \in {j \in 1..n : j >= n - 1}}
DamageCostsOneSave ==
    [][\A p \in Proc : got'[p] # got[p] /\ Len(saved) > 1 => got'[p] \in Recent]_vars

\* A read never takes a save back: once a save has returned, the file holds
\* it, or a later one, whenever nobody is in the middle of a call.
LatestStays ==
    (\A p \in Proc : pc[p] = "idle") /\ saved # << >> => Content = saved[Len(saved)]
=============================================================================
