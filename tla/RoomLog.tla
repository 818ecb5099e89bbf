------------------------------ MODULE RoomLog ------------------------------
(***************************************************************************)
(* What the Hosts of a room promise their clients together: one log of     *)
(* updates that only ever grows at its end, holds no update twice, and     *)
(* holds every update a client was told had succeeded.                     *)
(***************************************************************************)
EXTENDS Naturals, Sequences, Functions

CONSTANT Entry  \* what a log is made of

VARIABLES
    log,    \* the updates of the room, in order
    acked   \* the updates whose callers were told they succeeded

Init == log = << >> /\ acked = {}

\* An update takes effect; its caller may never hear of it.
Commit(u) ==
    /\ u \notin Range(log)
    /\ log' = Append(log, u)
    /\ acked' \in {acked, acked \cup {u}}

\* The caller of an update that has taken effect asks again and is told so.
Acknowledge(u) ==
    /\ u \in Range(log)
    /\ acked' = acked \cup {u}
    /\ UNCHANGED log

Next == \E u \in Entry : Commit(u) \/ Acknowledge(u)

Spec == Init /\ [][Next]_<<log, acked>>
=============================================================================
