----------------------------- MODULE AtomicFile -----------------------------
(***************************************************************************)
(* What an atomic file promises: a write takes effect whole and at once,   *)
(* or not at all, and nothing else ever changes the content.               *)
(***************************************************************************)
CONSTANTS
    Proc,   \* processes that use the file
    Value,  \* what can be written
    None    \* no content, nothing being written

VARIABLES
    content,  \* what the file holds
    writing   \* writing[p]: what p has asked to write and not heard of yet

Init ==
    /\ content = None
    /\ writing = [p \in Proc |-> None]

Begin(p, v) ==
    /\ writing[p] = None
    /\ writing' = [writing EXCEPT ![p] = v]
    /\ UNCHANGED content

TakeEffect(p) ==
    /\ writing[p] # None
    /\ content' = writing[p]
    /\ writing' = [writing EXCEPT ![p] = None]

\* The write failed or its process died: the file is as it was.
GiveUp(p) ==
    /\ writing' = [writing EXCEPT ![p] = None]
    /\ UNCHANGED content

Next ==
    \E p \in Proc :
        \/ \E v \in Value : Begin(p, v)
        \/ TakeEffect(p)
        \/ GiveUp(p)

Spec == Init /\ [][Next]_<<content, writing>>
=============================================================================
