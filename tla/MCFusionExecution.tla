-------------------------- MODULE MCFusionExecution --------------------------
(* Bounds and symmetry for checking FusionExecution with TLC. *)
EXTENDS FusionExecution, TLC

CONSTANTS alice, s1, s2, b1, b2

MCSeated == IF s2 \in SeatId THEN <<s1, s2>> ELSE <<s1>>
MCJob == Job
MCBotAt == [s \in SeatId |-> IF s = s1 THEN b1 ELSE b2]

\* Both bots are the room owner's own.
MCOwnBots == [b \in Bot |-> Owner]

\* Both bots belong to another member, who has consented and is offline.
MCLentBots == [b \in Bot |-> alice]

ExecSymmetry == Permutations(RunId) \cup Permutations(Env) \cup Permutations(Msg)
=============================================================================
