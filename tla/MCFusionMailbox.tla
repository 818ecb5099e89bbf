--------------------------- MODULE MCFusionMailbox ---------------------------
(* Bounds and symmetry for checking FusionMailbox with TLC. *)
EXTENDS FusionMailbox, TLC

CONSTANTS s1, s2, b1, b2

MCSeated == <<s1, s2>>
MCBotAt == (s1 :> b1) @@ (s2 :> b2)

\* Both bots are the room owner's.
MCOwnBots == [b \in Bot |-> Owner]

MailSymmetry == Permutations(RunId) \cup Permutations(Env)
=============================================================================
