------------------------- MODULE MCFusionAuthority -------------------------
(* Bounds and symmetry for checking FusionAuthority with TLC. *)
EXTENDS FusionAuthority, TLC

CONSTANTS alice, b1, b2

\* b1 is the room owner's own bot, b2 belongs to another member.
MCBotOwner == (b1 :> Owner) @@ (b2 :> alice)

\* Every bot is the room owner's.
MCOwnBots == [b \in Bot |-> Owner]

\* Seats differ only by the order they are added in, runs not at all.
SeatRunSymmetry == Permutations(RunId) \cup Permutations(SeatId)
=============================================================================
